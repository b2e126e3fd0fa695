--------------------------- MODULE Capture_proofs ---------------------------
(***************************************************************************)
(* Proofs about Capture for all layouts, encoders and settings, and any    *)
(* number of clients and changes: frames have the size their encoder was   *)
(* started for, their headers name its codec, and crops are current.  And  *)
(* about DirtyRegions, for every size of the screen and of the blocks: the *)
(* regions that are sent cover what changed, each pixel of it once.        *)
(***************************************************************************)
EXTENDS Capture, SequenceTheorems, WellFoundedInduction, TLAPS

(* What Poll compares is enough: where it sees no change, the monitors are as wide
   and where they were. *)
LEMMA UnchangedWidth ==
  ASSUME NEW l \in Layouts, NEW m \in Layouts, NEW i \in 0..Len(l),
         Signature[l] = Signature[m]
  PROVE  /\ Len(m) = Len(l) /\ Clamped(m, i) = i
         /\ Area(m, i).w = Area(l, i).w /\ Area(m, i).x = Area(l, i).x
<1>1. l \in Seq(Monitor) /\ m \in Seq(Monitor)  BY LayoutsAssumption
<1>2. Len(l) \in Nat /\ Len(m) \in Nat  BY <1>1
<1>3. /\ Signature[l] = [k \in 0..Len(l) |-> <<Area(l, k).w, Area(l, k).x>>]
      /\ Signature[m] = [k \in 0..Len(m) |-> <<Area(m, k).w, Area(m, k).x>>]
  BY DEF Signature
<1>4. 0..Len(l) = 0..Len(m)
  <2>1. DOMAIN Signature[l] = 0..Len(l) /\ DOMAIN Signature[m] = 0..Len(m)  BY <1>3
  <2> QED BY <2>1
<1>5. Len(l) = Len(m)  BY <1>2, <1>4
<1>6. Signature[l][i] = Signature[m][i]  OBVIOUS
<1>7. <<Area(l, i).w, Area(l, i).x>> = <<Area(m, i).w, Area(m, i).x>>
  <2>1. i \in 0..Len(m)  BY <1>5
  <2>2. Signature[l][i] = <<Area(l, i).w, Area(l, i).x>>  BY <1>3
  <2>3. Signature[m][i] = <<Area(m, i).w, Area(m, i).x>>  BY <1>3, <2>1
  <2> QED BY <1>6, <2>2, <2>3
<1> QED BY <1>2, <1>5, <1>7 DEF Clamped

(* The encoder that is chosen is one of the codec that is asked for. *)
LEMMA ChosenCodec ==
  ASSUME NEW s \in Settings, Supported(s)
  PROVE  Chosen[s].codec = Label(s)
<1> DEFINE candidates == Offered[s.codec]
           able == {i \in 1..Len(candidates) : s.full => candidates[i].full}
           E == [codec : {s.codec}, full : BOOLEAN]
<1>1. s.codec \in VideoCodecs /\ candidates # <<>>  BY DEF Supported
<1>2. candidates \in Seq(E)
  BY <1>1, LayoutsAssumption
<1>3. able # {} => Min(able) \in able
  <2> SUFFICES ASSUME able # {} PROVE Min(able) \in able
    OBVIOUS
  <2>1. able \subseteq Nat  BY <1>2
  <2> HIDE DEF able
  <2>2. \E n \in able : \A m \in able : <<m, n>> \notin OpToRel(<, Nat)
    BY <2>1, WFMin, NatLessThanWellFounded, Zenon
  <2>3. \A m, n \in Nat : m < n => <<m, n>> \in OpToRel(<, Nat)  BY Zenon DEF OpToRel
  <2>4. \A m, n \in Nat : ~(m < n) => n <= m  OBVIOUS
  <2>5. \E n \in able : \A m \in able : n <= m  BY <2>1, <2>2, <2>3, <2>4, Zenon
  <2> QED BY <2>5, Zenon DEF Min
<1>4. Chosen[s] = Best(candidates, s.full)  BY <1>1 DEF Chosen
<1>5. Best(candidates, s.full) = candidates[IF able = {} THEN 1 ELSE Min(able)]
  BY DEF Best
<1>6. (IF able = {} THEN 1 ELSE Min(able)) \in 1..Len(candidates)
  BY <1>1, <1>2, <1>3
<1> HIDE DEF able, candidates
<1>7. Best(candidates, s.full).codec = s.codec
  <2> DEFINE i == IF able = {} THEN 1 ELSE Min(able)
  <2>1. i \in 1..Len(candidates)  BY <1>6
  <2> HIDE DEF i
  <2> HIDE DEF E
  <2>2. candidates[i] \in E  BY <1>2, <2>1
  <2>3. candidates[i].codec = s.codec  BY <2>2 DEF E
  <2> QED BY <1>5, <2>3 DEF i
<1>8. Label(s) = s.codec  BY <1>1 DEF Label, VideoCodecs
<1> QED BY <1>4, <1>7, <1>8


\* The encoder that there is, is one for the captured monitor's width, with the
\* settings of the present while they can be met.
Fitting ==
  /\ screen \in Layouts /\ known \in Layouts
  /\ index \in 0..Len(known) /\ area = Area(known, index)
  /\ quality \in Settings /\ useVideo = Supported(quality)
  /\ encoder # NoEncoder => \E s \in Settings : encoder = Encoder(area.w, s)
  /\ useVideo => encoder = Encoder(area.w, quality)

LEMMA IndexClamped ==
  ASSUME NEW l \in Layouts, NEW i \in Nat
  PROVE  Clamped(l, i) \in 0..Len(l)
<1>1. Len(l) \in Nat /\ Len(l) # 0  BY LayoutsAssumption
<1> QED BY <1>1 DEF Clamped

LEMMA EncoderThere == \A w, s : Encoder(w, s) # NoEncoder
<1>1. \A w, s : Encoder(w, s).is = "encoder"  BY DEF Encoder
<1>2. NoEncoder.is = "none"  BY DEF NoEncoder
<1> QED BY <1>1, <1>2

(* Settings are changed as if the encoder was made for them. *)
LEMMA SettingsUpdated ==
  ASSUME NEW w, NEW r, NEW s, encoder = Encoder(w, r), UpdateSettings(s)
  PROVE  encoder' = Encoder(w, s)
BY DEF UpdateSettings, Encoder

LEMMA FittingStep ==
  ASSUME Fitting, [Next]_vars
  PROVE  Fitting'
<1> USE DEF Fitting
<1> DEFINE Resting == UNCHANGED <<capture, encoding>>
<1>1. CASE Resting /\ screen' \in Layouts
  BY <1>1 DEF capture, encoding
<1>2. ASSUME NEW c \in Clients,
             \/ SendHello(c) \/ AddClient(c) \/ RemoveClient(c)
             \/ \E mode, pick : ClientHello(c, mode, pick)
      PROVE  Fitting'
  <2>1. Resting /\ screen' = screen
    BY <1>2 DEF SendHello, AddClient, RemoveClient, ClientHello
  <2> QED BY <1>1, <2>1
<1>3. ASSUME NEW i \in Indexes, SelectMonitor(i) PROVE Fitting'
  <2>1. Clamped(screen, i) \in 0..Len(screen)  BY IndexClamped DEF Indexes
  <2>2. /\ known' = screen /\ index' = Clamped(screen, i) /\ area' = Area(known', index')
        /\ screen' = screen /\ quality' = quality /\ useVideo' = useVideo
        /\ encoder' = Encoder(area'.w, quality')
    BY <1>3 DEF SelectMonitor, Select, Restart
  <2> QED BY <2>1, <2>2
<1>4. ASSUME NEW s \in Settings, ApplyQuality(s) PROVE Fitting'
  <2>1. /\ quality' = s /\ useVideo' = Supported(s) /\ screen' = screen
        /\ known' = known /\ index' = index /\ area' = area
    BY <1>4 DEF ApplyQuality, capture
  <2>2. CASE ~Supported(s)
    <3>1. encoder' = encoder /\ ~useVideo'  BY <1>4, <2>1, <2>2 DEF ApplyQuality
    <3> QED BY <2>1, <3>1
  <2>3. CASE Supported(s) /\ ~useVideo
    <3>1. encoder' = Encoder(area'.w, s)  BY <1>4, <2>1, <2>3 DEF ApplyQuality
    <3> QED BY <2>1, <3>1
  <2>4. CASE Supported(s) /\ useVideo
    <3>1. UpdateSettings(s)  BY <1>4, <2>4 DEF ApplyQuality
    <3>2. encoder' = Encoder(area'.w, s)  BY <2>1, <2>4, <3>1, SettingsUpdated
    <3> QED BY <2>1, <3>2
  <2> QED BY <2>2, <2>3, <2>4
<1>5. ASSUME NEW l \in Layouts, Plug(l) PROVE Fitting'
  <2>1. Resting /\ screen' = l  BY <1>5 DEF Plug
  <2> QED BY <1>1, <2>1
<1>6. CASE Poll
  <2>1. index \in Nat  OBVIOUS
  <2>2. Clamped(screen, index) \in 0..Len(screen)  BY <2>1, IndexClamped
  <2>3. /\ known' = screen /\ index' = Clamped(screen, index) /\ area' = Area(known', index')
        /\ screen' = screen /\ quality' = quality /\ useVideo' = useVideo
    BY <1>6 DEF Poll, Select
  <2>4. CASE Changed /\ encoder # NoEncoder
    <3>1. encoder' = Encoder(area'.w, quality')  BY <1>6, <2>3, <2>4 DEF Poll, Restart
    <3> QED BY <2>2, <2>3, <3>1
  <2>5. CASE Changed /\ encoder = NoEncoder
    <3>1. encoder' = encoder  BY <1>6, <2>5 DEF Poll
    <3>2. ~useVideo  BY <2>5, EncoderThere
    <3> QED BY <2>2, <2>3, <2>5, <3>1, <3>2
  <2>6. CASE ~Changed
    <3>1. encoder' = encoder  BY <1>6, <2>6 DEF Poll
    <3>2. area'.w = area.w  BY <2>3, <2>6, UnchangedWidth DEF Changed
    <3> QED BY <2>2, <2>3, <3>1, <3>2
  <2> QED BY <2>4, <2>5, <2>6
<1>7. CASE FeedFrame
  <2>1. Resting /\ screen' = screen  BY <1>7 DEF FeedFrame
  <2> QED BY <1>1, <2>1
<1>8. CASE UNCHANGED vars
  <2>1. Resting /\ screen' = screen  BY <1>8 DEF vars
  <2> QED BY <1>1, <2>1
<1> QED BY <1>2, <1>3, <1>4, <1>5, <1>6, <1>7, <1>8 DEF Next

LEMMA Initially == Init => Fitting
<1> SUFFICES ASSUME Init PROVE Fitting
  OBVIOUS
<1>1. PICK l \in Layouts :
        /\ screen = l /\ known = l
        /\ index = Clamped(l, FirstIndex) /\ area = Area(l, Clamped(l, FirstIndex))
        /\ quality \in Settings /\ useVideo = Supported(quality)
        /\ encoder = IF useVideo THEN Encoder(area.w, quality) ELSE NoEncoder
  BY DEF Init
<1>2. Clamped(l, FirstIndex) \in 0..Len(l)  BY IndexClamped, LayoutsAssumption
<1> QED BY <1>1, <1>2 DEF Fitting

\* A frame that isn't cropped fits.
LEMMA FramesStep ==
  ASSUME Fitting, FramesFit, [Next]_vars
  PROVE  FramesFit'
<1> USE DEF FramesFit
<1>1. CASE FeedFrame
  <2>1. encoder # NoEncoder  BY <1>1 DEF FeedFrame
  <2>2. encoder.ffmpeg.w = area.w  BY <2>1 DEF Fitting, Encoder, Ffmpeg
  <2>3. CropInUse = NoCrop => FrameWidth(CropInUse) = area.w  BY DEF FrameWidth
  <2>4. ~(garbled \/ (CropInUse = NoCrop /\ FrameWidth(CropInUse) # encoder.ffmpeg.w))
    BY <2>2, <2>3
  <2> QED BY <1>1, <2>4, Zenon DEF FeedFrame
<1>2. CASE garbled' = garbled  BY <1>2
<1>3. ~FeedFrame => garbled' = garbled
  BY DEF Next, vars, SendHello, AddClient, RemoveClient, ClientHello, SelectMonitor, ApplyQuality,
         Plug, Poll
<1> QED BY <1>1, <1>2, <1>3

(* Whatever is plugged in, selected and set, ffmpeg never gets a frame of another
   width than it was started for, unless somebody crops (EncoderLifecycle.restart,
   MonitorHotplug.run). *)
THEOREM FramesAlwaysFit == Spec => []FramesFit
<1>1. Init => FramesFit  BY DEF Init, FramesFit
<1>2. Fitting /\ FramesFit /\ [Next]_vars => (Fitting /\ FramesFit)'
  BY FittingStep, FramesStep
<1> QED BY <1>1, <1>2, Initially, PTL DEF Spec

(* The headers of the frames name their codec, while ffmpeg has the one that is
   asked for (apply_quality, _on_encoded_frame). *)
THEOREM LabelsAlwaysRight == Spec => []LabelsRight
<1>1. Fitting => LabelsRight
  <2> SUFFICES ASSUME Fitting, Supported(quality)
               PROVE  encoder # NoEncoder /\ encoder.ffmpeg.codec = Label(quality)
    BY DEF LabelsRight
  <2>1. encoder = Encoder(area.w, quality)  BY DEF Fitting
  <2>2. encoder.ffmpeg.codec = Chosen[quality].codec  BY <2>1 DEF Encoder, Ffmpeg
  <2> QED BY <2>1, <2>2, EncoderThere, ChosenCodec DEF Fitting
<1> QED BY <1>1, FittingStep, Initially, PTL DEF Spec
-----------------------------------------------------------------------------
\* Crops: who isn't in has none, the others' are of the known layout.
Current(w, l) == w.crop # NoCrop => w.pick.id \in 1..Len(l) /\ w.crop = Crop(l[w.pick.id])

Cropping ==
  /\ phase = [c \in Clients |-> phase[c]] /\ want = [c \in Clients |-> want[c]]
  /\ \A c \in Clients : phase[c] # "in" => want[c] = Default
  /\ ~slipped => \A c \in Clients : Current(want[c], known)

LEMMA DefaultCurrent == \A l : Current(Default, l)
BY DEF Current, Default

(* Whatever is picked, what is shown is a monitor of the layout. *)
LEMMA AppliedCurrent ==
  ASSUME NEW l \in Layouts, NEW mode, NEW pick
  PROVE  Current(Applied(l, mode, pick), l)
<1> DEFINE hit == Targets(l, pick)
           target == IF hit = {} THEN Primary(l) ELSE CHOOSE p \in hit : TRUE
           w == Applied(l, mode, pick)
<1>1. CASE mode = "mirror_all"  BY <1>1, DefaultCurrent DEF Applied
<1>2. CASE mode # "mirror_all"
  <2>1. w.pick = target /\ w.crop = Crop(l[target.id])  BY <1>2 DEF Applied
  <2>2. l \in Seq(Monitor) /\ Len(l) \in Nat /\ Len(l) # 0  BY LayoutsAssumption
  <2>3. Picks[l] = {[id |-> i, name |-> l[i].name] : i \in 1..Len(l)}  BY DEF Picks
  <2>4. \A p \in Picks[l] : p.id \in 1..Len(l)  BY <2>3
  <2>5. hit \subseteq Picks[l]  BY DEF Targets
  <2>6. hit # {} => target.id \in 1..Len(l)  BY <2>4, <2>5
  <2>7. hit = {} => target.id \in 1..Len(l)  BY <2>2 DEF Primary
  <2> HIDE DEF target
  <2> QED BY <2>1, <2>6, <2>7 DEF Current
<1> QED BY <1>1, <1>2

(* A poll that sees no change leaves the crops as they are. *)
LEMMA UnchangedCurrent ==
  ASSUME NEW l \in Layouts, NEW m \in Layouts, Signature[l] = Signature[m],
         NEW w, Current(w, l)
  PROVE  Current(w, m)
<1> SUFFICES ASSUME w.crop # NoCrop
             PROVE  w.pick.id \in 1..Len(m) /\ w.crop = Crop(m[w.pick.id])
  BY DEF Current
<1>1. w.pick.id \in 1..Len(l) /\ w.crop = Crop(l[w.pick.id])  BY DEF Current
<1>2. Len(l) \in Nat  BY LayoutsAssumption
<1>3. w.pick.id \in 0..Len(l) /\ w.pick.id # 0  BY <1>1, <1>2
<1>4. /\ Len(m) = Len(l) /\ Area(m, w.pick.id).w = Area(l, w.pick.id).w
      /\ Area(m, w.pick.id).x = Area(l, w.pick.id).x
  BY <1>3, UnchangedWidth
<1> QED BY <1>1, <1>3, <1>4 DEF Area, Crop

LEMMA CroppingStep ==
  ASSUME Fitting, Cropping, [Next]_vars
  PROVE  Cropping'
<1> USE DEF Cropping
<1>0. screen \in Layouts /\ known \in Layouts  BY DEF Fitting
<1>1. ASSUME NEW c \in Clients, SendHello(c) \/ AddClient(c) PROVE Cropping'
  <2>1. want' = want /\ slipped' = slipped /\ known' = known
    BY <1>1 DEF SendHello, AddClient, capture
  <2>2. /\ phase' = [d \in Clients |-> phase'[d]]
        /\ \A d \in Clients : phase'[d] # "in" => phase[d] # "in"
    BY <1>1 DEF SendHello, AddClient
  <2> QED BY <2>1, <2>2
<1>2. ASSUME NEW c \in Clients, RemoveClient(c) PROVE Cropping'
  <2>1. /\ want' = [want EXCEPT ![c] = Default] /\ phase' = [phase EXCEPT ![c] = "gone"]
        /\ slipped' = slipped /\ known' = known
    BY <1>2 DEF RemoveClient, capture
  <2> QED BY <2>1, DefaultCurrent
<1>3. ASSUME NEW c \in Clients, NEW mode, NEW pick, ClientHello(c, mode, pick)
      PROVE  Cropping'
  <2>1. /\ want' = [want EXCEPT ![c] = Applied(known, mode, pick)] /\ phase' = phase
        /\ slipped' = slipped /\ known' = known /\ phase[c] = "in"
    BY <1>3 DEF ClientHello, capture
  <2> QED BY <1>0, <2>1, AppliedCurrent
<1>4. ASSUME NEW i \in Indexes, SelectMonitor(i) PROVE Cropping'
  <2>1. /\ want' = want /\ phase' = phase /\ slipped' = (slipped \/ Changed)
        /\ known' = screen
    BY <1>4 DEF SelectMonitor, Select, session
  <2>2. ~slipped' => ~slipped /\ ~Changed  BY <2>1, Zenon
  <2>3. ~Changed => \A c \in Clients : Current(want[c], known) => Current(want[c], screen)
    BY <1>0, UnchangedCurrent DEF Changed
  <2> QED BY <2>1, <2>2, <2>3
<1>5. CASE Poll
  <2>1. known' = screen /\ phase' = phase  BY <1>5 DEF Poll, Select
  <2>2. CASE Changed
    <3>1. want' = [c \in Clients |->
            IF phase[c] = "in" THEN Applied(screen, want[c].mode, want[c].pick) ELSE want[c]]
      BY <1>5, <2>2 DEF Poll, Broadcast
    <3>2. \A c \in Clients : Current(want'[c], screen)
      BY <1>0, <3>1, AppliedCurrent, DefaultCurrent
    <3> QED BY <2>1, <3>1, <3>2
  <2>3. CASE ~Changed
    <3>1. want' = want /\ slipped' = slipped  BY <1>5, <2>3 DEF Poll
    <3>2. \A c \in Clients : Current(want[c], known) => Current(want[c], screen)
      BY <1>0, <2>3, UnchangedCurrent DEF Changed
    <3> QED BY <2>1, <3>1, <3>2
  <2> QED BY <2>2, <2>3
<1>6. CASE UNCHANGED <<phase, want, slipped, known>>  BY <1>6
<1>7. ASSUME \/ \E s \in Settings : ApplyQuality(s)
             \/ \E l \in Layouts : Plug(l)
             \/ FeedFrame \/ UNCHANGED vars
      PROVE  UNCHANGED <<phase, want, slipped, known>>
  BY <1>7 DEF ApplyQuality, Plug, FeedFrame, vars, session, capture
<1> QED BY <1>1, <1>2, <1>3, <1>4, <1>5, <1>6, <1>7 DEF Next

(* A session's crop stays that of the monitor it shows, through picks, changes
   of the layout and polls in any order (apply_capture_mode, MonitorHotplug.run). *)
THEOREM CropsStayCurrent == Spec => []CropsAreCurrent
<1>1. Init => Cropping  BY DefaultCurrent DEF Init, Cropping
<1>2. Cropping => CropsAreCurrent  BY DEF Cropping, CropsAreCurrent, Current
<1>3. Fitting /\ Cropping /\ [Next]_vars => (Fitting /\ Cropping)'
  BY FittingStep, CroppingStep
<1> QED BY <1>1, <1>2, <1>3, Initially, PTL DEF Spec

-----------------------------------------------------------------------------
(* What the JPEG loop sends (DirtyRegions).  Everything that is joined covers   *)
(* the points of the blocks it was joined from, each once, on a plane without   *)
(* edges; then what sticks out of the screen is cut off.                        *)

\* What holds at 0, and one further where it holds, holds up to m.
LEMMA UpTo ==
  ASSUME NEW m \in Nat, NEW T, 0 \in T, \A n \in 0..(m - 1) : n \in T => n + 1 \in T
  PROVE  0..m \subseteq T
<1> DEFINE left == (0..m) \ T
<1> SUFFICES ASSUME left # {} PROVE FALSE  OBVIOUS
<1>1. left \subseteq Nat  OBVIOUS
<1>2. PICK n \in left : \A k \in left : <<k, n>> \notin OpToRel(<, Nat)
  BY <1>1, WFMin, NatLessThanWellFounded, Zenon
<1>3. n \in Nat /\ n <= m /\ n \notin T  OBVIOUS
<1>4. n # 0  BY <1>3
<1>5. n - 1 \in 0..(m - 1) /\ (n - 1) + 1 = n /\ n - 1 \in 0..m /\ n - 1 < n  BY <1>3, <1>4
<1>6. n - 1 \in left  BY <1>3, <1>5
<1>7. n - 1 \in Nat  BY <1>5
<1>8. <<n - 1, n>> \in OpToRel(<, Nat)
  <2> DEFINE k == n - 1
  <2>1. k \in Nat /\ n \in Nat /\ k < n  BY <1>3, <1>5, <1>7
  <2> HIDE DEF k
  <2>2. <<k, n>> \in OpToRel(<, Nat)  BY <2>1, Zenon DEF OpToRel
  <2> QED BY <2>2 DEF k
<1> HIDE DEF left
<1> QED BY <1>2, <1>6, <1>8

Rectangle == [x : Nat, y : Nat, w : Nat \ {0}, h : Nat \ {0}]

\* The points of a rectangle, on a plane without edges.
Points(r) ==
  {p \in Nat \X Nat : r.x <= p[1] /\ p[1] < r.x + r.w /\ r.y <= p[2] /\ p[2] < r.y + r.h}
AllPoints(rs) == UNION {Points(r) : r \in rs}

\* t covers the points C, each once.
Tiles(t, C) ==
  /\ t \in Seq(Rectangle)
  /\ AllPoints({t[i] : i \in 1..Len(t)}) = C
  /\ \A i \in 1..Len(t) : \A j \in 1..(i - 1) : Points(t[i]) \cap Points(t[j]) = {}

\* Nothing covers nothing.
LEMMA NoTiles == Tiles(<<>>, {})
BY DEF Tiles, AllPoints

\* One rectangle more, or the last one grown by the points D.
LEMMA TilesGrow ==
  ASSUME NEW t, NEW C, Tiles(t, C), NEW n \in 0..Len(t), NEW s \in Seq(Rectangle),
         NEW D, Len(s) = n + 1, \A i \in 1..n : s[i] = t[i],
         NEW rest, C = AllPoints({t[i] : i \in 1..n}) \cup rest,
         \A i \in 1..n : rest \cap Points(t[i]) = {},
         D \cap C = {}, Points(s[n + 1]) = rest \cup D
  PROVE  Tiles(s, C \cup D)
<1>1. n \in Nat /\ Len(t) \in Nat  BY DEF Tiles
<1>2. AllPoints({s[i] : i \in 1..Len(s)}) = C \cup D
  <2>1. {s[i] : i \in 1..(n + 1)} = {t[i] : i \in 1..n} \cup {s[n + 1]}
    <3>1. \A i \in 1..(n + 1) : i \in 1..n \/ i = n + 1  BY <1>1
    <3>2. n + 1 \in 1..(n + 1) /\ \A i \in 1..n : i \in 1..(n + 1)  BY <1>1
    <3> QED BY <3>1, <3>2
  <2>2. AllPoints({t[i] : i \in 1..n} \cup {s[n + 1]})
          = AllPoints({t[i] : i \in 1..n}) \cup Points(s[n + 1])
    BY DEF AllPoints
  <2> QED BY <2>1, <2>2
<1>3. ASSUME NEW i \in 1..(n + 1), NEW j \in 1..(i - 1)
      PROVE  Points(s[i]) \cap Points(s[j]) = {}
  <2>1. j \in 1..n /\ s[j] = t[j]  BY <1>1
  <2>2. CASE i \in 1..n
    <3>1. i \in 1..Len(t) /\ s[i] = t[i]  BY <1>1, <2>2
    <3> QED BY <2>1, <3>1 DEF Tiles
  <2>3. CASE i = n + 1
    <3>1. Points(t[j]) \subseteq C  BY <2>1 DEF AllPoints
    <3>2. rest \cap Points(t[j]) = {}  BY <2>1
    <3> QED BY <2>1, <2>3, <3>1, <3>2
  <2> QED BY <1>1, <2>2, <2>3
<1> QED BY <1>2, <1>3 DEF Tiles

\* Appended by _merge_regions as a rectangle of its own.
LEMMA TileAdded ==
  ASSUME NEW t, NEW C, Tiles(t, C), NEW r \in Rectangle, Points(r) \cap C = {}
  PROVE  Tiles(Append(t, r), C \cup Points(r))
<1> DEFINE s == Append(t, r)
           n == Len(t)
           D == Points(r)
<1>1. t \in Seq(Rectangle) /\ C = AllPoints({t[i] : i \in 1..n})  BY DEF Tiles
<1>2. /\ s \in Seq(Rectangle) /\ Len(s) = n + 1 /\ \A i \in 1..n : s[i] = t[i]
      /\ s[n + 1] = r /\ n \in 0..Len(t)
  BY <1>1
<1> HIDE DEF s, n
<1> DEFINE rest == {}
<1>3. D \cap C = {} /\ Points(s[n + 1]) = rest \cup D  BY <1>2
<1>4. /\ C = AllPoints({t[i] : i \in 1..n}) \cup rest
      /\ \A i \in 1..n : rest \cap Points(t[i]) = {}
  BY <1>1 DEF n
<1> HIDE DEF D, rest
<1>5. Tiles(s, C \cup D)
  BY <1>2, <1>3, <1>4, TilesGrow, Zenon
<1> QED BY <1>5 DEF s, D

\* What Join and Stack make of the last rectangle.
LEMMA LastReplaced ==
  ASSUME NEW t \in Seq(Rectangle), t # <<>>, NEW e \in Rectangle
  PROVE  /\ Append(Front(t), e) \in Seq(Rectangle) /\ Len(Append(Front(t), e)) = Len(t)
         /\ Append(Front(t), e)[Len(t)] = e
         /\ \A i \in 1..(Len(t) - 1) : Append(Front(t), e)[i] = t[i]
<1> DEFINE u == Front(t)
           n == Len(t) - 1
<1>1. Len(t) \in Nat \ {0} /\ n \in Nat /\ n + 1 = Len(t)  OBVIOUS
<1>2. u \in Seq(Rectangle) /\ Len(u) = n /\ \A i \in 1..n : u[i] = t[i]  BY <1>1 DEF Front
<1> HIDE DEF u, n
<1>3. /\ Append(u, e) \in Seq(Rectangle) /\ Len(Append(u, e)) = n + 1
      /\ Append(u, e)[n + 1] = e /\ \A i \in 1..n : Append(u, e)[i] = u[i]
  BY <1>2, AppendProperties
<1> QED BY <1>1, <1>2, <1>3 DEF u, n

\* The last rectangle has grown by the points D.
LEMMA TileGrown ==
  ASSUME NEW t, NEW C, Tiles(t, C), t # <<>>, NEW D, D \cap C = {},
         NEW e \in Rectangle, Points(e) = Points(Last(t)) \cup D
  PROVE  Tiles(Append(Front(t), e), C \cup D)
<1> DEFINE s == Append(Front(t), e)
           L == Len(t)
           n == L - 1
           rest == Points(Last(t))
<1>1. t \in Seq(Rectangle) /\ C = AllPoints({t[i] : i \in 1..L})
      /\ \A i \in 1..L : \A j \in 1..(i - 1) : Points(t[i]) \cap Points(t[j]) = {}
  BY DEF Tiles
<1>2. L \in Nat \ {0} /\ n \in 0..L /\ n \in Nat /\ n + 1 = L /\ Last(t) = t[L]
  BY <1>1 DEF Last
<1>4. /\ s \in Seq(Rectangle) /\ Len(s) = n + 1 /\ s[n + 1] = e
      /\ \A i \in 1..n : s[i] = t[i]
  <2> HIDE DEF s
  <2>1. /\ s \in Seq(Rectangle) /\ Len(s) = L /\ s[L] = e
        /\ \A i \in 1..(L - 1) : s[i] = t[i]
    BY <1>1, LastReplaced DEF s
  <2> QED BY <1>2, <2>1
<1> HIDE DEF s, n, L
<1>5. C = AllPoints({t[i] : i \in 1..n}) \cup rest
  <2>1. {t[i] : i \in 1..L} = {t[i] : i \in 1..n} \cup {t[L]}
    <3>1. \A i \in 1..L : i \in 1..n \/ i = L  BY <1>2
    <3>2. L \in 1..L /\ \A i \in 1..n : i \in 1..L  BY <1>2
    <3> QED BY <3>1, <3>2
  <2> QED BY <1>1, <1>2, <2>1 DEF AllPoints
<1>6. \A i \in 1..n : rest \cap Points(t[i]) = {}
  <2>1. L \in 1..L /\ \A i \in 1..n : i \in 1..(L - 1)  BY <1>2
  <2> QED BY <1>1, <1>2, <2>1
<1> HIDE DEF rest
<1>7. Points(s[n + 1]) = rest \cup D  BY <1>4 DEF rest
<1>8. Tiles(s, C \cup D)
  BY <1>2, <1>4, <1>5, <1>6, <1>7, TilesGrow, Zenon DEF L
<1> QED BY <1>8 DEF s

\* The blocks are disjoint.
LEMMA BlocksApart ==
  ASSUME NEW a \in Blocks, NEW b \in Blocks, Points(a) \cap Points(b) # {}
  PROVE  a = b
<1>1. /\ a = Region(a.x, a.y, BlockSize, BlockSize)
      /\ b = Region(b.x, b.y, BlockSize, BlockSize)
      /\ a.x \in Starts(Width) /\ b.x \in Starts(Width)
      /\ a.y \in Starts(Height) /\ b.y \in Starts(Height)
      /\ a.w = BlockSize /\ b.w = BlockSize /\ a.h = BlockSize /\ b.h = BlockSize
  BY DEF Blocks, Region
<1>2. PICK p \in Nat \X Nat :
        /\ a.x <= p[1] /\ p[1] < a.x + BlockSize /\ a.y <= p[2] /\ p[2] < a.y + BlockSize
        /\ b.x <= p[1] /\ p[1] < b.x + BlockSize /\ b.y <= p[2] /\ p[2] < b.y + BlockSize
  BY <1>1 DEF Points
<1>3. p[1] \in Nat /\ p[2] \in Nat  BY <1>2
<1>4. ASSUME NEW m \in Nat, NEW i \in Starts(m), NEW j \in Starts(m), NEW q \in Nat,
             i <= q, q < i + BlockSize, j <= q, q < j + BlockSize
      PROVE  i = j
  <2>1. i \in Nat /\ j \in Nat /\ i % BlockSize = 0 /\ j % BlockSize = 0  BY <1>4 DEF Starts
  <2>2. BlockSize \in Nat \ {0}  BY RegionsAssumption
  <2> DEFINE k == i \div BlockSize
             l == j \div BlockSize
  <2>3. k \in Int /\ l \in Int /\ i = BlockSize * k /\ j = BlockSize * l  BY <2>1, <2>2
  <2> HIDE DEF k, l
  <2>4. BlockSize * (k - l) < BlockSize * 1 /\ BlockSize * (l - k) < BlockSize * 1
    BY <1>4, <2>1, <2>2, <2>3
  <2>5. k - l < 1 /\ l - k < 1  BY <2>2, <2>3, <2>4
  <2> QED BY <2>3, <2>5
<1>5. a.x = b.x  BY <1>1, <1>2, <1>3, <1>4, RegionsAssumption
<1>6. a.y = b.y  BY <1>1, <1>2, <1>3, <1>4, RegionsAssumption
<1> QED BY <1>1, <1>5, <1>6

\* What a row of blocks is after the scan of its first n columns.
RowNext(blocks, y, spans, n) ==
  LET r == Region(n - 1, y, BlockSize, BlockSize) IN
  IF r \in blocks THEN Join(spans, r) ELSE spans
RowScan(blocks, y, f, m) ==
  f = [n \in 0..m |-> IF n = 0 THEN <<>> ELSE RowNext(blocks, y, f[n - 1], n)]

\* Row is what the scan of all columns leaves.
LEMMA RowScanned ==
  ASSUME NEW blocks, NEW y
  PROVE  \E f : RowScan(blocks, y, f, Width) /\ Row(blocks, y) = f[Width]
<1> DEFINE T == {m \in 0..Width : \E f : RowScan(blocks, y, f, m)}
<1>1. Width \in Nat  BY RegionsAssumption
<1>2. 0 \in T
  <2> DEFINE f == [n \in 0..0 |-> <<>>]
  <2>1. \A n \in 0..0 : f[n] = IF n = 0 THEN <<>> ELSE RowNext(blocks, y, f[n - 1], n)  OBVIOUS
  <2>2. f = [n \in 0..0 |-> f[n]]  OBVIOUS
  <2> HIDE DEF f
  <2>3. RowScan(blocks, y, f, 0)  BY <2>1, <2>2 DEF RowScan
  <2> QED BY <1>1, <2>3
<1>3. ASSUME NEW m \in 0..(Width - 1), m \in T PROVE m + 1 \in T
  <2>1. PICK f : RowScan(blocks, y, f, m)  BY <1>3
  <2> DEFINE g == [n \in 0..(m + 1) |-> IF n = m + 1 THEN RowNext(blocks, y, f[m], n) ELSE f[n]]
  <2>2. ASSUME NEW n \in 0..(m + 1)
        PROVE  g[n] = IF n = 0 THEN <<>> ELSE RowNext(blocks, y, g[n - 1], n)
    <3>1. CASE n = m + 1
      <4>1. m \in 0..(m + 1) /\ m # m + 1 /\ n - 1 = m /\ n # 0  BY <1>1, <3>1
      <4> QED BY <3>1, <4>1
    <3>2. CASE n # m + 1
      <4>1. n \in 0..m /\ g[n] = f[n]  BY <1>1, <3>2
      <4>2. f[n] = IF n = 0 THEN <<>> ELSE RowNext(blocks, y, f[n - 1], n)
        BY <2>1, <4>1 DEF RowScan
      <4>3. n # 0 => n - 1 \in 0..(m + 1) /\ n - 1 # m + 1  BY <1>1, <4>1
      <4> QED BY <4>1, <4>2, <4>3
    <3> QED BY <3>1, <3>2
  <2>3. RowScan(blocks, y, g, m + 1)
    <3>1. g = [n \in 0..(m + 1) |-> g[n]]  OBVIOUS
    <3> HIDE DEF g
    <3> QED BY <2>2, <3>1 DEF RowScan
  <2>4. m + 1 \in 0..Width  BY <1>1
  <2> QED BY <2>3, <2>4
<1>4. \E f : RowScan(blocks, y, f, Width)
  <2>1. Width \in T
    <3> HIDE DEF T
    <3>1. 0..Width \subseteq T  BY <1>1, <1>2, <1>3, UpTo
    <3> QED BY <1>1, <3>1
  <2> QED BY <2>1
<1>5. Row(blocks, y) = (CHOOSE f : RowScan(blocks, y, f, Width))[Width]
  BY DEF Row, RowScan, RowNext
<1> QED BY <1>4, <1>5, Zenon

\* The blocks of row y that begin in the first n columns.
Begun(blocks, y, n) == {b \in blocks : b.y = y /\ b.x < n}

\* After n columns: the spans cover the blocks that begin there, each once, and the
\* last of them ends before the block of column n does.
RowTo(blocks, y, spans, n) ==
  /\ Tiles(spans, AllPoints(Begun(blocks, y, n)))
  /\ \A i \in 1..Len(spans) :
       /\ spans[i].y = y /\ spans[i].h = BlockSize
       /\ spans[i].x < n /\ spans[i].x + spans[i].w < n + BlockSize

\* One column further.
LEMMA RowToNext ==
  ASSUME NEW blocks \in SUBSET Blocks, NEW y \in Starts(Height), NEW n \in Nat, n < Width,
         NEW spans, RowTo(blocks, y, spans, n)
  PROVE  RowTo(blocks, y, RowNext(blocks, y, spans, n + 1), n + 1)
<1> DEFINE r == Region(n, y, BlockSize, BlockSize)
           C == AllPoints(Begun(blocks, y, n))
           next == RowNext(blocks, y, spans, n + 1)
<1>0. BlockSize \in Nat \ {0} /\ Width \in Nat /\ Height \in Nat  BY RegionsAssumption
<1>1. next = IF r \in blocks THEN Join(spans, r) ELSE spans
  <2>1. (n + 1) - 1 = n  OBVIOUS
  <2> QED BY <2>1 DEF RowNext
<1>2. ASSUME NEW b \in blocks, b.y = y, b.x = n PROVE b = r
  BY <1>2 DEF Blocks, Region
<1>3. \A b \in blocks : b.x \in Nat  BY DEF Blocks, Region, Starts
<1>4. Begun(blocks, y, n + 1) = IF r \in blocks THEN Begun(blocks, y, n) \cup {r}
                                ELSE Begun(blocks, y, n)
  <2>1. r.x = n /\ r.y = y  BY DEF Region
  <2> HIDE DEF r
  <2>2. \A b \in blocks : b.x < n + 1 <=> b.x < n \/ b.x = n  BY <1>3
  <2>3. r.x < n + 1  BY <2>1
  <2> QED BY <1>2, <2>1, <2>2, <2>3 DEF Begun
<1>5. /\ spans \in Seq(Rectangle) /\ Tiles(spans, C)
      /\ \A i \in 1..Len(spans) :
           /\ spans[i].y = y /\ spans[i].h = BlockSize
           /\ spans[i].x < n /\ spans[i].x + spans[i].w < n + BlockSize
  BY DEF RowTo, Tiles
<1>6. \A i \in 1..Len(spans) : spans[i] \in Rectangle  BY <1>5
<1>7. \A i \in 1..Len(spans) : spans[i].x \in Nat /\ spans[i].w \in Nat
  BY <1>6 DEF Rectangle
<1>10. ASSUME NEW i \in 1..Len(spans)
       PROVE  /\ spans[i].y = y /\ spans[i].h = BlockSize
              /\ spans[i].x < n + 1 /\ spans[i].x + spans[i].w < (n + 1) + BlockSize
  <2>1. /\ spans[i].y = y /\ spans[i].h = BlockSize
        /\ spans[i].x < n /\ spans[i].x + spans[i].w < n + BlockSize
        /\ spans[i].x \in Nat /\ spans[i].w \in Nat
    BY <1>5, <1>7
  <2> QED BY <1>0, <2>1
<1>8. CASE r \notin blocks
  <2>1. next = spans /\ Begun(blocks, y, n + 1) = Begun(blocks, y, n)  BY <1>1, <1>4, <1>8
  <2> QED BY <1>5, <1>10, <2>1 DEF RowTo
<1>9. CASE r \in blocks
  <2>1. next = Join(spans, r)  BY <1>1, <1>9
  <2>2. AllPoints(Begun(blocks, y, n + 1)) = C \cup Points(r)
    BY <1>4, <1>9 DEF AllPoints
  <2>3. r.x = n /\ r.y = y /\ r.w = BlockSize /\ r.h = BlockSize  BY DEF Region
  <2>4. y \in Nat  BY DEF Starts
  <2>5. r \in Rectangle  BY <1>0, <2>4 DEF Region, Rectangle
  <2>6. Points(r) \cap C = {}
    <3> SUFFICES ASSUME NEW b \in Begun(blocks, y, n), Points(r) \cap Points(b) # {} PROVE FALSE
      BY DEF AllPoints
    <3>1. r \in Blocks /\ b \in Blocks /\ b.x < n /\ b.x \in Nat  BY <1>3, <1>9 DEF Begun
    <3>2. r = b  BY <3>1, BlocksApart
    <3> QED BY <2>3, <3>1, <3>2
  <2> HIDE DEF r, C
  <2>7. CASE spans # <<>> /\ r.x <= Last(spans).x + Last(spans).w
    <3> DEFINE l == Last(spans)
               e == [l EXCEPT !.w = r.x + r.w - l.x]
               L == Len(spans)
    <3>1. next = Append(Front(spans), e)  BY <2>1, <2>7 DEF Join
    <3>2. L \in Nat \ {0} /\ l = spans[L] /\ L \in 1..L  BY <1>5, <2>7 DEF Last
    <3> HIDE DEF l
    <3>3. /\ l \in Rectangle /\ l.y = y /\ l.h = BlockSize /\ l.x < n
          /\ l.x + l.w < n + BlockSize /\ l.x \in Nat /\ l.w \in Nat
      BY <1>5, <1>6, <1>7, <3>2
    <3>4. n <= l.x + l.w  BY <2>3, <2>7 DEF l
    <3>5. e.x = l.x /\ e.y = l.y /\ e.h = l.h /\ e.w = n + BlockSize - l.x
      BY <2>3, <3>3 DEF Rectangle
    <3>6. e.w \in Nat \ {0} /\ e.x + e.w = n + BlockSize  BY <1>0, <3>3, <3>5
    <3>7. e \in Rectangle
      <4>1. e = [x |-> l.x, y |-> l.y, w |-> e.w, h |-> l.h]  BY <3>3 DEF Rectangle
      <4> HIDE DEF e
      <4> QED BY <3>3, <3>6, <4>1 DEF Rectangle
    <3> HIDE DEF e
    <3>8. Points(e) = Points(Last(spans)) \cup Points(r)
      <4>1. ASSUME NEW p \in Nat \X Nat
            PROVE  p \in Points(e) <=> p \in Points(l) \/ p \in Points(r)
        <5>1. p[1] \in Nat /\ p[2] \in Nat  OBVIOUS
        <5>2. p \in Points(e) <=> /\ l.x <= p[1] /\ p[1] < n + BlockSize
                                  /\ y <= p[2] /\ p[2] < y + BlockSize
          BY <3>3, <3>5, <3>6 DEF Points
        <5>3. p \in Points(l) <=> /\ l.x <= p[1] /\ p[1] < l.x + l.w
                                  /\ y <= p[2] /\ p[2] < y + BlockSize
          BY <3>3 DEF Points
        <5>4. p \in Points(r) <=> /\ n <= p[1] /\ p[1] < n + BlockSize
                                  /\ y <= p[2] /\ p[2] < y + BlockSize
          BY <2>3 DEF Points
        <5>5. l.x <= p[1] /\ p[1] < n + BlockSize <=>
                \/ l.x <= p[1] /\ p[1] < l.x + l.w
                \/ n <= p[1] /\ p[1] < n + BlockSize
          BY <1>0, <3>3, <3>4, <5>1
        <5> QED BY <5>2, <5>3, <5>4, <5>5
      <4>2. Points(e) \subseteq Nat \X Nat /\ Points(l) \subseteq Nat \X Nat
            /\ Points(r) \subseteq Nat \X Nat
        BY DEF Points
      <4> QED BY <4>1, <4>2 DEF l
    <3>9. Tiles(next, C \cup Points(r))
      <4> DEFINE D == Points(r)
      <4> HIDE DEF D
      <4>1. D \cap C = {} /\ Points(e) = Points(Last(spans)) \cup D  BY <2>6, <3>8 DEF D
      <4>2. Tiles(Append(Front(spans), e), C \cup D)
        BY <1>5, <2>7, <3>7, <4>1, TileGrown, Zenon
      <4> QED BY <3>1, <4>2 DEF D
    <3>10. ASSUME NEW i \in 1..Len(next)
           PROVE  /\ next[i].y = y /\ next[i].h = BlockSize
                  /\ next[i].x < n + 1 /\ next[i].x + next[i].w < (n + 1) + BlockSize
      <4>2. /\ Len(next) = L /\ next[L] = e
            /\ \A k \in 1..(L - 1) : next[k] = spans[k]
        <5> DEFINE s == Append(Front(spans), e)
        <5>1. /\ Len(s) = Len(spans) /\ s[Len(spans)] = e
              /\ \A k \in 1..(Len(spans) - 1) : s[k] = spans[k]
          BY <1>5, <2>7, <3>7, LastReplaced, Zenon
        <5>2. next = s  BY <3>1
        <5> HIDE DEF s
        <5> QED BY <5>1, <5>2, Zenon DEF L
      <4>3. CASE i = L
        <5>1. e.x < n + 1 /\ e.x + e.w < (n + 1) + BlockSize  BY <1>0, <3>3, <3>5, <3>6
        <5>2. e.y = y /\ e.h = BlockSize  BY <3>3, <3>5
        <5> QED BY <4>2, <4>3, <5>1, <5>2
      <4>4. CASE i # L
        <5>1. i \in 1..(L - 1) /\ i \in 1..Len(spans)  BY <3>2, <4>2, <4>4
        <5>2. next[i] = spans[i]  BY <4>2, <5>1
        <5> QED BY <1>10, <5>1, <5>2
      <4> QED BY <4>3, <4>4
    <3> QED BY <2>2, <3>9, <3>10 DEF RowTo
  <2>8. CASE ~(spans # <<>> /\ r.x <= Last(spans).x + Last(spans).w)
    <3>1. next = Append(spans, r)  BY <2>1, <2>8 DEF Join
    <3>2. Tiles(next, C \cup Points(r))  BY <1>5, <2>5, <2>6, <3>1, TileAdded, ZenonT(30)
    <3> DEFINE L == Len(spans)
    <3>3. L \in Nat /\ Len(next) = L + 1 /\ next[L + 1] = r
          /\ \A k \in 1..L : next[k] = spans[k]
      BY <1>5, <2>5, <3>1
    <3>4. ASSUME NEW i \in 1..Len(next)
          PROVE  /\ next[i].y = y /\ next[i].h = BlockSize
                 /\ next[i].x < n + 1 /\ next[i].x + next[i].w < (n + 1) + BlockSize
      <4>1. CASE i = L + 1  BY <1>0, <2>3, <3>3, <4>1
      <4>2. CASE i # L + 1
        <5>1. i \in 1..Len(spans)  BY <3>3, <4>2
        <5>2. next[i] = spans[i]  BY <3>3, <5>1
        <5> QED BY <1>10, <5>1, <5>2
      <4> QED BY <4>1, <4>2
    <3> QED BY <2>2, <3>2, <3>4 DEF RowTo
  <2> QED BY <2>7, <2>8
<1> QED BY <1>8, <1>9

\* The spans of a row cover its blocks, each once.
LEMMA RowTiles ==
  ASSUME NEW blocks \in SUBSET Blocks, NEW y \in Starts(Height)
  PROVE  /\ Tiles(Row(blocks, y), AllPoints({b \in blocks : b.y = y}))
         /\ \A i \in 1..Len(Row(blocks, y)) :
              LET r == Row(blocks, y)[i] IN r.y = y /\ r.h = BlockSize /\ r.x < Width
<1>1. Width \in Nat  BY RegionsAssumption
<1>2. PICK f : RowScan(blocks, y, f, Width) /\ Row(blocks, y) = f[Width]
  BY RowScanned
<1>3. /\ f[0] = <<>>
      /\ \A n \in 0..(Width - 1) : f[n + 1] = RowNext(blocks, y, f[n], n + 1)
  <2>1. \A n \in 0..Width : f[n] = IF n = 0 THEN <<>> ELSE RowNext(blocks, y, f[n - 1], n)
    BY <1>2 DEF RowScan
  <2>2. 0 \in 0..Width
        /\ \A n \in 0..(Width - 1) : n + 1 \in 0..Width /\ n + 1 # 0 /\ (n + 1) - 1 = n
    BY <1>1
  <2> QED BY <2>1, <2>2
<1> DEFINE T == {n \in 0..Width : RowTo(blocks, y, f[n], n)}
<1>4. 0 \in T
  <2>1. \A b \in blocks : ~(b.x < 0)  BY DEF Blocks, Region, Starts
  <2>2. Begun(blocks, y, 0) = {}  BY <2>1 DEF Begun
  <2>3. AllPoints({}) = {}  BY DEF AllPoints
  <2>4. RowTo(blocks, y, <<>>, 0)  BY <2>2, <2>3, NoTiles DEF RowTo
  <2> QED BY <1>1, <1>3, <2>4
<1>5. ASSUME NEW n \in 0..(Width - 1), n \in T PROVE n + 1 \in T
  <2>1. n \in Nat /\ n < Width /\ n + 1 \in 0..Width  BY <1>1
  <2>2. RowTo(blocks, y, RowNext(blocks, y, f[n], n + 1), n + 1)
    BY <1>5, <2>1, RowToNext
  <2> QED BY <1>3, <2>1, <2>2
<1>6. Width \in T
  <2> HIDE DEF T
  <2>1. 0..Width \subseteq T  BY <1>1, <1>4, <1>5, UpTo
  <2> QED BY <1>1, <2>1
<1>7. RowTo(blocks, y, Row(blocks, y), Width)  BY <1>2, <1>6
<1>8. Begun(blocks, y, Width) = {b \in blocks : b.y = y}
  <2>1. \A b \in blocks : b.x < Width  BY <1>1 DEF Blocks, Region, Starts
  <2> QED BY <2>1 DEF Begun
<1> QED BY <1>7, <1>8 DEF RowTo

\* What the rows are merged to.
Rows(blocks) == UNION {ToSet(Row(blocks, y)) : y \in Starts(Height)}

\* Those of all rows cover all blocks, each once.
LEMMA RowsTile ==
  ASSUME NEW blocks \in SUBSET Blocks
  PROVE  /\ Rows(blocks) \subseteq Rectangle
         /\ AllPoints(Rows(blocks)) = AllPoints(blocks)
         /\ \A r \in Rows(blocks) : r.x < Width /\ r.y < Height
         /\ \A r, q \in Rows(blocks) : Points(r) \cap Points(q) # {} => r = q
<1> DEFINE Of(y) == {b \in blocks : b.y = y}
<1>1. ASSUME NEW r \in Rows(blocks)
      PROVE  \E y \in Starts(Height) : \E i \in 1..Len(Row(blocks, y)) : r = Row(blocks, y)[i]
  <2>1. PICK y \in Starts(Height) : r \in ToSet(Row(blocks, y))  BY DEF Rows
  <2>2. Row(blocks, y) \in Seq(Rectangle)  BY RowTiles DEF Tiles
  <2> QED BY <2>1, <2>2 DEF ToSet
<1>2. ASSUME NEW y \in Starts(Height), NEW i \in 1..Len(Row(blocks, y))
      PROVE  Row(blocks, y)[i] \in Rows(blocks)
  <2>1. Row(blocks, y) \in Seq(Rectangle)  BY RowTiles DEF Tiles
  <2>2. Row(blocks, y)[i] \in ToSet(Row(blocks, y))  BY <2>1 DEF ToSet
  <2> QED BY <2>2 DEF Rows
<1>3. ASSUME NEW y \in Starts(Height), NEW i \in 1..Len(Row(blocks, y))
      PROVE  /\ Row(blocks, y)[i] \in Rectangle
             /\ Row(blocks, y)[i].x < Width /\ Row(blocks, y)[i].y = y
             /\ Points(Row(blocks, y)[i]) \subseteq AllPoints(Of(y))
  <2>1. Row(blocks, y) \in Seq(Rectangle)
        /\ AllPoints({Row(blocks, y)[k] : k \in 1..Len(Row(blocks, y))}) = AllPoints(Of(y))
    BY RowTiles DEF Tiles
  <2>2. Points(Row(blocks, y)[i]) \subseteq AllPoints(Of(y))  BY <2>1 DEF AllPoints
  <2>3. Row(blocks, y)[i] \in Rectangle  BY <2>1
  <2>4. Row(blocks, y)[i].y = y /\ Row(blocks, y)[i].x < Width  BY RowTiles
  <2> QED BY <2>2, <2>3, <2>4
<1>4. ASSUME NEW r \in Rows(blocks)
      PROVE  r \in Rectangle /\ r.x < Width /\ r.y < Height
  <2>0. PICK y \in Starts(Height) : \E i \in 1..Len(Row(blocks, y)) : r = Row(blocks, y)[i]
    BY <1>1
  <2>1. PICK i \in 1..Len(Row(blocks, y)) : r = Row(blocks, y)[i]
    BY <2>0
  <2>2. y < Height  BY RegionsAssumption DEF Starts
  <2> QED BY <1>3, <2>1, <2>2
<1>5. AllPoints(Rows(blocks)) = AllPoints(blocks)
  <2>1. ASSUME NEW r \in Rows(blocks) PROVE Points(r) \subseteq AllPoints(blocks)
    <3>0. PICK y \in Starts(Height) : \E i \in 1..Len(Row(blocks, y)) : r = Row(blocks, y)[i]
      BY <1>1
    <3>1. PICK i \in 1..Len(Row(blocks, y)) : r = Row(blocks, y)[i]
      BY <3>0
    <3>2. AllPoints(Of(y)) \subseteq AllPoints(blocks)  BY DEF AllPoints
    <3> QED BY <1>3, <3>1, <3>2
  <2>2. ASSUME NEW b \in blocks PROVE Points(b) \subseteq AllPoints(Rows(blocks))
    <3> DEFINE y == b.y
    <3>1. y \in Starts(Height) /\ b \in Of(y)  BY DEF Blocks, Region
    <3> HIDE DEF y
    <3>2. Points(b) \subseteq AllPoints(Of(y))  BY <3>1 DEF AllPoints
    <3>3. AllPoints(Of(y)) = AllPoints({Row(blocks, y)[k] : k \in 1..Len(Row(blocks, y))})
      BY <3>1, RowTiles DEF Tiles
    <3>4. {Row(blocks, y)[k] : k \in 1..Len(Row(blocks, y))} \subseteq Rows(blocks)
      BY <1>2, <3>1
    <3>5. AllPoints({Row(blocks, y)[k] : k \in 1..Len(Row(blocks, y))})
            \subseteq AllPoints(Rows(blocks))
      BY <3>4 DEF AllPoints
    <3> QED BY <3>2, <3>3, <3>5
  <2> QED BY <2>1, <2>2 DEF AllPoints
<1>6. ASSUME NEW r \in Rows(blocks), NEW q \in Rows(blocks), Points(r) \cap Points(q) # {}
      PROVE  r = q
  <2>0. PICK y \in Starts(Height) : \E i \in 1..Len(Row(blocks, y)) : r = Row(blocks, y)[i]
    BY <1>1
  <2>1. PICK i \in 1..Len(Row(blocks, y)) : r = Row(blocks, y)[i]
    BY <2>0
  <2>11. PICK z \in Starts(Height) : \E j \in 1..Len(Row(blocks, z)) : q = Row(blocks, z)[j]
    BY <1>1
  <2>2. PICK j \in 1..Len(Row(blocks, z)) : q = Row(blocks, z)[j]
    BY <2>11
  <2>3. PICK p : p \in Points(r) /\ p \in Points(q)  BY <1>6
  <2>4. PICK a \in Of(y) : p \in Points(a)  BY <1>3, <2>1, <2>3 DEF AllPoints
  <2>5. PICK b \in Of(z) : p \in Points(b)
    <3>1. p \in AllPoints(Of(z))  BY <1>3, <2>2, <2>3
    <3> QED BY <3>1 DEF AllPoints
  <2>6. a = b  BY <2>4, <2>5, BlocksApart
  <2>7. y = z  BY <2>6
  <2>8. \A k \in 1..Len(Row(blocks, y)) : \A l \in 1..(k - 1) :
          Points(Row(blocks, y)[k]) \cap Points(Row(blocks, y)[l]) = {}
    BY RowTiles DEF Tiles
  <2>9. Row(blocks, y) \in Seq(Rectangle)  BY RowTiles DEF Tiles
  <2>10. i = j
    <3>1. i \in Int /\ j \in Int /\ i \in 1..Len(Row(blocks, y)) /\ j \in 1..Len(Row(blocks, y))
      BY <2>7, <2>9
    <3>2. CASE i < j
      <4>1. i \in 1..(j - 1)  BY <3>1, <3>2
      <4> QED BY <1>6, <2>1, <2>2, <2>7, <2>8, <3>1, <4>1
    <3>3. CASE j < i
      <4>1. j \in 1..(i - 1)  BY <3>1, <3>3
      <4> QED BY <1>6, <2>1, <2>2, <2>7, <2>8, <3>1, <4>1
    <3> QED BY <3>1, <3>2, <3>3
  <2> QED BY <2>1, <2>2, <2>7, <2>10
<1> QED BY <1>4, <1>5, <1>6

\* The scan of the rows, in the order of (x, y).
ScanNext(rows, stacked, n) ==
  LET next == {r \in rows : Order(r) = n - 1} IN
  IF next = {} THEN stacked ELSE Stack(stacked, CHOOSE r \in next : TRUE)
Scan(rows, f, m) ==
  f = [n \in 0..m |-> IF n = 0 THEN <<>> ELSE ScanNext(rows, f[n - 1], n)]

\* Merged is what the scan of all of them leaves.
LEMMA Scanned ==
  ASSUME NEW blocks
  PROVE  \E f : Scan(Rows(blocks), f, Width * Height) /\ Merged(blocks) = f[Width * Height]
<1> DEFINE rows == Rows(blocks)
           L == Width * Height
           T == {m \in 0..L : \E f : Scan(rows, f, m)}
<1>1. L \in Nat
  <2> Width \in Nat /\ Height \in Nat  BY RegionsAssumption
  <2> QED OBVIOUS
<1>5. Merged(blocks) = (CHOOSE f : Scan(rows, f, L))[L]
  BY DEF Merged, Rows, Scan, ScanNext
<1> HIDE DEF rows, L
<1>2. 0 \in T
  <2> DEFINE f == [n \in 0..0 |-> <<>>]
  <2>1. \A n \in 0..0 : f[n] = IF n = 0 THEN <<>> ELSE ScanNext(rows, f[n - 1], n)  OBVIOUS
  <2>2. f = [n \in 0..0 |-> f[n]]  OBVIOUS
  <2> HIDE DEF f
  <2>3. Scan(rows, f, 0)  BY <2>1, <2>2 DEF Scan
  <2> QED BY <1>1, <2>3
<1>3. ASSUME NEW m \in 0..(L - 1), m \in T PROVE m + 1 \in T
  <2>1. PICK f : Scan(rows, f, m)  BY <1>3
  <2> DEFINE g == [n \in 0..(m + 1) |-> IF n = m + 1 THEN ScanNext(rows, f[m], n) ELSE f[n]]
  <2>2. ASSUME NEW n \in 0..(m + 1)
        PROVE  g[n] = IF n = 0 THEN <<>> ELSE ScanNext(rows, g[n - 1], n)
    <3>1. CASE n = m + 1
      <4>1. m \in 0..(m + 1) /\ m # m + 1 /\ n - 1 = m /\ n # 0  BY <1>1, <3>1
      <4> QED BY <3>1, <4>1
    <3>2. CASE n # m + 1
      <4>1. n \in 0..m /\ g[n] = f[n]  BY <1>1, <3>2
      <4>2. f[n] = IF n = 0 THEN <<>> ELSE ScanNext(rows, f[n - 1], n)
        BY <2>1, <4>1 DEF Scan
      <4>3. n # 0 => n - 1 \in 0..(m + 1) /\ n - 1 # m + 1  BY <1>1, <4>1
      <4> QED BY <4>1, <4>2, <4>3
    <3> QED BY <3>1, <3>2
  <2>3. Scan(rows, g, m + 1)
    <3>1. g = [n \in 0..(m + 1) |-> g[n]]  OBVIOUS
    <3> HIDE DEF g
    <3> QED BY <2>2, <3>1 DEF Scan
  <2>4. m + 1 \in 0..L  BY <1>1
  <2> QED BY <2>3, <2>4
<1>4. \E f : Scan(rows, f, L)
  <2>1. L \in T
    <3> HIDE DEF T
    <3>1. 0..L \subseteq T  BY <1>1, <1>2, <1>3, UpTo
    <3> QED BY <1>1, <3>1
  <2> QED BY <2>1
<1> QED BY <1>4, <1>5, Zenon DEF rows, L

\* After the first n places in the order of (x, y).
Stacked(rows, t, n) ==
  /\ Tiles(t, AllPoints({r \in rows : Order(r) < n}))
  /\ \A i \in 1..Len(t) : t[i].x < Width /\ t[i].y < Height

\* Whether rows are those of some blocks.
AreRows(rows) ==
  /\ rows \subseteq Rectangle
  /\ \A r \in rows : r.x < Width /\ r.y < Height
  /\ \A r, q \in rows : Points(r) \cap Points(q) # {} => r = q

\* No two of them have the same place in the order.
LEMMA OrderStrict ==
  ASSUME NEW rows, AreRows(rows), NEW r \in rows, NEW q \in rows, Order(r) = Order(q)
  PROVE  r = q
<1>1. /\ r.x \in Nat /\ q.x \in Nat /\ r.y \in Nat /\ q.y \in Nat
      /\ r.w \in Nat \ {0} /\ q.w \in Nat \ {0} /\ r.h \in Nat \ {0} /\ q.h \in Nat \ {0}
      /\ r.y < Height /\ q.y < Height
  BY DEF AreRows, Rectangle
<1>2. Height \in Nat \ {0}  BY <1>1, RegionsAssumption
<1>3. r.x = q.x /\ r.y = q.y
  <2>1. \A i, j, k, l \in Nat :
          k < Height /\ l < Height /\ i * Height + k = j * Height + l => i = j
    <3> SUFFICES ASSUME NEW i \in Nat, NEW j \in Nat, NEW k \in Nat, NEW l \in Nat,
                        k < Height, l < Height, i * Height + k = j * Height + l
                 PROVE  i = j
      OBVIOUS
    <3>1. /\ i * Height = Height * i /\ j * Height = Height * j
          /\ Height * i \in Int /\ Height * j \in Int
      BY <1>2
    <3>2. Height * i < Height * (j + 1) /\ Height * j < Height * (i + 1)
      <4>1. Height * (j + 1) = Height * j + Height /\ Height * (i + 1) = Height * i + Height
        BY <1>2
      <4> QED BY <1>2, <3>1, <4>1
    <3>3. i < j + 1 /\ j < i + 1  BY <1>2, <3>2
    <3> QED BY <3>3
  <2>2. r.x * Height + r.y = q.x * Height + q.y  BY DEF Order
  <2>3. r.x = q.x  BY <1>1, <2>1, <2>2
  <2>4. r.x * Height \in Int  BY <1>1, <1>2
  <2> QED BY <1>1, <2>2, <2>3, <2>4
<1>4. <<r.x, r.y>> \in Points(r) /\ <<r.x, r.y>> \in Points(q)
  <2>1. \A i, j \in Nat : \A w \in Nat \ {0} : i = j => i <= j /\ j < i + w  OBVIOUS
  <2> QED BY <1>1, <1>3 DEF Points
<1> QED BY <1>4 DEF AreRows

\* One place further.
LEMMA StackedNext ==
  ASSUME NEW rows, AreRows(rows), NEW n \in Nat, NEW t, Stacked(rows, t, n)
  PROVE  Stacked(rows, ScanNext(rows, t, n + 1), n + 1)
<1> DEFINE next == {r \in rows : Order(r) = n}
           C == AllPoints({r \in rows : Order(r) < n})
           s == ScanNext(rows, t, n + 1)
<1>1. s = IF next = {} THEN t ELSE Stack(t, CHOOSE r \in next : TRUE)
  <2>1. (n + 1) - 1 = n  OBVIOUS
  <2> QED BY <2>1 DEF ScanNext
<1>2. \A r \in rows : /\ r.x \in Nat /\ r.y \in Nat /\ r.w \in Nat \ {0} /\ r.h \in Nat \ {0}
                      /\ r.x < Width /\ r.y < Height /\ r \in Rectangle
  BY DEF AreRows, Rectangle
<1>3. ASSUME NEW r \in rows PROVE Order(r) < n + 1 <=> Order(r) < n \/ Order(r) = n
  <2>1. Height \in Nat  BY RegionsAssumption
  <2>2. r.x * Height \in Nat /\ r.y \in Nat
    <3>1. r.x \in Nat /\ r.y \in Nat  BY <1>2
    <3> QED BY <2>1, <3>1
  <2>3. Order(r) \in Nat  BY <2>2 DEF Order
  <2> QED BY <2>3
<1>4. /\ t \in Seq(Rectangle) /\ Tiles(t, C)
      /\ \A i \in 1..Len(t) : t[i] \in Rectangle /\ t[i].x < Width /\ t[i].y < Height
  <2>1. t \in Seq(Rectangle)  BY DEF Stacked, Tiles
  <2> QED BY <2>1 DEF Stacked
<1> HIDE DEF s
<1>5. CASE next = {}
  <2>1. {r \in rows : Order(r) < n + 1} = {r \in rows : Order(r) < n}  BY <1>3, <1>5
  <2> QED BY <1>1, <1>5, <2>1 DEF Stacked, s
<1>6. CASE next # {}
  <2> DEFINE r == CHOOSE x \in next : TRUE
  <2>1. s = Stack(t, r) /\ r \in rows /\ Order(r) = n  BY <1>1, <1>6
  <2> HIDE DEF r
  <2>2. /\ r.x \in Nat /\ r.y \in Nat /\ r.w \in Nat \ {0} /\ r.h \in Nat \ {0}
        /\ r.x < Width /\ r.y < Height /\ r \in Rectangle
    BY <1>2, <2>1
  <2>3. {x \in rows : Order(x) < n + 1} = {x \in rows : Order(x) < n} \cup {r}
    <3>1. \A x \in rows : Order(x) = n => x = r  BY <2>1, OrderStrict
    <3> QED BY <1>3, <2>1, <3>1
  <2>4. AllPoints({x \in rows : Order(x) < n + 1}) = C \cup Points(r)
    BY <2>3 DEF AllPoints
  <2>5. Points(r) \cap C = {}
    <3> SUFFICES ASSUME NEW q \in rows, Order(q) < n, Points(r) \cap Points(q) # {} PROVE FALSE
      BY DEF AllPoints
    <3>1. r = q  BY <2>1 DEF AreRows
    <3> QED BY <2>1, <3>1
  <2> HIDE DEF C, next
  <2>6. CASE /\ t # <<>>
             /\ r.x = Last(t).x /\ r.w = Last(t).w
             /\ r.y = Last(t).y + Last(t).h
    <3> DEFINE l == Last(t)
               e == [l EXCEPT !.h = @ + r.h]
               L == Len(t)
    <3>1. s = Append(Front(t), e)  BY <2>1, <2>6 DEF Stack
    <3>2. L \in Nat \ {0} /\ l = t[L] /\ L \in 1..L  BY <1>4, <2>6 DEF Last
    <3> HIDE DEF l
    <3>3. /\ l \in Rectangle /\ l.x < Width /\ l.y < Height
          /\ l.x \in Nat /\ l.y \in Nat /\ l.w \in Nat \ {0} /\ l.h \in Nat \ {0}
      <4>1. l \in Rectangle /\ l.x < Width /\ l.y < Height  BY <1>4, <3>2
      <4> QED BY <4>1 DEF Rectangle
    <3>4. r.x = l.x /\ r.w = l.w /\ r.y = l.y + l.h  BY <2>6 DEF l
    <3>5. e.x = l.x /\ e.y = l.y /\ e.w = l.w /\ e.h = l.h + r.h /\ e.h \in Nat \ {0}
      BY <2>2, <3>3 DEF Rectangle
    <3>6. e \in Rectangle
      <4>1. e = [x |-> l.x, y |-> l.y, w |-> l.w, h |-> e.h]  BY <3>3 DEF Rectangle
      <4> HIDE DEF e
      <4> QED BY <3>3, <3>5, <4>1 DEF Rectangle
    <3> HIDE DEF e
    <3>7. Points(e) = Points(l) \cup Points(r)
      <4>1. ASSUME NEW p \in Nat \X Nat
            PROVE  p \in Points(e) <=> p \in Points(l) \/ p \in Points(r)
        <5>1. p[1] \in Nat /\ p[2] \in Nat  OBVIOUS
        <5>2. p \in Points(e) <=> /\ l.x <= p[1] /\ p[1] < l.x + l.w
                                  /\ l.y <= p[2] /\ p[2] < l.y + (l.h + r.h)
          BY <3>5 DEF Points
        <5>3. p \in Points(l) <=> /\ l.x <= p[1] /\ p[1] < l.x + l.w
                                  /\ l.y <= p[2] /\ p[2] < l.y + l.h
          BY DEF Points
        <5>4. p \in Points(r) <=> /\ l.x <= p[1] /\ p[1] < l.x + l.w
                                  /\ l.y + l.h <= p[2] /\ p[2] < (l.y + l.h) + r.h
          BY <3>4 DEF Points
        <5>5. l.y <= p[2] /\ p[2] < l.y + (l.h + r.h) <=>
                \/ l.y <= p[2] /\ p[2] < l.y + l.h
                \/ l.y + l.h <= p[2] /\ p[2] < (l.y + l.h) + r.h
          BY <2>2, <3>3, <5>1
        <5> QED BY <5>2, <5>3, <5>4, <5>5
      <4>2. Points(e) \subseteq Nat \X Nat /\ Points(l) \subseteq Nat \X Nat
            /\ Points(r) \subseteq Nat \X Nat
        BY DEF Points
      <4> QED BY <4>1, <4>2
    <3>8. Tiles(s, C \cup Points(r))
      <4> DEFINE D == Points(r)
      <4> HIDE DEF D
      <4>1. D \cap C = {} /\ Points(e) = Points(Last(t)) \cup D  BY <2>5, <3>7 DEF D, l
      <4>2. t # <<>>  BY <2>6
      <4>3. Tiles(Append(Front(t), e), C \cup D)
        BY <1>4, <3>6, <4>1, <4>2, TileGrown, Zenon
      <4> QED BY <3>1, <4>3 DEF D
    <3>9. /\ Len(s) = L /\ s[L] = e
          /\ \A k \in 1..(L - 1) : s[k] = t[k]
      <4> DEFINE u == Append(Front(t), e)
      <4>1. t # <<>>  BY <2>6
      <4>2. /\ Len(u) = Len(t) /\ u[Len(t)] = e
            /\ \A k \in 1..(Len(t) - 1) : u[k] = t[k]
        BY <1>4, <3>6, <4>1, LastReplaced, Zenon
      <4>3. s = u  BY <3>1
      <4> HIDE DEF u
      <4> QED BY <4>2, <4>3, Zenon DEF L
    <3>10. ASSUME NEW i \in 1..Len(s) PROVE s[i].x < Width /\ s[i].y < Height
      <4>1. CASE i = L  BY <3>3, <3>5, <3>9, <4>1
      <4>2. CASE i # L
        <5>1. i \in 1..(L - 1) /\ i \in 1..Len(t)  BY <3>2, <3>9, <4>2
        <5> QED BY <1>4, <3>9, <5>1
      <4> QED BY <4>1, <4>2
    <3> QED BY <2>4, <3>8, <3>10 DEF Stacked, s
  <2>7. CASE ~(/\ t # <<>>
               /\ r.x = Last(t).x /\ r.w = Last(t).w
               /\ r.y = Last(t).y + Last(t).h)
    <3>1. s = Append(t, r)  BY <2>1, <2>7 DEF Stack
    <3>2. Tiles(s, C \cup Points(r))  BY <1>4, <2>2, <2>5, <3>1, TileAdded
    <3> DEFINE L == Len(t)
    <3>3. L \in Nat /\ Len(s) = L + 1 /\ s[L + 1] = r /\ \A k \in 1..L : s[k] = t[k]
      BY <1>4, <2>2, <3>1
    <3>4. ASSUME NEW i \in 1..Len(s) PROVE s[i].x < Width /\ s[i].y < Height
      <4>1. CASE i = L + 1  BY <2>2, <3>3, <4>1
      <4>2. CASE i # L + 1
        <5>1. i \in 1..Len(t)  BY <3>3, <4>2
        <5> QED BY <1>4, <3>3, <5>1
      <4> QED BY <4>1, <4>2
    <3> QED BY <2>4, <3>2, <3>4 DEF Stacked, s
  <2> QED BY <2>6, <2>7
<1> QED BY <1>5, <1>6

\* What is sent, before it is cut, covers the blocks, each point once.
LEMMA MergedTile ==
  ASSUME NEW blocks \in SUBSET Blocks
  PROVE  /\ Tiles(Merged(blocks), AllPoints(blocks))
         /\ \A i \in 1..Len(Merged(blocks)) :
              Merged(blocks)[i].x < Width /\ Merged(blocks)[i].y < Height
<1> DEFINE rows == Rows(blocks)
           L == Width * Height
<1>1. Width \in Nat /\ Height \in Nat  BY RegionsAssumption
<1>2. L \in Nat  BY <1>1
<1>3. AreRows(rows) /\ AllPoints(rows) = AllPoints(blocks)  BY RowsTile DEF AreRows
<1>4. \A r \in rows : Order(r) \in Nat /\ Order(r) < L
  <2> SUFFICES ASSUME NEW r \in rows PROVE Order(r) \in Nat /\ Order(r) < L
    OBVIOUS
  <2>1. r.x \in Nat /\ r.y \in Nat /\ r.x < Width /\ r.y < Height
    BY <1>3 DEF AreRows, Rectangle
  <2>2. r.x * Height \in Nat  BY <1>1, <2>1
  <2>3. Height * (r.x + 1) <= Height * Width
    <3>1. r.x + 1 <= Width /\ r.x + 1 \in Nat  BY <1>1, <2>1
    <3> DEFINE i == r.x + 1
    <3> HIDE DEF i
    <3>2. \A j, k, m \in Nat : j <= k => m * j <= m * k  OBVIOUS
    <3> QED BY <1>1, <3>1, <3>2 DEF i
  <2>4. Height * (r.x + 1) = r.x * Height + Height /\ Height * Width = L  BY <1>1, <2>1
  <2> QED BY <1>1, <1>2, <2>1, <2>2, <2>3, <2>4 DEF Order
<1>5. PICK f : Scan(rows, f, L) /\ Merged(blocks) = f[L]  BY Scanned
<1> HIDE DEF rows, L
<1>6. f[0] = <<>> /\ \A n \in 0..(L - 1) : f[n + 1] = ScanNext(rows, f[n], n + 1)
  <2>1. \A n \in 0..L : f[n] = IF n = 0 THEN <<>> ELSE ScanNext(rows, f[n - 1], n)
    BY <1>5 DEF Scan
  <2>2. 0 \in 0..L /\ \A n \in 0..(L - 1) : n + 1 \in 0..L /\ n + 1 # 0 /\ (n + 1) - 1 = n
    BY <1>2
  <2> QED BY <2>1, <2>2
<1> DEFINE T == {n \in 0..L : Stacked(rows, f[n], n)}
<1>7. 0 \in T
  <2>1. {r \in rows : Order(r) < 0} = {}  BY <1>4
  <2>2. AllPoints({}) = {}  BY DEF AllPoints
  <2>3. AllPoints({r \in rows : Order(r) < 0}) = {}  BY <2>1, <2>2, Zenon
  <2>4. Tiles(<<>>, AllPoints({r \in rows : Order(r) < 0}))  BY <2>3, NoTiles
  <2>5. Stacked(rows, <<>>, 0)  BY <2>4 DEF Stacked
  <2> QED BY <1>2, <1>6, <2>5
<1>8. ASSUME NEW n \in 0..(L - 1), n \in T PROVE n + 1 \in T
  <2>1. n \in Nat /\ n + 1 \in 0..L  BY <1>2
  <2>2. Stacked(rows, ScanNext(rows, f[n], n + 1), n + 1)  BY <1>3, <1>8, <2>1, StackedNext
  <2> QED BY <1>6, <2>1, <2>2
<1>9. L \in T
  <2> HIDE DEF T
  <2>1. 0..L \subseteq T  BY <1>2, <1>7, <1>8, UpTo
  <2> QED BY <1>2, <2>1
<1>10. {r \in rows : Order(r) < L} = rows  BY <1>4
<1> QED BY <1>3, <1>5, <1>9, <1>10 DEF Stacked

\* Cutting off what sticks out loses no pixel.
LEMMA PixelsOfCut ==
  ASSUME NEW r \in Rectangle, r.x < Width, r.y < Height
  PROVE  /\ Pixels(Cut(r)) = Points(r) \cap ((0..(Width - 1)) \X (0..(Height - 1)))
         /\ Pixels(Cut(r)) # {}
<1>1. /\ r.x \in Nat /\ r.y \in Nat /\ r.w \in Nat \ {0} /\ r.h \in Nat \ {0}
      /\ Width \in Nat /\ Height \in Nat
  BY RegionsAssumption DEF Rectangle
<1> DEFINE c == Cut(r)
<1>2. /\ c.x = r.x /\ c.y = r.y
      /\ c.w = Least(r.x + r.w, Width) - r.x /\ c.h = Least(r.y + r.h, Height) - r.y
  BY DEF Cut, Rectangle
<1> HIDE DEF c
<1>3. ASSUME NEW p \in (0..(Width - 1)) \X (0..(Height - 1))
      PROVE  p \in Pixels(c) <=> p \in Points(r)
  <2>1. p[1] \in 0..(Width - 1) /\ p[2] \in 0..(Height - 1)  OBVIOUS
  <2>2. p[1] \in c.x..(c.x + c.w - 1) <=> r.x <= p[1] /\ p[1] < r.x + r.w
    BY <1>1, <1>2, <2>1 DEF Least
  <2>3. p[2] \in c.y..(c.y + c.h - 1) <=> r.y <= p[2] /\ p[2] < r.y + r.h
    BY <1>1, <1>2, <2>1 DEF Least
  <2>4. p \in Nat \X Nat  BY <1>1
  <2> QED BY <2>2, <2>3, <2>4 DEF Pixels, Points
<1>4. <<r.x, r.y>> \in Pixels(c)
  <2>1. <<r.x, r.y>> \in (0..(Width - 1)) \X (0..(Height - 1))  BY <1>1
  <2>2. <<r.x, r.y>> \in Points(r)  BY <1>1 DEF Points
  <2> QED BY <1>3, <2>1, <2>2
<1>5. Pixels(c) \subseteq (0..(Width - 1)) \X (0..(Height - 1))  BY DEF Pixels
<1> QED BY <1>3, <1>4, <1>5 DEF c

\* Nor does a block that sticks out have other pixels.
LEMMA PixelsOfBlock ==
  ASSUME NEW b \in Blocks
  PROVE  Pixels(b) = Points(b) \cap ((0..(Width - 1)) \X (0..(Height - 1)))
<1>1. /\ b.x \in Nat /\ b.y \in Nat /\ b.w \in Nat /\ b.h \in Nat
      /\ Width \in Nat /\ Height \in Nat
  BY RegionsAssumption DEF Blocks, Region, Starts
<1>2. ASSUME NEW p \in (0..(Width - 1)) \X (0..(Height - 1))
      PROVE  p \in Pixels(b) <=> p \in Points(b)
  <2>1. p[1] \in 0..(Width - 1) /\ p[2] \in 0..(Height - 1)  OBVIOUS
  <2>2. p[1] \in b.x..(b.x + b.w - 1) <=> b.x <= p[1] /\ p[1] < b.x + b.w
    BY <1>1, <2>1
  <2>3. p[2] \in b.y..(b.y + b.h - 1) <=> b.y <= p[2] /\ p[2] < b.y + b.h
    BY <1>1, <2>1
  <2>4. p \in Nat \X Nat  BY <1>1
  <2> QED BY <2>2, <2>3, <2>4 DEF Pixels, Points
<1>3. Pixels(b) \subseteq (0..(Width - 1)) \X (0..(Height - 1))  BY DEF Pixels
<1> QED BY <1>2, <1>3

\* All of it, for every size of the screen and of the blocks.
LEMMA RegionsExact == AllExact
<1> SUFFICES ASSUME NEW blocks \in SUBSET Blocks
             PROVE  Exact(blocks, DirtyRegions(blocks))
  BY DEF AllExact
<1> DEFINE m == Merged(blocks)
           sent == DirtyRegions(blocks)
           plane == (0..(Width - 1)) \X (0..(Height - 1))
<1>1. /\ m \in Seq(Rectangle) /\ AllPoints({m[i] : i \in 1..Len(m)}) = AllPoints(blocks)
      /\ \A i \in 1..Len(m) : \A j \in 1..(i - 1) : Points(m[i]) \cap Points(m[j]) = {}
      /\ \A i \in 1..Len(m) : m[i].x < Width /\ m[i].y < Height
  BY MergedTile DEF Tiles
<1>2. sent = [i \in 1..Len(m) |-> Cut(m[i])]  BY DEF DirtyRegions
<1> HIDE DEF m, sent
<1>3. Len(m) \in Nat /\ Len(sent) = Len(m)  BY <1>1, <1>2
<1>4. ASSUME NEW i \in 1..Len(m)
      PROVE  Pixels(sent[i]) = Points(m[i]) \cap plane /\ Pixels(sent[i]) # {}
  <2>1. m[i] \in Rectangle /\ m[i].x < Width /\ m[i].y < Height  BY <1>1
  <2>2. sent[i] = Cut(m[i])  BY <1>2
  <2> QED BY <2>1, <2>2, PixelsOfCut
<1>5. \A b \in blocks : Pixels(b) = Points(b) \cap plane  BY PixelsOfBlock
<1> HIDE DEF plane
<1>6. UNION {Pixels(sent[i]) : i \in 1..Len(sent)} = UNION {Pixels(b) : b \in blocks}
  <2>1. UNION {Pixels(sent[i]) : i \in 1..Len(sent)}
          = AllPoints({m[i] : i \in 1..Len(m)}) \cap plane
    BY <1>3, <1>4 DEF AllPoints
  <2>2. UNION {Pixels(b) : b \in blocks} = AllPoints(blocks) \cap plane
    BY <1>5 DEF AllPoints
  <2> QED BY <1>1, <2>1, <2>2
<1>7. ASSUME NEW i \in 1..Len(sent), NEW j \in 1..(i - 1)
      PROVE  Pixels(sent[i]) \cap Pixels(sent[j]) = {}
  <2>1. i \in 1..Len(m) /\ j \in 1..Len(m)  BY <1>3
  <2> QED BY <1>1, <1>4, <2>1
<1> QED BY <1>3, <1>4, <1>6, <1>7 DEF Exact, sent

(* Whatever changed on a screen of whatever size: the regions the JPEG loop sends
   cover the changed blocks, and nothing twice (capture_dirty_regions,
   _merge_regions). *)
THEOREM RegionsCoverHolds == Spec => []RegionsCover
<1>1. RegionsCover  BY RegionsExact DEF RegionsCover
<1> QED BY <1>1, PTL
=============================================================================
