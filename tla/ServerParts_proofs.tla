------------------------- MODULE ServerParts_proofs -------------------------
(***************************************************************************)
(* Proofs about the parts of ServerParts, for all transfers, arrangements  *)
(* of displays, widths, and any number of faults, switches and mode sets:  *)
(* uploads are stored whole and reported only if they are; the display     *)
(* that was selected is what a Mac captures; NvFBC's frames have the width *)
(* their encoder was made for.                                             *)
(***************************************************************************)
EXTENDS ServerParts, SequenceTheorems, TLAPS

-----------------------------------------------------------------------------
(* Uploads.                                                                *)

\* What the receiver has stored and answered, and what the client made of it.
Honest ==
  /\ job = [t \in Transfers |-> job[t]]
  /\ toClient \in [Transfers -> Seq(Answers)]
  /\ \A t \in Transfers :
       /\ job[t] = "finished" => t \in stored
       /\ \A i \in 1..Len(toClient[t]) : toClient[t][i] = "ack" => t \in stored

StoredWhole ==
  /\ disk = [d \in Dests |-> disk[d]]
  /\ \A d \in Dests : disk[d] \notin {None, Theirs} => disk[d].data = Offered(disk[d].of)

(* Answers are added at one end and taken or lost anywhere. *)
LEMMA Answered ==
  ASSUME NEW s \in Seq(Answers), NEW a \in Answers, NEW ok,
         \A i \in 1..Len(s) : s[i] = "ack" => ok,
         a = "ack" => ok
  PROVE  /\ Append(s, a) \in Seq(Answers)
         /\ \A i \in 1..Len(Append(s, a)) : Append(s, a)[i] = "ack" => ok
OBVIOUS

LEMMA AnswerTaken ==
  ASSUME NEW s \in Seq(Answers), s # <<>>
  PROVE  /\ Tail(s) \in Seq(Answers) /\ Head(s) \in Answers
         /\ Head(s) = s[1] /\ 1 \in 1..Len(s)
         /\ \A i \in 1..Len(Tail(s)) : \E j \in 1..Len(s) : Tail(s)[i] = s[j]
<1>1. /\ Tail(s) \in Seq(Answers) /\ Head(s) = s[1] /\ Len(Tail(s)) = Len(s) - 1
      /\ \A i \in 1..Len(Tail(s)) : Tail(s)[i] = s[i + 1]
  BY HeadTailProperties
<1>2. Len(s) \in Nat /\ Len(s) # 0  OBVIOUS
<1>3. \A i \in 1..Len(Tail(s)) : i + 1 \in 1..Len(s)  BY <1>1, <1>2
<1> QED BY <1>1, <1>2, <1>3

LEMMA AnswerLost ==
  ASSUME NEW s \in Seq(Answers), NEW i \in 1..Len(s)
  PROVE  /\ Without(s, i) \in Seq(Answers)
         /\ \A j \in 1..Len(Without(s, i)) : \E k \in 1..Len(s) : Without(s, i)[j] = s[k]
<1> DEFINE a == SubSeq(s, 1, i - 1)
           b == SubSeq(s, i + 1, Len(s))
<1>1. Len(s) \in Nat /\ i \in Nat /\ i <= Len(s) /\ i >= 1  OBVIOUS
<1>2. a \in Seq(Answers) /\ b \in Seq(Answers)  BY <1>1
<1>3. Len(a) = i - 1 /\ \A j \in 1..Len(a) : a[j] = s[j]  BY <1>1
<1>4. Len(b) = Len(s) - i /\ \A j \in 1..Len(b) : b[j] = s[i + j]  BY <1>1
<1> HIDE DEF a, b
<1>5. a \o b \in Seq(Answers) /\ Len(a \o b) = Len(a) + Len(b)  BY <1>2
<1>6. \A j \in 1..Len(a \o b) :
        (a \o b)[j] = IF j <= Len(a) THEN a[j] ELSE b[j - Len(a)]
  BY <1>2
<1>7. ASSUME NEW j \in 1..Len(a \o b) PROVE \E k \in 1..Len(s) : (a \o b)[j] = s[k]
  <2>1. CASE j <= Len(a)
    <3>1. j \in 1..Len(a) /\ j \in 1..Len(s)  BY <1>1, <1>3, <2>1
    <3> QED BY <1>3, <1>6, <2>1, <3>1
  <2>2. CASE ~(j <= Len(a))
    <3>1. j - Len(a) \in 1..Len(b) /\ i + (j - Len(a)) \in 1..Len(s)
      BY <1>1, <1>3, <1>4, <1>5, <2>2
    <3> QED BY <1>4, <1>6, <2>2, <3>1
  <2> QED BY <2>1, <2>2
<1> QED BY <1>5, <1>7 DEF Without, a, b

LEMMA HonestStep ==
  ASSUME Honest, [Next]_vars
  PROVE  Honest'
<1> USE DEF Honest
<1>0. "ack" \in Answers /\ "accept" \in Answers /\ "nack" \in Answers /\ "cancel" \in Answers
  BY DEF Answers
<1>1. ASSUME NEW t \in Transfers, SendFile(t) PROVE Honest'
  BY <1>1 DEF SendFile, server
<1>2. ASSUME NEW t \in Transfers, HandleResponse(t) PROVE Honest'
  <2>1. /\ toClient[t] # <<>> /\ toClient' = [toClient EXCEPT ![t] = Tail(@)]
        /\ stored' = stored
    BY <1>2 DEF HandleResponse, server
  <2>2. /\ toClient[t] \in Seq(Answers)
        /\ Tail(toClient[t]) \in Seq(Answers)
        /\ Head(toClient[t]) = "ack" => t \in stored
        /\ \A i \in 1..Len(Tail(toClient[t])) : Tail(toClient[t])[i] = "ack" => t \in stored
    BY <2>1, AnswerTaken
  <2>3. \/ job' = job
        \/ job' = [job EXCEPT ![t] = "failed"]
        \/ Head(toClient[t]) = "ack" /\ job' = [job EXCEPT ![t] = "finished"]
    BY <1>2 DEF HandleResponse, SendChunks, Outcome
  <2>4. \A x \in Transfers : job'[x] = "finished" => x \in stored  BY <2>2, <2>3
  <2>5. job' = [x \in Transfers |-> job'[x]]  BY <2>3
  <2> QED BY <2>1, <2>2, <2>4, <2>5
<1>3. ASSUME NEW t \in Transfers, Receive(t) PROVE Honest'
  <2>1. job' = job  BY <1>3 DEF Receive
  <2>2. \/ toClient' = toClient /\ stored' = stored
        \/ \E a \in Answers \ {"ack"} : Answer(t, a) /\ stored' = stored
        \/ Answer(t, "ack") /\ stored' = stored \cup {t}
    BY <1>0, <1>3 DEF Receive, HandleOffer, HandleChunk, HandleDone, server
  <2>3. CASE toClient' = toClient /\ stored' = stored  BY <2>1, <2>3
  <2>4. ASSUME NEW a \in Answers \ {"ack"}, Answer(t, a), stored' = stored PROVE Honest'
    <3>1. toClient' = [toClient EXCEPT ![t] = Append(@, a)]  BY <2>4 DEF Answer
    <3>2. /\ Append(toClient[t], a) \in Seq(Answers)
          /\ \A i \in 1..Len(Append(toClient[t], a)) :
               Append(toClient[t], a)[i] = "ack" => t \in stored
      BY Answered
    <3> QED BY <2>1, <2>4, <3>1, <3>2
  <2>5. CASE Answer(t, "ack") /\ stored' = stored \cup {t}
    <3>1. toClient' = [toClient EXCEPT ![t] = Append(@, "ack")]  BY <2>5 DEF Answer
    <3>2. Append(toClient[t], "ack") \in Seq(Answers)  BY <1>0
    <3> QED BY <2>1, <2>5, <3>1, <3>2
  <2> QED BY <2>2, <2>3, <2>4, <2>5
<1>4. ASSUME NEW t \in Transfers, LoseRequest(t) PROVE Honest'
  BY <1>4 DEF LoseRequest, server
<1>5. ASSUME NEW t \in Transfers, LoseAnswer(t) PROVE Honest'
  <2>1. PICK i \in 1..Len(toClient[t]) :
          toClient' = [toClient EXCEPT ![t] = Without(@, i)]
    BY <1>5 DEF LoseAnswer
  <2>2. job' = job /\ stored' = stored  BY <1>5 DEF LoseAnswer, server
  <2>3. toClient[t] \in Seq(Answers)  OBVIOUS
  <2>4. /\ Without(toClient[t], i) \in Seq(Answers)
        /\ \A j \in 1..Len(Without(toClient[t], i)) :
             Without(toClient[t], i)[j] = "ack" => t \in stored
    <3> DEFINE s == toClient[t]
    <3>1. s \in Seq(Answers) /\ i \in 1..Len(s)  BY <2>3
    <3>2. \A k \in 1..Len(s) : s[k] = "ack" => t \in stored  OBVIOUS
    <3> HIDE DEF s
    <3>3. /\ Without(s, i) \in Seq(Answers)
          /\ \A j \in 1..Len(Without(s, i)) : \E k \in 1..Len(s) : Without(s, i)[j] = s[k]
      BY <3>1, AnswerLost
    <3>4. \A j \in 1..Len(Without(s, i)) : Without(s, i)[j] = "ack" => t \in stored
      BY <3>2, <3>3
    <3> QED BY <3>3, <3>4 DEF s
  <2> QED BY <2>1, <2>2, <2>4
<1>6. CASE Restart
  <2>1. toClient' = [t \in Transfers |-> <<>>]  BY <1>6 DEF Restart
  <2>2. toClient' \in [Transfers -> Seq(Answers)]  BY <2>1
  <2>3. \A t \in Transfers : Len(toClient'[t]) = 0  BY <2>1
  <2> QED BY <1>6, <2>2, <2>3 DEF Restart
<1>7. ASSUME NEW d \in Names \X {0}, Save(d) PROVE Honest'
  BY <1>7 DEF Save
<1>8. CASE UNCHANGED vars  BY <1>8 DEF vars
<1> QED BY <1>1, <1>2, <1>3, <1>4, <1>5, <1>6, <1>7, <1>8 DEF Next

(* Only a file whose checksum is right is put in its place. *)
LEMMA StoredStep ==
  ASSUME StoredWhole, [Next]_vars
  PROVE  StoredWhole'
<1> USE DEF StoredWhole
<1>1. ASSUME NEW t \in Transfers, Receive(t) PROVE StoredWhole'
  <2>1. \/ disk' = disk
        \/ \E d : /\ transfers[t].got = Offered(t)
                  /\ disk' = [disk EXCEPT ![d] = Upload(t, transfers[t].got)]
    BY <1>1 DEF Receive, HandleOffer, HandleChunk, HandleDone, server
  <2> QED BY <2>1 DEF Upload
<1>2. ASSUME NEW d \in Names \X {0}, Save(d) PROVE StoredWhole'
  BY <1>2 DEF Save
<1>3. CASE disk' = disk  BY <1>3
<1>4. ASSUME \/ \E t \in Transfers :
                  SendFile(t) \/ HandleResponse(t) \/ LoseRequest(t) \/ LoseAnswer(t)
             \/ Restart \/ UNCHANGED vars
      PROVE  disk' = disk
  BY <1>4 DEF SendFile, HandleResponse, LoseRequest, LoseAnswer, Restart, server, vars
<1> QED BY <1>1, <1>2, <1>3, <1>4 DEF Next

-----------------------------------------------------------------------------
(* The capture on a Mac.                                                   *)

(* Whatever number a client asks for, there is a display for it. *)
LEMMA SelectedExists ==
  ASSUME NEW a \in Arrangements, NEW i
  PROVE  At(a, i) \in AllDisplays
<1>1. a \in Seq(Display) /\ a # <<>>  BY ArrangementsAssumption
<1>2. Len(a) \in Nat /\ 1 \in 1..Len(a)  BY <1>1
<1>3. \A j \in 1..Len(a) : a[j] \in AllDisplays  BY DEF AllDisplays
<1>4. CASE i \in 1..Len(a)  BY <1>3, <1>4 DEF At
<1>5. CASE i \notin 1..Len(a)  BY <1>2, <1>3, <1>5 DEF At
<1> QED BY <1>4, <1>5

(* A display is a name and a width. *)
LEMMA DisplaysTyped == AllDisplays \subseteq Display
<1>1. \A a \in Arrangements : \A i \in 1..Len(a) : a[i] \in Display
  BY ArrangementsAssumption
<1> QED BY <1>1 DEF AllDisplays

LEMMA MacTypeStep ==
  ASSUME MacTypeOK, [MacNext]_macVars
  PROVE  MacTypeOK'
<1> USE DEF MacTypeOK, news
<1>1. CASE DeliverFrame
  <2>1. stream # Off => stream.of \in AllDisplays  BY DEF Off
  <2>2. latest' \in AllDisplays  BY <1>1, <2>1 DEF DeliverFrame
  <2>3. strayed' \in BOOLEAN  BY <1>1 DEF DeliverFrame
  <2> QED BY <1>1, <2>2, <2>3 DEF DeliverFrame
<1>2. CASE StrayEnds  BY <1>2 DEF StrayEnds
<1>3. CASE Rearrange
  <2>1. notice' \in BOOLEAN  BY <1>3 DEF Rearrange
  <2>2. moves' \in 0..MaxMoves  BY <1>3, MacBoundsAssumption DEF Rearrange
  <2> QED BY <1>3, <2>1, <2>2 DEF Rearrange
<1>4. CASE ScreenParametersChanged  BY <1>4 DEF ScreenParametersChanged
<1>5. ASSUME NEW i \in 0..3, StopStream(i) PROVE MacTypeOK'
  <2>1. stream # Off => stream.of \in AllDisplays  BY DEF On, Off
  <2> QED BY <1>5, <2>1, MacBoundsAssumption DEF StopStream, Troubled
<1>6. CASE EnumerateDisplays
  <2>1. At(displays, goal) \in AllDisplays  BY SelectedExists
  <2>2. slipped' \in BOOLEAN /\ failed' \in BOOLEAN
    BY <1>6 DEF EnumerateDisplays, GiveUpSwitch
  <2>3. trouble' \in 0..MaxTrouble
    BY <1>6, MacBoundsAssumption DEF EnumerateDisplays, Troubled
  <2> QED BY <1>6, <2>1, <2>2, <2>3 DEF EnumerateDisplays, GiveUpSwitch
<1>7. CASE StartStream
  <2>1. stream' \in [is : {"stream"}, of : AllDisplays] \cup {Off}
    BY <1>7 DEF StartStream, On
  <2>2. failed' \in BOOLEAN  BY <1>7 DEF StartStream, GiveUpSwitch
  <2>3. trouble' \in 0..MaxTrouble  BY <1>7, MacBoundsAssumption DEF StartStream, Troubled
  <2>4. /\ step' \in {"idle", "started"} /\ goal' \in 0..3
        /\ UNCHANGED <<displays, listed, selected, strays, latest, fitted, notice, pending,
                       heard, strayed, slipped, selects, moves>>
    BY <1>7 DEF StartStream, GiveUpSwitch
  <2> QED BY <2>1, <2>2, <2>3, <2>4
<1>8. CASE FinishSwitch
  <2>1. fitted' \in {d.w : d \in AllDisplays}  BY <1>8 DEF FinishSwitch
  <2>2. failed' \in BOOLEAN /\ strayed' \in BOOLEAN  BY <1>8 DEF FinishSwitch
  <2>3. /\ step' = "idle" /\ goal' \in 0..3 /\ latest' = NoFrame
        /\ UNCHANGED <<displays, listed, selected, stream, strays, notice, pending, heard,
                       slipped, selects, moves, trouble>>
    BY <1>8 DEF FinishSwitch
  <2> QED BY <2>1, <2>2, <2>3
<1>9. CASE PollDisplays  BY <1>9 DEF PollDisplays, SendList
<1>10. CASE UNCHANGED macVars  BY <1>10 DEF macVars
<1> QED BY <1>1, <1>2, <1>3, <1>4, <1>5, <1>6, <1>7, <1>8, <1>9, <1>10 DEF MacNext

(* What ShowsSelected needs: a stream that has just been started, and the one
   that runs between two switches, is of the display that is selected; the
   encoder fits it, and nothing of another display is latched. *)
Following ==
  /\ step = "started" => stream = On(selected)
  /\ step = "idle" /\ ~failed =>
       /\ stream = On(selected) /\ fitted = selected.w
       /\ ~strayed => latest \in {NoFrame, selected}

LEMMA FollowingStep ==
  ASSUME MacTypeOK, Following, [MacNext]_macVars
  PROVE  Following'
<1> USE DEF Following, news
<1>1. CASE DeliverFrame  BY <1>1 DEF DeliverFrame, On, MacTypeOK
<1>2. CASE StrayEnds  BY <1>2 DEF StrayEnds
<1>3. CASE Rearrange  BY <1>3 DEF Rearrange
<1>4. CASE ScreenParametersChanged  BY <1>4 DEF ScreenParametersChanged
<1>5. ASSUME NEW i \in 0..3, StopStream(i) PROVE Following'
  BY <1>5 DEF StopStream
<1>6. CASE EnumerateDisplays  BY <1>6 DEF EnumerateDisplays, GiveUpSwitch
<1>7. CASE StartStream  BY <1>7 DEF StartStream, GiveUpSwitch
<1>8. CASE FinishSwitch  BY <1>8 DEF FinishSwitch
<1>9. CASE PollDisplays  BY <1>9 DEF PollDisplays, SendList
<1>10. CASE UNCHANGED macVars  BY <1>10 DEF macVars
<1> QED BY <1>1, <1>2, <1>3, <1>4, <1>5, <1>6, <1>7, <1>8, <1>9, <1>10 DEF MacNext

LEMMA MacInitially ==
  ASSUME MacInit
  PROVE  MacTypeOK /\ Following
<1>1. selected \in AllDisplays  BY SelectedExists DEF MacInit
<1>2. stream \in [is : {"stream"}, of : AllDisplays]  BY <1>1 DEF MacInit, On
<1>3. fitted \in {d.w : d \in AllDisplays}  BY <1>1 DEF MacInit
<1>4. 0 \in 0..MaxSelects /\ 0 \in 0..MaxMoves /\ 0 \in 0..MaxTrouble
  BY MacBoundsAssumption
<1>5. displays \in Arrangements /\ listed \in Arrangements /\ heard \in Arrangements
  BY DEF MacInit
<1>6. strays \subseteq AllDisplays /\ latest \in AllDisplays \cup {NoFrame}
  BY DEF MacInit
<1>7. /\ notice \in BOOLEAN /\ pending \in BOOLEAN
      /\ failed \in BOOLEAN /\ strayed \in BOOLEAN /\ slipped \in BOOLEAN
  BY DEF MacInit
<1>8. step \in {"idle", "stopped", "listed", "started"} /\ goal \in 0..3
  BY DEF MacInit
<1>9. selects \in 0..MaxSelects /\ moves \in 0..MaxMoves /\ trouble \in 0..MaxTrouble
  BY <1>4 DEF MacInit
<1>10. MacTypeOK  BY <1>1, <1>2, <1>3, <1>5, <1>6, <1>7, <1>8, <1>9 DEF MacTypeOK
<1> QED BY <1>10 DEF MacInit, Following

LEMMA MacImplied == MacTypeOK /\ Following => ShowsSelected
<1> SUFFICES ASSUME MacTypeOK, Following, step = "idle", ~failed, ~strayed
             PROVE  Raw = selected /\ Raw.w = fitted
  BY DEF ShowsSelected
<1>1. selected \in Display  BY DisplaysTyped DEF MacTypeOK
<1>2. selected = [name |-> selected.name, w |-> selected.w]  BY <1>1 DEF Display
<1> QED BY <1>2 DEF Raw, Following

-----------------------------------------------------------------------------
(* NvFBC.                                                                  *)

\* The parts of NvFbcTypeOK the argument is about.
Typed ==
  /\ xscreen \in Widths /\ width \in Widths
  /\ pipe \in Seq([is : {"header", "payload"}, w : Widths])
  /\ header \in Widths \cup {0} /\ held \in Widths \cup {0} /\ locked \in Widths \cup {0}
  /\ reader = "payload" => header \in Widths
  /\ held # 0 => held = locked

(* What a step does to the pipe keeps it one of headers and payloads. *)
LEMMA TypedStep ==
  ASSUME Typed, [NvFbcNext]_nvfbcVars
  PROVE  Typed'
<1> USE DEF Typed, process, backend, chooser
<1> DEFINE Parts == [is : {"header", "payload"}, w : Widths]
<1>1. CASE ModeSet  BY <1>1 DEF ModeSet
<1>2. CASE CreateSession  BY <1>2 DEF CreateSession
<1>3. CASE Grab
  <2>1. PICK w \in Widths : pipe' = Append(pipe, Header(w))  BY <1>3 DEF Grab
  <2>2. Header(w) \in Parts  BY DEF Header
  <2>3. pipe' \in Seq(Parts)  BY <2>1, <2>2
  <2> QED BY <1>3, <2>3 DEF Grab
<1>4. CASE WritePayload
  <2>1. PICK w \in Widths : pipe' = Append(pipe, Payload(w))  BY <1>4 DEF WritePayload
  <2>2. Payload(w) \in Parts  BY DEF Payload
  <2>3. pipe' \in Seq(Parts)  BY <2>1, <2>2
  <2> QED BY <1>4, <2>3 DEF WritePayload
<1>5. CASE HelperDies  BY <1>5 DEF HelperDies
<1>6. CASE ReadHeader
  <2>1. pipe \in Seq(Parts) /\ pipe # <<>>  BY <1>6 DEF ReadHeader, Reads
  <2>2. Head(pipe) \in Parts /\ Tail(pipe) \in Seq(Parts)
    BY <2>1, HeadTailProperties
  <2>3. header' \in Widths  BY <1>6, <2>2 DEF ReadHeader
  <2> QED BY <1>6, <2>2, <2>3 DEF ReadHeader, Reads
<1>7. CASE ReadPayload
  <2>1. pipe' \in Seq(Parts)  BY <1>7 DEF ReadPayload, Reads
  <2> QED BY <1>7, <2>1 DEF ReadPayload, Reads
<1>8. CASE ReadEnd  BY <1>8 DEF ReadEnd
<1>9. CASE Spawn  BY <1>9 DEF Spawn
<1>10. CASE FirstFrame  BY <1>10, NvFbcAssumption DEF FirstFrame
<1>11. CASE NoFirstFrame  BY <1>11 DEF NoFirstFrame, Close
<1>12. CASE PollScreen  BY <1>12 DEF PollScreen
<1>13. CASE StopCapture  BY <1>13 DEF StopCapture
<1>14. CASE UNCHANGED nvfbcVars  BY <1>14 DEF nvfbcVars
<1> QED BY <1>1, <1>2, <1>3, <1>4, <1>5, <1>6, <1>7, <1>8, <1>9, <1>10, <1>11, <1>12,
           <1>13, <1>14 DEF NvFbcNext

(* What FramesUniform needs: a frame that is held has the size the first one
   had, and so have capture and encoder, until the poll takes another width;
   without NvFBC the encoder follows mss. *)
Locked ==
  /\ source = "nvfbc" => held # 0 /\ (~reselected => encodes = locked)
  /\ source = "mss" => encodes = width
  /\ source \in {"none", "nvfbc", "mss"}

LEMMA LockedStep ==
  ASSUME Typed, Locked, [NvFbcNext]_nvfbcVars
  PROVE  Locked'
<1> USE DEF Locked, Typed, process, backend, chooser
<1>1. CASE ModeSet  BY <1>1 DEF ModeSet
<1>2. CASE CreateSession  BY <1>2 DEF CreateSession
<1>3. CASE Grab  BY <1>3 DEF Grab
<1>4. CASE WritePayload  BY <1>4 DEF WritePayload
<1>5. CASE HelperDies  BY <1>5 DEF HelperDies
<1>6. CASE ReadHeader  BY <1>6 DEF ReadHeader
<1>7. CASE ReadPayload
  <2>1. header \in Widths /\ 0 \notin Widths  BY <1>7, NvFbcAssumption DEF ReadPayload, Reads
  <2> QED BY <1>7, <2>1 DEF ReadPayload
<1>8. CASE ReadEnd  BY <1>8 DEF ReadEnd
<1>9. CASE Spawn  BY <1>9 DEF Spawn
<1>10. CASE FirstFrame  BY <1>10 DEF FirstFrame
<1>11. CASE NoFirstFrame  BY <1>11 DEF NoFirstFrame, Close
<1>12. CASE PollScreen  BY <1>12 DEF PollScreen
<1>13. CASE StopCapture  BY <1>13 DEF StopCapture
<1>14. CASE UNCHANGED nvfbcVars  BY <1>14 DEF nvfbcVars
<1> QED BY <1>1, <1>2, <1>3, <1>4, <1>5, <1>6, <1>7, <1>8, <1>9, <1>10, <1>11, <1>12,
           <1>13, <1>14 DEF NvFbcNext

-----------------------------------------------------------------------------
(* In a behaviour of ServerParts a step of one part is no step of the others. *)
LEMMA PartsStep ==
  ASSUME [Uploads \/ MacCaptures \/ NvFbcCaptures]_<<vars, macVars, nvfbcVars, moving>>
  PROVE  [Next]_vars /\ [MacNext]_macVars /\ [NvFbcNext]_nvfbcVars
BY DEF Uploads, MacCaptures, NvFbcCaptures

LEMMA PartsInitially ==
  ASSUME PartsInit
  PROVE  Honest /\ StoredWhole /\ MacTypeOK /\ Following /\ Typed /\ Locked
<1>1. Init /\ MacInit /\ NvFbcInit  BY DEF PartsInit
<1>2. Honest
  <2>1. toClient = [t \in Transfers |-> <<>>]  BY <1>1 DEF Init
  <2>2. toClient \in [Transfers -> Seq(Answers)]  BY <2>1
  <2>3. \A t \in Transfers : Len(toClient[t]) = 0  BY <2>1
  <2> QED BY <1>1, <2>2, <2>3 DEF Init, Honest
<1>3. StoredWhole  BY <1>1 DEF Init, StoredWhole
<1>4. Typed /\ Locked  BY <1>1 DEF NvFbcInit, Typed, Locked
<1> QED BY <1>1, <1>2, <1>3, <1>4, MacInitially

(* What lies in its place is what was offered, and success is reported of nothing
   else, whatever messages are lost and whichever disk fails (_handle_done). *)
THEOREM UploadsIntact == PartsSpec => []Intact
<1>1. Honest /\ StoredWhole => Intact  BY DEF Honest, StoredWhole, Intact
<1>2. /\ Honest /\ StoredWhole
      /\ [Uploads \/ MacCaptures \/ NvFbcCaptures]_<<vars, macVars, nvfbcVars, moving>>
      => (Honest /\ StoredWhole)'
  BY PartsStep, HonestStep, StoredStep
<1> QED BY <1>1, <1>2, PartsInitially, PTL DEF PartsSpec

(* The variables of the capture on a Mac have their types, whatever displays
   there are. *)
THEOREM MacTypeCorrect == PartsSpec => []MacTypeOK
<1>1. /\ MacTypeOK
      /\ [Uploads \/ MacCaptures \/ NvFbcCaptures]_<<vars, macVars, nvfbcVars, moving>>
      => MacTypeOK'
  BY PartsStep, MacTypeStep
<1> QED BY <1>1, PartsInitially, PTL DEF PartsSpec

(* After a switch the selected display is captured, in the encoder's size, with
   frames, changes of the displays and failures in between at every step
   (switch_monitor, _StreamOutputHandler, MonitorHotplug.run). *)
THEOREM SelectedIsShown == PartsSpec => []ShowsSelected
<1>1. /\ MacTypeOK /\ Following
      /\ [Uploads \/ MacCaptures \/ NvFbcCaptures]_<<vars, macVars, nvfbcVars, moving>>
      => (MacTypeOK /\ Following)'
  BY PartsStep, MacTypeStep, FollowingStep
<1> QED BY <1>1, PartsInitially, MacImplied, PTL DEF PartsSpec

(* The encoder gets whole frames of the width it was made for, whatever the
   screen's mode, the helper's frames and its death do in between, until the
   poll has taken another width over (_reader_loop, detect_hotplug). *)
THEOREM FramesStayUniform == PartsSpec => []FramesUniform
<1>1. /\ Typed /\ Locked
      /\ [Uploads \/ MacCaptures \/ NvFbcCaptures]_<<vars, macVars, nvfbcVars, moving>>
      => (Typed /\ Locked)'
  BY PartsStep, TypedStep, LockedStep
<1>2. Typed /\ Locked => FramesUniform
  BY NvFbcAssumption DEF Typed, Locked, FramesUniform, Served
<1> QED BY <1>1, <1>2, PartsInitially, PTL DEF PartsSpec
=============================================================================
