---------------------------- MODULE FileTransfer ----------------------------
(***************************************************************************)
(* Sending files to the remote desktop: the client's FileSender offers a   *)
(* file with its checksum, sends its chunks when the offer is accepted,    *)
(* then a done; the FileReceiver of the user's runtime gathers them in a   *)
(* temporary file, compares the checksum and renames it.                   *)
(*                                                                         *)
(* The transfers may be of one client or of several of the same user: they *)
(* share the receiver and the directory.  The messages of one transfer     *)
(* stay in order; any of them is lost when the connection is down while it *)
(* is sent.  Answers may be lost too: they share the send queue with the   *)
(* pictures, which drops what doesn't fit.                                 *)
(***************************************************************************)
EXTENDS Naturals, FiniteSets, Sequences

CONSTANTS
  Transfers,   \* transfer ids
  Names,       \* file names
  nameOf,      \* per transfer, the name of the file
  Chunks,      \* chunks a file is cut into
  MaxFaults    \* bound: messages lost, errors of either disk, restarts

ASSUME NamesAssumption == nameOf \in [Transfers -> Names]
ASSUME BoundsAssumption == Chunks \in Nat \ {0} /\ MaxFaults \in Nat

VARIABLES
  job,        \* client: _active and what became of it
  toServer,   \* per transfer, its messages on their way
  toClient,   \* per transfer, the answers on their way
  transfers,  \* server: _transfers, None for ids it doesn't know
  temps,      \* server's disk: transfers whose temporary file is there
  disk,       \* server's disk: what is stored under a name and a counter
  stored,     \* history: transfers whose file has been put in its place
  troubled,   \* history: transfers that met a fault
  faults

vars == <<job, toServer, toClient, transfers, temps, disk, stored, troubled, faults>>

None == [is |-> "none"]
\* A chunk as it was when the file was offered, or as edited since.
Chunk == [of : Transfers, nr : 1..Chunks, edited : BOOLEAN]
File(t, edited) == [i \in 1..Chunks |-> [of |-> t, nr |-> i, edited |-> edited]]
Offered(t) == File(t, FALSE)

\* A name on the server's disk: the file's own, or with a counter.
Dests == Names \X (0..Cardinality(Transfers) + 1)
Theirs == [is |-> "theirs"]      \* a file of the desktop's user
Upload(t, data) == [is |-> "upload", of |-> t, data |-> data]
Open(d, got) == [is |-> "open", dest |-> d, got |-> got]

Offer == [is |-> "offer"]
Data(c) == [is |-> "chunk", data |-> c]
Done == [is |-> "done"]
Cancel == [is |-> "cancel"]
Requests == {Offer, Done, Cancel} \cup {Data(c) : c \in Chunk}
Answers == {"accept", "ack", "nack", "cancel"}

TypeOK ==
  /\ job \in [Transfers -> {"idle", "active", "finished", "failed"}]
  /\ toServer \in [Transfers -> Seq(Requests)]
  /\ toClient \in [Transfers -> Seq(Answers)]
  /\ \A t \in Transfers : transfers[t] # None =>
       /\ transfers[t] = Open(transfers[t].dest, transfers[t].got)
       /\ transfers[t].dest \in Dests /\ transfers[t].got \in Seq(Chunk)
       /\ t \in temps
  /\ temps \subseteq Transfers
  /\ \A d \in Dests : disk[d] \in {None, Theirs} \/ disk[d].of \in stored
  /\ stored \subseteq Transfers /\ troubled \subseteq Transfers
  /\ faults \in 0..MaxFaults

Init ==
  /\ job = [t \in Transfers |-> "idle"]
  /\ toServer = [t \in Transfers |-> <<>>] /\ toClient = [t \in Transfers |-> <<>>]
  /\ transfers = [t \in Transfers |-> None]
  /\ temps = {} /\ stored = {} /\ troubled = {}
  /\ disk \in {[d \in Dests |-> IF d \in S THEN Theirs ELSE None] :
                 S \in SUBSET (Names \X {0})}
  /\ faults = 0

server == <<transfers, temps, disk, stored>>
Fault(t) ==
  /\ faults < MaxFaults
  /\ faults' = faults + 1
  /\ troubled' = troubled \cup {t}
NoFault == UNCHANGED <<troubled, faults>>
-----------------------------------------------------------------------------
\* The client.

SendFile(t) ==
  /\ job[t] = "idle"
  /\ job' = [job EXCEPT ![t] = "active"]
  /\ toServer' = [toServer EXCEPT ![t] = Append(@, Offer)]
  /\ UNCHANGED <<toClient, server>> /\ NoFault

\* _send_chunks: the file is read again, edited or not, to its end or to an
\* error; then the job is reported failed, though it stays in _active.
SendChunks(t) ==
  LET Says(edited, k) == [i \in 1..k |-> Data(File(t, edited)[i])]
  IN \/ /\ toServer' = [toServer EXCEPT ![t] = @ \o Append(Says(FALSE, Chunks), Done)]
        /\ UNCHANGED job /\ NoFault
     \/ /\ toServer' = [toServer EXCEPT ![t] = @ \o Append(Says(TRUE, Chunks), Done)]
        /\ UNCHANGED job /\ Fault(t)
     \/ \E k \in 0..Chunks :
          /\ toServer' = [toServer EXCEPT ![t] = @ \o Append(Says(FALSE, k), Cancel)]
          /\ job' = [job EXCEPT ![t] = "failed"] /\ Fault(t)

\* handle_response.  An ack or a cancel ends the job, whatever it was.
Outcome(answer) == IF answer = "ack" THEN "finished" ELSE "failed"
HandleResponse(t) ==
  /\ toClient[t] # <<>>
  /\ toClient' = [toClient EXCEPT ![t] = Tail(@)]
  /\ IF Head(toClient[t]) = "accept"
     THEN IF job[t] = "active" THEN SendChunks(t)
          ELSE UNCHANGED <<job, toServer>> /\ NoFault
     ELSE /\ job' = [job EXCEPT ![t] = Outcome(Head(toClient[t]))]
          /\ UNCHANGED toServer /\ NoFault
  /\ UNCHANGED server
-----------------------------------------------------------------------------
\* The server: one message of one transfer.

Taken(t) == toServer' = [toServer EXCEPT ![t] = Tail(@)]
Answer(t, a) == toClient' = [toClient EXCEPT ![t] = Append(@, a)]
\* _cleanup_transfer
ForgetAll(t) == transfers' = [x \in Transfers |-> None] /\ temps' = {}
Forget(t) ==
  /\ transfers' = [transfers EXCEPT ![t] = None]
  /\ temps' = temps \ {t}

\* The file's name, or with the first counter that makes it free.
FreeFor(t) ==
  LET free == {k \in 0..Cardinality(Transfers) + 1 : disk[<<nameOf[t], k>>] = None}
  IN <<nameOf[t], CHOOSE k \in free : \A j \in free : k <= j>>

HandleOffer(t) ==
  \/ /\ transfers' = [transfers EXCEPT ![t] = Open(FreeFor(t), <<>>)]
     /\ temps' = temps \cup {t}
     /\ Answer(t, "accept")
     /\ UNCHANGED <<disk, stored>> /\ NoFault
  \/ /\ Answer(t, "cancel") /\ Fault(t)      \* too large, or no temporary file
     /\ UNCHANGED server

HandleChunk(t, c) ==
  \/ /\ transfers' = [transfers EXCEPT ![t].got = Append(@, c)]
     /\ UNCHANGED <<temps, disk, stored, toClient>> /\ NoFault
  \/ /\ Forget(t) /\ Answer(t, "cancel") /\ Fault(t)      \* write error
     /\ UNCHANGED <<disk, stored>>

\* The checksum is compared, the file renamed over whatever is there by now.
HandleDoneCounting(t) ==
  LET whole == Len(transfers[t].got) = Chunks
  IN /\ Forget(t)
     /\ Answer(t, IF whole THEN "ack" ELSE "nack")
     /\ IF whole THEN /\ disk' = [disk EXCEPT ![transfers[t].dest] = Upload(t, transfers[t].got)]
                      /\ stored' = stored \cup {t}
                 ELSE UNCHANGED <<disk, stored>>
     /\ NoFault
HandleDone(t) ==
  LET whole == transfers[t].got = Offered(t)
  IN /\ Forget(t)
     /\ \/ /\ whole /\ Answer(t, "ack")
           /\ disk' = [disk EXCEPT ![transfers[t].dest] = Upload(t, transfers[t].got)]
           /\ stored' = stored \cup {t} /\ NoFault
        \/ ~whole /\ Answer(t, "nack") /\ UNCHANGED <<disk, stored>> /\ NoFault
        \/ whole /\ Answer(t, "nack") /\ UNCHANGED <<disk, stored>> /\ Fault(t)

\* A transfer the server doesn't know is refused; a cancel gets no answer.
Receive(t) ==
  /\ toServer[t] # <<>> /\ Taken(t)
  /\ LET m == Head(toServer[t]) known == transfers[t] # None
     IN \/ m = Offer /\ HandleOffer(t)
        \/ m = Cancel /\ Forget(t) /\ UNCHANGED <<toClient, disk, stored>> /\ NoFault
        \/ m.is = "chunk" /\ known /\ HandleChunk(t, m.data)
        \/ m = Done /\ known /\ HandleDone(t)
        \/ m \notin {Offer, Cancel} /\ ~known /\ Answer(t, "cancel")
             /\ UNCHANGED server /\ NoFault
  /\ UNCHANGED job
-----------------------------------------------------------------------------
\* What goes wrong between them.

Without(s, i) == SubSeq(s, 1, i - 1) \o SubSeq(s, i + 1, Len(s))
LoseRequest(t) ==
  /\ Fault(t)
  /\ \E i \in 1..Len(toServer[t]) : toServer' = [toServer EXCEPT ![t] = Without(@, i)]
  /\ UNCHANGED <<job, toClient, server>>
LoseAnswer(t) ==
  /\ Fault(t)
  /\ \E i \in 1..Len(toClient[t]) : toClient' = [toClient EXCEPT ![t] = Without(@, i)]
  /\ UNCHANGED <<job, toServer, server>>

\* The server starts again: it knows no transfer, the temporary files stay.
Restart ==
  /\ faults < MaxFaults /\ faults' = faults + 1
  /\ troubled' = Transfers
  /\ transfers' = [t \in Transfers |-> None]
  /\ toServer' = [t \in Transfers |-> <<>>] /\ toClient' = [t \in Transfers |-> <<>>]
  /\ UNCHANGED <<job, temps, disk, stored>>

\* The desktop's user saves a file of his own where there is none.
Save(d) ==
  /\ faults < MaxFaults /\ faults' = faults + 1
  /\ disk[d] = None
  /\ disk' = [disk EXCEPT ![d] = Theirs]
  /\ UNCHANGED <<job, toServer, toClient, transfers, temps, stored, troubled>>

Next ==
  \/ \E t \in Transfers : SendFile(t)
  \/ \E t \in Transfers : HandleResponse(t)
  \/ \E t \in Transfers : Receive(t)
  \/ \E t \in Transfers : LoseRequest(t)
  \/ \E t \in Transfers : LoseAnswer(t)
  \/ Restart
  \/ \E d \in Names \X {0} : Save(d)

Fairness == \A t \in Transfers : WF_vars(HandleResponse(t)) /\ WF_vars(Receive(t))
Spec == Init /\ [][Next]_vars /\ Fairness
-----------------------------------------------------------------------------
\* An upload that is in its place is what was offered, chunk by chunk, though
\* messages of it were lost, its file edited or read half; and the client is
\* told of success only if it has been put there (_handle_done).
Intact ==
  /\ \A d \in Dests : disk[d] \notin {None, Theirs} =>
       disk[d].data = Offered(disk[d].of)
  /\ \A t \in Transfers : job[t] = "finished" => t \in stored

\* Every transfer that meets no fault is brought to its end, and its file to
\* its place, whatever else is going on at both ends (_send_chunks, handle_response).
Arrives == \A t \in Transfers :
  job[t] = "active" ~> (job[t] = "finished" /\ t \in stored) \/ t \in troubled
=============================================================================
