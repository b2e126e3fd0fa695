------------------------------- MODULE Bookmarks -------------------------------
(***************************************************************************)
(* The saved connections of a client: a dictionary in memory, written out  *)
(* to bookmarks.json whole after each change, by way of a temporary file   *)
(* that replaces it.  Clients of one user share both files; each of them   *)
(* can die at any moment, and a write can fail.  The file also comes from  *)
(* older versions, and is edited by hand.                                  *)
(*                                                                         *)
(* Of a connection the swap of Cmd and Ctrl is kept, and the kind of       *)
(* destination that decides its default; of the other fields only that an  *)
(* old file lacks them, or that monitor_mode is none there is.             *)
(***************************************************************************)
EXTENDS Naturals, Sequences, FiniteSets, SequencesExt

CONSTANTS
  Programs,    \* clients running with one home directory
  Names,       \* ids of bookmarks
  MaxEdits,    \* bound: changes made in the clients
  MaxHands,    \* bound: changes made to the file by hand
  MaxFailures  \* bound: writes that fail

ASSUME BookmarksAssumption == {MaxEdits, MaxHands, MaxFailures} \subseteq Nat

\* An entry of the file.  An old one has no swap (kept as FALSE here), an odd
\* one no valid monitor_mode, a broken one is no object at all.
Shapes == {"new", "old", "odd", "broken"}
Entry == [id : Names, shape : Shapes, mac : BOOLEAN, swap : BOOLEAN]
Profile == [id : Names, shape : {"new", "odd"}, mac : BOOLEAN, swap : BOOLEAN]

Ids(s) == {s[i].id : i \in 1..Len(s)}
Contents(E) == {s \in SeqOf(E, Cardinality(Names)) : Cardinality(Ids(s)) = Len(s)}

\* What a file holds: the entries in order, or text that doesn't parse.
Text(s) == [is |-> "text", of |-> s]
Torn == [is |-> "torn", of |-> <<>>]
NoFile == [is |-> "none", of |-> <<>>]

VARIABLES
  file,      \* bookmarks.json
  temp,      \* bookmarks.json.tmp
  running,   \* the clients that run
  profiles,  \* per client, _profiles in their order
  writing,   \* per client, how far _save is, and the data it writes
  deleted,   \* history: bookmarks the user deleted, by hand or in a client
  shared,    \* history: two clients ran at once
  partly,    \* history: a client couldn't load all of the file
  edits, hands, failures

bookmarkVars == <<file, temp, running, profiles, writing, deleted, shared, partly,
                  edits, hands, failures>>
disk == <<file, temp>>
bounds == <<edits, hands, failures>>

Idle == [at |-> "idle", data |-> <<>>]
Saving(s) == [at |-> "open", data |-> s]

BookmarksTypeOK ==
  /\ file.is \in {"none", "torn", "text"} /\ temp.is \in {"none", "torn", "text"}
  /\ {file.of, temp.of} \subseteq Contents(Entry)
  /\ running \subseteq Programs
  /\ \A p \in Programs :
       profiles[p] \in Contents(Profile) /\ writing[p].at \in {"idle", "open", "write", "replace"}
  /\ deleted \subseteq Names /\ {shared, partly} \subseteq BOOLEAN

BookmarksInit ==
  /\ file = NoFile /\ temp = NoFile
  /\ running = {} /\ profiles = [p \in Programs |-> <<>>] /\ writing = [p \in Programs |-> Idle]
  /\ deleted = {} /\ shared = FALSE /\ partly = FALSE
  /\ edits = 0 /\ hands = 0 /\ failures = 0

\* The user, or an older version, writes one entry.
EditByHand ==
  /\ running = {} /\ file.is # "torn" /\ hands < MaxHands
  /\ hands' = hands + 1
  /\ \E e \in Entry :
       /\ e.shape = "old" => ~e.swap
       /\ \/ e.id \notin Ids(file.of) /\ file' = Text(Append(file.of, e))
          \/ \E i \in 1..Len(file.of) :
               file.of[i].id = e.id /\ file' = Text([file.of EXCEPT ![i] = e])
       /\ deleted' = deleted \ {e.id}
  /\ UNCHANGED <<temp, running, profiles, writing, shared, partly, edits, failures>>
-----------------------------------------------------------------------------
\* default_swap_for_destination
DefaultSwap(mac) == ~mac

\* _load, of one entry: the fields it lacks, the mode there is none of.
Migrated(e) ==
  [e EXCEPT !.shape = "new", !.swap = IF e.shape = "old" THEN DefaultSwap(e.mac) ELSE @]
Stale(e) == e.shape \in {"old", "odd"}

\* Entries are taken until one can't be.
Loadable(s) ==
  LET bad == {i \in 1..Len(s) : s[i].shape = "broken"} IN
  IF bad = {} THEN s ELSE SubSeq(s, 1, (CHOOSE i \in bad : \A j \in bad : i <= j) - 1)

\* BookmarkManager.__init__; what had to be migrated is saved at once.
Load(p) ==
  /\ p \notin running
  /\ LET s == Loadable(file.of)
         loaded == [i \in 1..Len(s) |-> Migrated(s[i])]
         whole == file.is # "torn" /\ \A i \in 1..Len(file.of) : file.of[i].shape # "broken" IN
     /\ running' = running \cup {p} /\ shared' = (shared \/ running # {})
     /\ profiles' = [profiles EXCEPT ![p] = loaded]
     /\ writing' = [writing EXCEPT ![p] =
                      IF whole /\ \E i \in 1..Len(s) : Stale(s[i]) THEN Saving(loaded) ELSE Idle]
     /\ partly' = (partly \/ ~whole)
  /\ UNCHANGED <<disk, deleted, bounds>>

\* Memory is lost, the files stay as they are.
Exit(p) ==
  /\ p \in running
  /\ running' = running \ {p}
  /\ profiles' = [profiles EXCEPT ![p] = <<>>] /\ writing' = [writing EXCEPT ![p] = Idle]
  /\ UNCHANGED <<disk, deleted, shared, partly, bounds>>

\* A change in memory, and the start of _save.
Change(p, s) ==
  /\ p \in running /\ writing[p] = Idle /\ edits < MaxEdits
  /\ edits' = edits + 1
  /\ profiles' = [profiles EXCEPT ![p] = s] /\ writing' = [writing EXCEPT ![p] = Saving(s)]
  /\ UNCHANGED <<disk, running, shared, partly, hands, failures>>

New(id, mac, swap) == [id |-> id, shape |-> "new", mac |-> mac, swap |-> swap]

\* add: without a swap of its own it has its destination's; ids aren't reused.
Add(p) ==
  \E id \in Names \ (Ids(profiles[p]) \cup Ids(file.of) \cup deleted), mac \in BOOLEAN :
    \E swap \in BOOLEAN :
      Change(p, Append(profiles[p], New(id, mac, swap))) /\ UNCHANGED deleted

\* update, as the edit dialog calls it; mark_connected changes nothing kept here.
Update(p) ==
  \E i \in 1..Len(profiles[p]), mac \in BOOLEAN, swap \in BOOLEAN :
    /\ Change(p, [profiles[p] EXCEPT ![i].mac = mac, ![i].swap = swap])
    /\ UNCHANGED deleted

Delete(p) ==
  \E i \in 1..Len(profiles[p]) :
    /\ Change(p, RemoveAt(profiles[p], i))
    /\ deleted' = deleted \cup {profiles[p][i].id}

\* import_bookmarks of one entry: what a field lacks is the dataclass's default,
\* whatever the destination, and an odd mode stays; a broken one isn't caught.
Import(p) ==
  \E e \in Entry :
    /\ e.shape # "broken" /\ (e.shape = "old" => ~e.swap)
    /\ LET taken == [e EXCEPT !.shape = IF @ = "old" THEN "new" ELSE @,
                              !.swap = IF e.shape = "old" THEN TRUE ELSE @] IN
       Change(p, IF e.id \in Ids(profiles[p]) THEN profiles[p] ELSE Append(profiles[p], taken))
    /\ deleted' = deleted \ {e.id}
-----------------------------------------------------------------------------
\* _save, whose steps other clients, a crash or a failure can come between.

At(p, step) == p \in running /\ writing[p].at = step
Go(p, step) == writing' = [writing EXCEPT ![p].at = step]

\* Not the code: the file itself is opened for writing, as it once was.
OpenInPlace(p) ==
  /\ At(p, "open") /\ Go(p, "write")
  /\ file' = Torn
  /\ UNCHANGED <<temp, running, profiles, deleted, shared, partly, bounds>>
Open(p) ==
  /\ At(p, "open") /\ Go(p, "write")
  /\ temp' = Torn
  /\ UNCHANGED <<file, running, profiles, deleted, shared, partly, bounds>>

Write(p) ==
  /\ At(p, "write") /\ Go(p, "replace")
  /\ temp' = Text(writing[p].data)
  /\ UNCHANGED <<file, running, profiles, deleted, shared, partly, bounds>>

\* os.replace fails without the file another client has moved away.
Replace(p) ==
  /\ At(p, "replace")
  /\ writing' = [writing EXCEPT ![p] = Idle]
  /\ IF temp = NoFile THEN UNCHANGED disk ELSE file' = temp /\ temp' = NoFile
  /\ UNCHANGED <<running, profiles, deleted, shared, partly, bounds>>

\* No room on the disk: logged, and the temporary file stays.
SaveFails(p) ==
  /\ At(p, "open") \/ At(p, "write")
  /\ failures < MaxFailures
  /\ failures' = failures + 1
  /\ writing' = [writing EXCEPT ![p] = Idle]
  /\ UNCHANGED <<disk, running, profiles, deleted, shared, partly, edits, hands>>
-----------------------------------------------------------------------------
BookmarksNext ==
  \/ EditByHand
  \/ \E p \in Programs :
       \/ Load(p) \/ Exit(p) \/ Add(p) \/ Update(p) \/ Delete(p) \/ Import(p)
       \/ Open(p) \/ Write(p) \/ Replace(p) \/ SaveFails(p)

(* A bookmark that was in the file stays in it until its user deletes it
   (_save: "the readable file is always fully-written"), whatever dies or fails
   in between: unless two clients ran at once, which can also tear the file, or
   a client met an entry it couldn't load, which drops those after it. *)
BookmarksSurvive ==
  [][shared' \/ partly' \/ Ids(file.of) \subseteq Ids(file'.of) \cup deleted']_bookmarkVars
===============================================================================
