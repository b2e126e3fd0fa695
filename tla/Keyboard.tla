------------------------------ MODULE Keyboard ------------------------------
(***************************************************************************)
(* The keys of one remote desktop: the viewers of its clients turn Qt's    *)
(* key events into messages, the user's runtime injects them into the one  *)
(* X display all of its clients share.  A key that is released while the   *)
(* viewer doesn't have the focus, or after the connection is lost, is      *)
(* never reported, so modifiers are released on other occasions too: when  *)
(* a viewer loses the focus, when the user presses F9, when a client       *)
(* attaches, and by a loop of the server after ten quiet seconds.          *)
(*                                                                         *)
(* Pressed and released are what the X server sees; which character a      *)
(* keycode gives is left out.  TEXT_COMMIT leaves the keys as they are     *)
(* (xdotool restores the modifiers it clears) and is left out as well.     *)
(***************************************************************************)
EXTENDS Naturals, FiniteSets, Sequences

CONSTANTS
  Clients,     \* clients of the runtime
  Keys,        \* keys of their keyboards
  keysOf,      \* per client, the keys its user makes use of
  Codes,       \* keys of the desktop
  Modifiers,   \* the codes reset_modifiers releases
  codeOf,      \* per key, the code it ends up as, or NoCode
  NoCode,      \* a key the server has no code for
  Keypad,      \* keys that set the keypad's bit in an event's modifiers
  LockKey,     \* the code of caps lock
  Probing,     \* clients whose platform tells whether caps lock is on
  HasKeyboard, \* the injector has a keyboard of its own (uinput)
  MaxWire      \* bound: messages of a client on their way

ASSUME CodesAssumption ==
  /\ NoCode \notin Codes /\ codeOf \in [Keys -> Codes \cup {NoCode}]
  /\ keysOf \in [Clients -> SUBSET Keys]
  /\ Modifiers \subseteq Codes /\ Keypad \subseteq Keys /\ Probing \subseteq Clients
  /\ LockKey \in Codes \ Modifiers
  /\ HasKeyboard \in BOOLEAN /\ MaxWire \in Nat \ {0}

VARIABLES
  held,       \* keys the user of a client holds, seen by the viewer or not
  capsOn,     \* the client's caps lock
  focused,    \* the viewer has the focus
  attached,   \* the client is connected and in the runtime's clients
  wire,       \* messages of a client on their way
  down,       \* codes the X display has as pressed
  lock,       \* the X display's caps lock
  lockCache,  \* _caps_lock_on
  hadMods,    \* _last_key_event_had_modifiers
  quiet,      \* ten seconds have passed since _last_key_event_at
  pressed,    \* history: modifiers a client's events pressed and nothing released
  last        \* history: the client of the last key event, or NoClient

vars == <<held, capsOn, focused, attached, wire, down, lock, lockCache, hadMods,
          quiet, pressed, last>>
user == <<held, capsOn, focused, attached>>
server == <<down, lock, lockCache, hadMods, quiet, pressed, last>>

NoClient == "no client"
Reset == [is |-> "reset"]
KeyEvent(code, isDown, mods, caps) ==
  [is |-> "key", code |-> code, down |-> isDown, mods |-> mods, caps |-> caps]
Message ==
  {Reset} \cup {KeyEvent(k, d, m, l) : k \in Codes \cup {NoCode},
                                       d \in BOOLEAN, m \in BOOLEAN, l \in BOOLEAN}

TypeOK ==
  /\ held \in [Clients -> SUBSET Keys] /\ capsOn \in [Clients -> BOOLEAN]
  /\ focused \in [Clients -> BOOLEAN] /\ attached \in [Clients -> BOOLEAN]
  /\ wire \in [Clients -> Seq(Message)]
  /\ \A c \in Clients : ~attached[c] => wire[c] = <<>>
  /\ down \subseteq Codes
  /\ lock \in BOOLEAN /\ lockCache \in BOOLEAN
  /\ hadMods \in BOOLEAN /\ quiet \in BOOLEAN
  /\ pressed \in [Clients -> SUBSET Modifiers]
  /\ down \cap Modifiers \subseteq UNION {pressed[c] : c \in Clients}
  /\ last \in Clients \cup {NoClient}

Init ==
  /\ held = [c \in Clients |-> {}] /\ capsOn = [c \in Clients |-> FALSE]
  /\ focused = [c \in Clients |-> FALSE] /\ attached = [c \in Clients |-> FALSE]
  /\ wire = [c \in Clients |-> <<>>]
  /\ down = {} /\ lock = FALSE /\ lockCache = FALSE
  /\ hadMods = FALSE /\ quiet = FALSE
  /\ pressed = [c \in Clients |-> {}] /\ last = NoClient

-----------------------------------------------------------------------------
(* The client.                                                             *)

IsModifier(k) == codeOf[k] \in Modifiers

\* _qt_modifiers_to_int of the state right after the event: not zero when a
\* modifier is held, or when the key is one of the keypad.
HasModifiers(k, holding) == k \in Keypad \/ \E h \in holding : IsModifier(h)

Send(c, m) ==
  IF attached[c]
  THEN Len(wire[c]) < MaxWire /\ wire' = [wire EXCEPT ![c] = Append(@, m)]
  ELSE UNCHANGED wire

EventOf(c, k, isDown, holding, caps) ==
  KeyEvent(codeOf[k], isDown, HasModifiers(k, holding), caps /\ c \in Probing)

\* Pressing the lock key turns the lock of the client over, whoever has the focus.
Press(c, k) ==
  /\ k \in keysOf[c] \ held[c]
  /\ held' = [held EXCEPT ![c] = @ \cup {k}]
  /\ capsOn' = [capsOn EXCEPT ![c] = IF codeOf[k] = LockKey THEN ~@ ELSE @]
  /\ IF focused[c] THEN Send(c, EventOf(c, k, TRUE, held'[c], capsOn'[c])) ELSE UNCHANGED wire
  /\ UNCHANGED <<focused, attached, server>>

Release(c, k) ==
  /\ k \in held[c]
  /\ held' = [held EXCEPT ![c] = @ \ {k}]
  /\ IF focused[c] THEN Send(c, EventOf(c, k, FALSE, held'[c], capsOn[c])) ELSE UNCHANGED wire
  /\ UNCHANGED <<capsOn, focused, attached, server>>

FocusIn(c) ==
  /\ ~focused[c]
  /\ focused' = [focused EXCEPT ![c] = TRUE]
  /\ UNCHANGED <<held, capsOn, attached, wire, server>>

\* Not the code: losing the focus is not reported.
FocusOutSilently(c) ==
  /\ focused[c]
  /\ focused' = [focused EXCEPT ![c] = FALSE]
  /\ UNCHANGED <<held, capsOn, attached, wire, server>>

FocusOut(c) ==
  /\ focused[c]
  /\ focused' = [focused EXCEPT ![c] = FALSE]
  /\ Send(c, Reset)
  /\ UNCHANGED <<held, capsOn, attached, server>>

\* F9: _panic_release_modifiers.
Panic(c) ==
  /\ focused[c] /\ attached[c]
  /\ Send(c, Reset)
  /\ UNCHANGED <<user, server>>

-----------------------------------------------------------------------------
(* The server.                                                             *)

ResetModifiers ==
  /\ down' = down \ Modifiers
  /\ pressed' = [c \in Clients |-> {}]

AddClient(c) ==
  /\ ~attached[c]
  /\ attached' = [attached EXCEPT ![c] = TRUE]
  /\ ResetModifiers
  /\ UNCHANGED <<held, capsOn, focused, wire, lock, lockCache, hadMods, quiet, last>>

\* The connection is lost with what is on its way; remove_client leaves the
\* keys alone, the session persists.
RemoveClient(c) ==
  /\ attached[c]
  /\ attached' = [attached EXCEPT ![c] = FALSE]
  /\ wire' = [wire EXCEPT ![c] = <<>>]
  /\ UNCHANGED <<held, capsOn, focused, server>>

\* _sync_lock_state_from_wire: the cache follows the event's bit; the lock key
\* is pressed and released if there is a keyboard to do it with.
Corrected(caps) == IF caps # lockCache /\ HasKeyboard THEN ~lock ELSE lock

\* The X server turns its lock over when the lock key goes down.
Inject(c, m) ==
  LET goesDown == m.down /\ m.code \in Codes \ down IN
  /\ lockCache' = m.caps
  /\ lock' = IF goesDown /\ m.code = LockKey THEN ~Corrected(m.caps) ELSE Corrected(m.caps)
  /\ down' = IF m.down THEN down \cup ({m.code} \ {NoCode}) ELSE down \ {m.code}
  /\ pressed' = [pressed EXCEPT ![c] = IF m.down THEN @ \cup ({m.code} \cap Modifiers)
                                        ELSE @ \ {m.code}]

\* Not the code: the release of a key ends the chord.
HadModsOnPressOnly(c) ==
  LET m == Head(wire[c]) IN
  /\ wire[c] # <<>> /\ m # Reset
  /\ wire' = [wire EXCEPT ![c] = Tail(@)]
  /\ quiet' = FALSE /\ hadMods' = (m.mods /\ m.down) /\ last' = c
  /\ Inject(c, m)
  /\ UNCHANGED user

HandleKey(c) ==
  LET m == Head(wire[c]) IN
  /\ wire[c] # <<>> /\ m # Reset
  /\ wire' = [wire EXCEPT ![c] = Tail(@)]
  /\ quiet' = FALSE /\ hadMods' = m.mods /\ last' = c
  /\ Inject(c, m)
  /\ UNCHANGED user

HandleReset(c) ==
  /\ wire[c] # <<>> /\ Head(wire[c]) = Reset
  /\ wire' = [wire EXCEPT ![c] = Tail(@)]
  /\ ResetModifiers
  /\ quiet' = FALSE /\ hadMods' = FALSE
  /\ UNCHANGED <<user, lock, lockCache, last>>

TenSeconds ==
  /\ ~quiet
  /\ quiet' = TRUE
  /\ UNCHANGED <<user, wire, down, lock, lockCache, hadMods, pressed, last>>

\* Not the code: the net asks the display instead of the events.
ShouldFireWithoutModifiers == ~hadMods /\ quiet /\ down \cap Modifiers = {}

\* _should_fire_periodic_reset
ShouldFire == ~hadMods /\ quiet

PeriodicReset ==
  /\ ShouldFire
  /\ ResetModifiers
  /\ quiet' = FALSE
  /\ UNCHANGED <<user, wire, lock, lockCache, hadMods, last>>

Next ==
  \/ \E c \in Clients, k \in Keys : Press(c, k) \/ Release(c, k)
  \/ \E c \in Clients :
       \/ FocusIn(c) \/ FocusOut(c) \/ Panic(c)
       \/ AddClient(c) \/ RemoveClient(c) \/ HandleKey(c) \/ HandleReset(c)
  \/ TenSeconds \/ PeriodicReset

\* Time passes, the loop's two-second timer fires, and the event loop reads
\* what the connections bring.
Fairness ==
  /\ WF_vars(TenSeconds) /\ WF_vars(PeriodicReset)
  /\ \A c \in Clients : WF_vars(HandleKey(c)) /\ WF_vars(HandleReset(c))

Spec == Init /\ [][Next]_vars /\ Fairness

-----------------------------------------------------------------------------
(* Properties.                                                             *)

\* The codes the user of c holds as far as its viewer may know.
Wanted(c) == IF attached[c] /\ focused[c] THEN {codeOf[k] : k \in held[c]} ELSE {}
Drained == \A c \in Clients : wire[c] = <<>>

\* Whatever the viewers saw and didn't see of their keyboards, once the
\* messages are handled a modifier is down on the desktop only because somebody
\* who has the focus holds it, or because whoever pressed it has since lost
\* the connection (viewer.focusOutEvent, SessionRuntime.add_client).
NoPhantoms ==
  Drained => \A m \in down \cap Modifiers :
    \E c \in Clients : m \in Wanted(c) \/ (~attached[c] /\ m \in pressed[c])

\* The safety net doesn't rip a chord: when it fires, the client the last key
\* event came from has no modifier down (_should_fire_periodic_reset,
\* "this safety net must not break" a held chord).
ChordsSurvive ==
  [][PeriodicReset /\ last \in Clients => pressed[last] = {}]_vars

\* A modifier nobody holds doesn't stay down for good, unless the last event
\* that was handled came with modifiers: then the server takes it for a chord
\* and waits for as long as nobody types.
Ghost(m) == m \in down /\ \A c \in Clients : m \notin Wanted(c)
StuckKeysEnd ==
  \A m \in Modifiers : <>[](Drained /\ Ghost(m)) => <>[]hadMods

=============================================================================
