---------------------------- MODULE MCServerParts ----------------------------
(* ServerParts for TLC: two files of one name; displays of which one can be
   replaced by another of its size. *)
EXTENDS ServerParts

MCNameOf == [t \in Transfers |-> CHOOSE n \in Names : TRUE]

One == [name |-> "one", w |-> 2]
Two == [name |-> "two", w |-> 3]
Three == [name |-> "three", w |-> 2]
MCArrangements == {<<One>>, <<One, Two>>, <<Three, Two>>}
=============================================================================
