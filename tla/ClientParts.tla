------------------------------ MODULE ClientParts ------------------------------
(***************************************************************************)
(* Parts of the client that have no state in common: the buttons of mouse  *)
(* and pen (with the server's end of them), the viewer's geometry, and the *)
(* bookmarks.  One of them moves and the others rest.                      *)
(***************************************************************************)
EXTENDS Pointer, ViewerGeometry, Bookmarks

VARIABLE moving  \* the part that moves

PartsInit ==
  /\ moving \in {"pointer", "viewer", "bookmarks"}
  /\ Init /\ GeometryInit /\ BookmarksInit
  \* A part that rests does so in one state.
  /\ moving # "viewer" =>
       /\ desktop = CHOOSE d \in Desktops : TRUE
       /\ widget = CHOOSE w \in Widgets : TRUE
       /\ captured = desktop[1]

Points == moving = "pointer" /\ Next /\ UNCHANGED <<geometryVars, bookmarkVars, moving>>
Views == moving = "viewer" /\ GeometryNext /\ UNCHANGED <<vars, bookmarkVars, moving>>
Bookmarked == moving = "bookmarks" /\ BookmarksNext /\ UNCHANGED <<vars, geometryVars, moving>>

PartsSpec ==
  PartsInit /\ [][Points \/ Views \/ Bookmarked]_<<vars, geometryVars, bookmarkVars, moving>>
================================================================================
