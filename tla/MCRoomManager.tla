--------------------------- MODULE MCRoomManager ---------------------------
(* A small instance of RoomManager for TLC: two or three edits, the later ones *)
(* building on the first.                                                      *)
EXTENDS RoomManager, TLC

CONSTANTS e1, e2, e3

TwoEdits == (e1 :> {} @@ e2 :> {e1})
ThreeEdits == (e1 :> {} @@ e2 :> {e1} @@ e3 :> {})

\* Once a close was cut into, the conditional properties say nothing more.
UntilRaced == ~raced

\* The server is not asked to shut down.
Serving == accepting
=============================================================================
