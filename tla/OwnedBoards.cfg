SPECIFICATION Spec
CONSTANTS
  Boards = {"b1", "b2"}
  Shared = {"b1"}
  u1 = u1
  u2 = u2
  r1 = r1
  r2 = r2
  Others <- BothUsers
  Invites = {"i1"}
  Plans = {"free", "pro"}
  BoardLimit <- Limits
  OtherSeats <- Seats
  Requests <- BothRequests
INVARIANTS
  EditableBoardsFit
  ActiveSeatsFitUnlessUnchecked
  InviteGrantsOnceUnlessRaced
PROPERTY SeatsComeBack
SYMMETRY Alike
