SPECIFICATION PollSpec
CONSTANTS
  p1 = p1
  p2 = p2
  Pollers = {p1, p2}
  LastMessage = 2
  PageSize = 1
  MaxPerPoll = 1
  MaxExpiries = 1
  MaxDeleted = 0
SYMMETRY Symmetry
INVARIANT CursorPassesStored
