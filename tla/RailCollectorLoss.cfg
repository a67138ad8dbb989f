\* The collector with one station board.
SPECIFICATION Spec
CONSTANTS
  trains = trains
  board = board
  trip = trip
  k1 = k1
  k2 = k2
  here = here
  there = there
  None = None
  Task = {board}
  KindOf <- Kind
  Key = {k1, k2}
  Says <- Rows
  State = {here, there}
INVARIANT AnsweredIsStored
