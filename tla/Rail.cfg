\* The rail collector: its write path, its stations, its delay history.
SPECIFICATION RailSpec
CONSTANTS
  trains = trains
  board = board
  trip = trip
  k1 = k1
  k2 = k2
  here = here
  there = there
  None = None
  NoCode = NoCode
  Booting = Booting
  Blank = Blank
  Task = {trains, board, trip}
  KindOf <- Kind
  Key = {k1, k2}
  Says <- Rows
  State = {here, there}
  Stations = Stations
  History = History
  connolly = connolly
  tara = tara
  id1 = id1
  id2 = id2
  Station = {connolly, tara}
  StationId = {id1, id2}
  InClass <- Lists
  Stop = {connolly, tara}
  Network = Network
  BoardRow <- BoardRows
  LastTick = 7
  MaxEvents = 2
INVARIANTS TypeOK JourneysRememberWhatIsStored OnlyFailuresLose HistoryIsComplete
PROPERTIES JourneysCatchUp StationsCatchUp
