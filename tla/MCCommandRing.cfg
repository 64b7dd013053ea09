CONSTANTS
  SIZE = 6
  POSITIONS = 12
  Commands = {"state", "draw", "kick"}
  UnitsOf <- MCUnitsOf
  NoCommand = "none"
SPECIFICATION Spec
INVARIANTS PositionsInOrder
PROPERTIES KeepsPromise RoomComes
