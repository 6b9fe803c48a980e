\* A block that commits while a send and an accept are in flight.
SPECIFICATION Spec
CONSTANTS
  Users <- MCUsers
  ActiveUsers <- MCUsers
  Activities = {hiking}
  RequestIds = {r1, r2}
  Handlers = {h1, h2, h3}
  None = None
SYMMETRY Symmetry
PROPERTIES
  BlockLeavesNothing
