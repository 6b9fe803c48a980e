\* Calls of two users about two activities overlap as long as none cross.
SPECIFICATION OrderlySpec
CONSTANTS
  Users <- MCUsers
  ActiveUsers <- MCUsers
  Activities = {hiking, tennis}
  RequestIds = {r1, r2, r3}
  Handlers = {h1, h2}
  None = None
SYMMETRY Symmetry
PROPERTIES
  KeepsPromise
