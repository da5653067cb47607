SPECIFICATION Spec
CONSTANTS
  None = None
  Messages = {m1}
  Texts = {hello, sorry}
  Handlers = {h1, h2}
  Attempts = 2
  MaxFailures = 2
SYMMETRY Symmetry
INVARIANTS TypeOK PublishedOnce NothingDropped
PROPERTIES NoneAbandoned ImplementsDeadLetters OnlyBetweenSections
