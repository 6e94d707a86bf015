\* A channel's stream of two chunks through a mailbox of one, an agent's with
\* everything its peer may do to it, and an agent that is closed, twice at most,
\* with and without a factory.
CONSTANTS
  Capacity = 1
  MaxChunks = 2
  MaxCloses = 2
  None = None

SPECIFICATION FairSpec

INVARIANTS
  FamilyTypeOK

PROPERTIES
  ChildIsOwned
  ImplementsContract
  CallbacksEnd

CHECK_DEADLOCK FALSE
