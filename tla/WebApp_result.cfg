\* A result cached after its connection was cleared.
SPECIFICATION RecordedSpec
CONSTANTS
  Workers = {w1, w2, w3}
  Params = {p1, p2}
  Queries = {q1}
  Untimed = {}
  None = None
SYMMETRY Symmetry
INVARIANTS
  NoResultAfterDisconnect
