\* Three placements and one cancellation of two users at once, at two prices.
SPECIFICATION Spec
CONSTANTS
  Placements = {p1, p2, p3}
  Cancels = {c1}
  Traders = {u1, u2}
  Requests <- Asked
SYMMETRY Alike
INVARIANTS
  CrossNeedsOverlap
  LocksMatchBook
