SPECIFICATION Spec
CONSTANTS
  Keys = {k1, k2}
  NoKey = NoKey
  Payloads = {p1}
  Ttl = 2
  MaxEvents = 2
  MaxTime = 2
  Monotonic = FALSE
  MaxMatched = 2
SYMMETRY KeySymmetry
INVARIANTS TypeOK SessionFaithful GoneStaysGone EventsWithinLifetime
PROPERTIES ImplementsPromise
