SPECIFICATION Spec
CONSTANTS
  m1 = m1
  m2 = m2
  m3 = m3
  k1 = k1
  Messages = {m1, m2, m3}
  RemoteMsgs = {m3}
  Keys = {k1}
  Requests = {r1, r2, r3}
  NoKey = NoKey
  None = None
  KeyOf <- MCKeyOf
INVARIANTS
  TypeOK
  KeyNamesItsMessage
  AcceptedIsStored
  RetryIsIdempotent
PROPERTY
  ImplementsOutbox
