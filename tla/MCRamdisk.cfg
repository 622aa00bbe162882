\* Four clients, each created, used, and destroyed or dropped.
CONSTANTS
  r1 = r1  r2 = r2  r3 = r3  r4 = r4
  Clients = {r1, r2, r3, r4}
SPECIFICATION Spec
INVARIANT TypeOK
\* A client value is used once: when all four are gone the program has
\* nothing left to do, which is its end and not a deadlock.
CHECK_DEADLOCK FALSE
