CONSTANTS
    t1 = t1  t2 = t2  t3 = t3
    dA = dA  dB = dB  dC = dC
    n1 = n1  n2 = n2  e1 = e1  e2 = e2
    Tasks = {t1, t2, t3}
    Dirs = {dA, dB, dC}
    Names = {n1}
    Entries = {e1, e2}
    Address <- MCAddress
    InitDir <- MCInitDir
SPECIFICATION Spec
INVARIANT TypeOK
INVARIANT NoWaitCycle
INVARIANT EntriesConserved
