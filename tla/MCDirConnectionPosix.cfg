CONSTANTS
    c1 = c1  c2 = c2  c3 = c3
    root = root  sub = sub  leaf = leaf
    Conn = {c1, c2, c3}
    Nodes = {root, sub, leaf}
    MutableNodes = {root, leaf}
    RootNode = root
    Children <- MCChildren
    RootFlagChoices <- MCRootFlags
    OpenFlagChoices <- MCOpenPosixFlags
    CloneFlagChoices <- MCClonePosixFlags
SPECIFICATION Spec
INVARIANT RightsNeverEscalate
