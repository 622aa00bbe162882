CONSTANTS
    c1 = c1  c2 = c2  c3 = c3
    root = root  sub = sub  leaf = leaf  f = f  nd = nd  nf = nf
    Conn = {c1, c2}
    Nodes = {root, sub, nd}
    MutableNodes = {root, nd}
    FileNodes = {f, nf}
    SpareNodes = {nd, nf}
    HasEntryConstructor = TRUE
    CreateFlagChoices <- MCCreateFlags
    RootNode = root
    Children <- MCCreateChildren
    FileChildren <- MCFileChildren
    HasTokenRegistry = TRUE
    RootFlagChoices <- MCRootFlags
    OpenFlagChoices <- MCOpenFlags
    CloneFlagChoices <- MCCloneFlags
SPECIFICATION TokSpec
INVARIANT TokTypeOK
INVARIANT RightsNeverEscalate
INVARIANT DirectoryHasOneParent
PROPERTY UnlinkOnlyWithGrantedWrite
PROPERTY ImmutableEntriesNeverChange
PROPERTY GainOnlyWithGrantedWrite
PROPERTY ImmutableServingEndsAfterShutdown
