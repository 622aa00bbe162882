CONSTANTS
    c1 = c1  c2 = c2  c3 = c3
    root = root  sub = sub  leaf = leaf  f = f  nd = nd  nf = nf
    Conn = {c1, c2, c3}
    Nodes = {root, sub, leaf}
    MutableNodes = {root, leaf}
    FileNodes = {f}
    SpareNodes = {}
    HasEntryConstructor = FALSE
    CreateFlagChoices <- MCCreateFlags
    RootNode = root
    Children <- MCChildren
    FileChildren <- MCFileChildren
    HasTokenRegistry = TRUE
    RootFlagChoices <- MCRootFlags
    OpenFlagChoices <- MCOpenFlags
    CloneFlagChoices <- MCCloneFlags
SPECIFICATION TokSpec
INVARIANT NoDirectoryCycle
