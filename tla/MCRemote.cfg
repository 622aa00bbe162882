CONSTANTS
    ParentFlagChoices <- MCParentFlags
    OpenFlagChoices <- MCOpenFlags
SPECIFICATION Spec
INVARIANT TypeOK
INVARIANT ForwardedWithinParentRights
