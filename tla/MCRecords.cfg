CONSTANTS
    Commands = {b1, b2}
    Tiers = {L3}
    Versions = {1, 2}
    Gone = Gone
    Zero = Zero
    MaxEdits = 1

    Names = {"f"}
    Letters = {"a", "b"}
    Texts <- MCTexts
    NoFile = NoFile
    Ids = {"submit"}
    MaxEvents = 4
    MaxChanges = 2
    MaxSnapshots = 2

    Evaluators = {e1, e2}
    Models = {m1, m2}
    Routed = {m1}
    NoModel = NoModel
    NoRubric = NoRubric
    Variant <- MCVariant
    MaxDocEdits = 3

    Categories <- MCCategories
    Keys <- MCKeys
    Needs <- MCNeeds
    Bumped <- MCBumped
    LegacyDirs = 1
    OldTars <- MCOldTars
    Cmds = {c1, c2}
    MaxCommands = 2
SPECIFICATION RecordsSpec
SYMMETRY Symmetry
CHECK_DEADLOCK FALSE
INVARIANT StampIsMeasured
INVARIANT FreshIsGreen
INVARIANT SnapshotIsWorkspace
INVARIANT StepsAreTurns
INVARIANT LoadedIsConsistent
INVARIANT RunsOnItsTerms
INVARIANT TierHasTheSay
INVARIANT NoneDropped
INVARIANT SavedIsLoaded
INVARIANT CombinedIsCurrent
