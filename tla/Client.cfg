SPECIFICATION ClientSpec
CONSTANTS
    TabWidths = {4, 7}
    BarWidths = {5, 11}
    MaxStrip = 3
    Hosts <- MCHosts
    MaxTabs = 2
    MaxAttempts = 2
    Chars = {1, 2}
    MaxText = 3
    Texts <- MCTexts
    Entries <- MCEntries
    ProfileOptions <- MCProfiles
    VaultOptions <- MCVault
    MaxEdits = 1
    MaxTurns = 2
    Files <- MCFiles
    Root = "root"
    Stem <- MCStem
    Dir <- MCDir
    HostNames = {1, 2}
    FolderNames = {3, 4, 5}
    NameKeys = {5}
    Versions <- MCVersions
    MaxIncludes = 1
    MaxNodes = 4
    MaxOutside = 2
    MaxCommits = 1
    Trees <- MCTrees
    Queries <- MCQueries
    Strict <- MCStrict
    Fuzzy <- MCFuzzy
    Heights = {1, 3}
    Tokens <- MCTokens
    Book <- MCBook
    MaxArgs = 4
    MaxChanges = 2
INVARIANTS
    SelectedTabShown OneModal PromptsKeepTheirTab NoLiveSessionDropped VaultUsedByConsent
    EditsLikeReference UnchangedEntrySurvives QuietMeansCurrent UserOptionsWin NoSilentFallback
PROPERTIES
    SyncedEditsLoad OnlyWhatWasShownGoes EditsKeepTheRest ReloadKeepsPlace
CHECK_DEADLOCK FALSE
