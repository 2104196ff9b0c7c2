CONSTANTS
    r1 = r1
    r2 = r2
    Packages = {1, 2, 3, 4, 5}
    Begins <- MCBegins
    Below <- MCBelow
    Repos = {r1, r2}
    AnyRepo = AnyRepo
    FirstRows <- MCFirstRows
    Changes <- MCChanges
    Removals <- MCRemovals
    Queries <- MCQueries
    PageSize = 1
    MaxNotes = 3
    Paths = {1, 2, 3}
    LinkGraphs <- MCLinkGraphs
    Arguments <- MCArguments
    StdLib = {3}
    Unit = 864
    Damping <- MCDamping
    Iterations = 2
    Scales = {1, 3}
    SourcesOf <- MCSourcesOf
    Domains = {1, 2, 3}
    NameBegins <- MCNameBegins
    NonPackages = {8}
    Checkouts <- MCCheckouts
    RepoPrefix <- MCRepoPrefix
    LoadOptions <- MCLoadOptions
    GitHosts = {1}
    GitHub = 1
    GoPkg = 2
    WithoutExt <- MCWithoutExt
    GoUser <- MCGoUser
    GitTargets <- MCTargets
    Sites <- MCSites
    Asked <- MCAsked
    Inputs <- MCInputs
    Repository = {"6", "7", "9"}
    AnswersTo <- MCAnswersTo
    InDatabase = {"7"}
    NumWorkers = 2
    Listings <- MCListings
    Words = {"host", "user", "path"}
    Located <- MCLocated
    Histories <- MCHistories
    Jobs <- AllJobs
SPECIFICATION ProgramsSpec
INVARIANTS ClientTypeOK DeliveredOnce AllDelivered NotesBeforeAnswer PanicsOnGivenUp PackagesNamed ResolvesFirst SkipsCovered ImportsDescribed ClosureExact WeightConserved RanksInScale HeadChosen SpellingsAgree DueInTime
PROPERTIES ClientReturns ProgramsEnd
\* Programs end.
CHECK_DEADLOCK FALSE
