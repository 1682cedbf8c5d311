SPECIFICATION HandlingSpec
CONSTANTS
    HeaderLen = 2
    Wrap = 6
    Types = {ty}
    DefaultType = octets
    None = None
    MaxSections = 2
    Clients <- MCClients
    Cookies = {"s1", "s2", "s3"}
    Owner <- MCOwner
    FirstJar <- MCFirstJar
    Names <- MCNames
    HtmlNames <- MCHtmlNames
    DriveUrl <- MCDriveUrl
    DrivePaths <- MCDrivePaths
    InitialTrees <- MCTrees
    MaxRequests = 2
    MaxChanges = 1
INVARIANTS
    TypeOK
    AnswerIsOfTheWholeRequest
    SectionsAreRead
    PageShowsItsReader
    ClearedCookieIsDead
    ListingIsSnapshot
    LinksLeadBack
PROPERTIES
    WholeRequestIsAnswered
    RedirectsEnd
CHECK_DEADLOCK FALSE
