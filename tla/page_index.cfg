SPECIFICATION FairSpec
CHECK_DEADLOCK FALSE
CONSTANTS
    Scripts = {"dialogs", "tips", "fields", "visit", "engine", "waves", "lists"}
    Modals = {"incident", "empty", "subscribe"}
    TabLinks <- MCTabLinks
    Active <- MCActive
    Senders = {"incident", "empty"}
    Together <- MCTogether
    Fragments = {"none", "message-2"}
    FormDialog = "subscribe"
    FormTab = 2
    Emails <- MCEmails
    Addresses <- MCAddresses
    MaxCalls = 2
    Tips = {"edit", "delete"}
    TextFields = {"content", "end-date"}
    TextAreas = {"content"}
    Hidden = {}
    Placeholders = {}
    Texts <- MCTexts
    Rows = 2
    ZoneData <- MCZoneData
    LinkData <- MCLinkData
    ShortNames = {"utc"}
    MonthLength = 2
    Forever = 100000
    Browsers <- MCBrowsers
    Stale = {"a"}
    MaxPages = 2
    Targets = {"modal", "list"}
    Motions = {"in", "out"}
    Duration = 2
    Delays = {1, 3}
    MaxStarts = 4
    Ripplers = {"send", "close"}
    MaxRipples = 2
    MarkViews <- MCViews
INVARIANTS TypeOK DialogsHonest FormHonest   
PROPERTIES PageSettles ImplementsAnimations
