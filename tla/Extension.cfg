\* The browser: popup, link, page bridge and form page, each on its own.
SPECIFICATION ExtensionSpec
CONSTANTS
    Questions = {"a", "b"}
    Known = {"a"}
    Widgets = {"b"}
    Dropdowns = {"b"}
    Tools = {"ats", "internsg"}
    MaxPreviews = 2
    MaxTurns = 2
    MaxLogins = 2
    MaxGrants = 2
    MaxRequests = 2
    MaxEvents = 2
    GrantLimit = 2
    Blanks = {"n", "r"}
    RichBlanks = {"r"}
    MaxClicks = 2
    MaxChanges = 2
    Accounts = {"A", "B"}
    NoAccount = "nobody"
    NoRecord = NoRecord
    FormFields = {"name", "why"}
    Needed = {"name"}
    Kind <- MCKind
    Mappable = {"name", "why"}
    Fact <- MCFact
    Evidence <- MCEvidence
    MaxSwitches = 2
    MaxSaves = 2
INVARIANTS FillsAreSafe 
PROPERTIES  FillsOnce ExtensionSettles
\* A grant may be used up, a tab forgotten, a form left: the system may stop.
CHECK_DEADLOCK FALSE
