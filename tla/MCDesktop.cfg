CONSTANTS
    Currencies = {"USD", "XAG"}
    DebugBuild = TRUE
    Offers <- MCOffers
    RateOf <- MCRateOf
    RecentLimit = 1
    Me = me
    Writers = {w1, w2}
    Texts = {short, long}
    TooLong = {long}
    Blank = blank
    MaxMessages = 2
    MaxPairs = 2
    MaxTime = 1
    Paths = {p1, p2}
    Passwords = {"pw"}
    NoPassword = ""
    Addresses = {"x", "y"}
    Forms <- MCForms
    MaxWallets = 2
    MaxRequests = 2
    MaxFunds = 2
    MaxFee = 1
    Nil = Nil
    Slots = 2
    Files <- MCFiles
    Options = {"S"}
    Infos = {"new"}
    Unsaid = "default"
    Tables <- MCTables
    Thumbnail = "thumbnail.jpg"
    NoImage = NoImage
    MaxForms = 2
    MaxListings = 2
    MaxCached = 1
SPECIFICATION DesktopSpec
INVARIANTS
    PageIsRight
    RatesAreAskedAgain
    MessagesReadAsWritten
    
    ListedAsFilled
PROPERTIES
    PairIsAskedFor
CHECK_DEADLOCK FALSE
