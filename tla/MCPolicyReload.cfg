SPECIFICATION FairSpec
CONSTANTS
    site = site
    sub = sub
    tld = tld
    lb = lb
    lw = lw
    api = api
    social = social
    games = games
    Domains = {site, sub}
    Parents <- MCParents
    Categories = {social, games}
    NoCategory = NoCategory
    Groups = {1}
    Lists = {lb, lw}
    ListType <- MCListType
    External = {lb}
    FileBlack = {site}
    FileWhite = {sub}
    ApiCalls = {api}
    Listener = Listener
    Updater = Updater
    InitialLists <- MCInitialLists
    InitialPolicies <- MCInitialPolicies
    Asked = {}
    MaxChanges = 2
INVARIANTS
    TypeOK
    CoveredIsInSync
    DeletedStaysEmpty
PROPERTY
    EventuallyInSync
