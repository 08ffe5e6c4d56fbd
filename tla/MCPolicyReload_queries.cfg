SPECIFICATION FairSpec
CONSTANTS
    site = site
    sub = sub
    tld = tld
    lb = lb
    lw = lw
    api = api
    social = social
    games = games
    Domains = {site, sub}
    Parents <- MCParents
    Categories = {social, games}
    NoCategory = NoCategory
    Groups = {1}
    Lists = {lb, lw}
    ListType <- MCListType
    External = {lb}
    FileBlack = {sub}
    FileWhite = {sub}
    ApiCalls = {api}
    Listener = Listener
    Updater = Updater
    InitialLists <- MCQueryLists
    InitialPolicies <- MCInitialPolicies
    Asked = {site, sub}
    MaxChanges = 1
INVARIANT
    UndisturbedVerdict
