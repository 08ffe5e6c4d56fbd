SPECIFICATION FairSpec
CONSTANTS
    site = site
    sub = sub
    tld = tld
    lb = lb
    lw = lw
    api = api
    social = social
    games = games
    Domains = {site, sub}
    Parents <- MCParents
    Categories = {social, games}
    NoCategory = NoCategory
    Groups = {1}
    Lists = {lb, lw}
    ListType <- MCListType
    External = {lb}
    FileBlack = {site}
    FileWhite = {sub}
    ApiCalls = {}
    Listener = Listener
    Updater = Updater
    InitialLists <- MCInitialLists
    InitialPolicies <- MCInitialPolicies
    Asked = {sub}
    MaxChanges = 1
INVARIANT
    WhitelistPriority
