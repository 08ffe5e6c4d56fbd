SPECIFICATION Spec
CONSTANTS
    ip1 = ip1
    l1 = l1
    l2 = l2
    a1 = a1
    a2 = a2
    net24 = net24
    net32 = net32
    None = None
    IPs = {ip1}
    CIDRs = {net24, net32}
    Covers <- MCCovers
    Prefix <- MCPrefix
    Groups = {1, 2, 3}
    DefaultGroup = 1
    Users = {1, 2}
    UserGroup <- MCUserGroup
    Logins = {l1, l2}
    Requests = {a1, a2}
    Rows <- MCRows
    InitialTable <- MCInitialTable
    TTL = 1
    MaxNow = 2
    MaxChanges = 2
INVARIANT
    MostSpecificFirst
