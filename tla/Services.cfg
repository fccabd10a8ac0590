CONSTANTS
    Unknown = Unknown
    None = None
    MayFail = TRUE
    MayMissList = FALSE
    Users = {"o", "m", "x"}
    Sessions = {"so", "sm"}
    UserOf <- TheUser
    GroupNames = {"g"}
    GroupsOf <- TheGroups
    Asked = {0, 1, 2}
    Careful = TRUE
    MaxShared = 1
    Owners = {"o"}
    TableNames = {"a", "b"}
    Pods = {"p"}
    TablesOf <- TheTables
    MaxContents = 2
    MaxKeys = 3
    UserNames = {"n"}
    Addresses = {"a1", "a2"}
    Passwords = {"p1", "p2"}
    Signatures = {"w"}
    Logins = {"s"}
    Calls = {1, 2}
    Lite = TRUE
    Ids = {"i1", "i2"}
    FieldValues = {"a", "ab"}
    Tested = {"id", "kind"}
    Behind <- TheOrder
    Matches <- TheMatches
    Simple = {"kind"}
    Others = {"tags"}
    Docs <- TheDocs
    Distinct = TRUE
    MayRefuse = TRUE
    MaxRefs = 3
    BlockSize = 3
    MaxSize = 8
    MaxNames = 3
    Slots = 2
    MaxOld = 2
SPECIFICATION Spec
INVARIANTS PermissionsAsGiven GrantsInForce AccountsAreTheirOwners
INVARIANTS   LinesAreFound ListsEveryName
PROPERTIES OpensAsGiven ListingReturns
CHECK_DEADLOCK FALSE
