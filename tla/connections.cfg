CONSTANTS
    one = one
    two = two
    apps = apps
    v1 = v1
    v2 = v2
    robot = robot
    account = account
    None = None
    Worker <- MCWorker
    GroupVersion = {apps}
    Wants <- MCWants
    Schema <- MCSchema
    Upgrade <- MCUpgrade
    RefreshToken = {robot}
    Credentials = {account}
    KeyOf <- MCKeyOf
    Specs <- MCSpecs
    MaxFaults = 2
SPECIFICATION FairSpec
INVARIANTS TypeOK OneClientPerCredentials NobodyStranded
PROPERTIES StoreIsAtomic SourcesConverge ParserNeverGoesBack AnswersAreFresh ParsersConverge
CHECK_DEADLOCK FALSE
