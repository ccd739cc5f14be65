SPECIFICATION BootSpec
CONSTANTS
    Ids = {n1, n2}
    NoId = NoId
    Invalid = Invalid
    Main = Main
    Builder = Builder
    Handlers = {h1}
    MaxChanges = 3
    Rows = {1, 2, 3, 4}
    RowKey <- MCRowKey
    RowUpdated <- MCRowUpdated
INVARIANTS
    OneIdentity
    BeatsAreRegistered
    ServesMigrated
    NewestSurvives
PROPERTY EventuallyRegistered
