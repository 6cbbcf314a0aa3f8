SPECIFICATION FairSpec
CONSTANTS
    Names = {a, b}
    Handlers = {h}
    EditsDuringSave = FALSE
    MaxEdits = 4
INVARIANTS TypeOK NoFreedRead OneService NameIsAdvertised SettingsKept
PROPERTIES NameSettles
CHECK_DEADLOCK FALSE
