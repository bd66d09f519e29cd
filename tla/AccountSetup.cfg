\* A tab, two players and an administrator, and another tab beside it.
SPECIFICATION FromSome
CONSTANTS
    Nobody = Nobody
    ann = ann
    bob = bob
    root = root
    Users = {ann, bob, root}
    Role <- Roles
    AppPages = {"/overview"}
    TourSteps <- Tours
    StartPages = {"/overview"}
    MaxEvents = 2
INVARIANT OnlyReadyPlayersPlay
INVARIANT ActiveCompanyIsOwn
PROPERTY NavigationSettles
