\* Loyalty, reminders, imports, set-up, accounts, sign-in and pictures, one moving in each behaviour.
CONSTANTS
    None = None
    Workers = {w1, w2}
    Bookings = {b1, b2}
    Customers = {c1, c2}
    Limits = {1}
    PerCustomer = 1
    Rounds = {1, 2}
    Dates = {2, 3}
    Leads = {1, 2}
    Horizon = 2
    MaxAccidents = 1
    Services = {s1}
    Slots = {t1}
    Names = {n1, n2}
    Contacts = {None, x1}
    Rows <- MCRows
    MaxImports = 2
    Garages = {g1, g2}
    Numbers = {n1}
    Subaccounts = {a1, a2}
    Senders = {n1, n2}
    MaxEdits = 1
    Emails = {o1, o2}
    MaxBusinesses = 2
    MaxAccounts = 2
    Businesses = {g1, g2}
    Merchants = {q1, q2}
    MaxCodes = 2
    MaxTokens = 3
    MaxNews = 1
    MaxTime = 2
    MaxEnds = 2
    MaxLinks = 2
    Pictures = {u1, u2}
    Media = {v1}
SPECIFICATION MCSpec
SYMMETRY Alike
CONSTRAINT ThreeTokensForOne
CHECK_DEADLOCK FALSE
INVARIANTS NothingIsMixedUp ChannelsTellTheTruth BusinessesAreSound  SignInsEnd
           PicturesAreKept
PROPERTIES CodesAreRespected NothingIsRepeated ConnectionsKeepWorking
