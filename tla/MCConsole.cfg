\* Lists of three rows read one at a time, two accounts, two reset links, two tabs, one window.
SPECIFICATION Spec
CONSTANTS
    MaxRow = 3
    Failing = {2}
    PageSize = 1
    FewPages = 2
    ManyPages = 2
    Viewers = {u1, u2}
    MaxSubmits = 3
    MaxSaves = 2
    MaxIntents = 3
    MaxShifts = 1
    Users = {u1, u2}
    Nobody = Nobody
    Roles = {"member"}
    MaxLogins = 2
    MaxEvents = 2
    MaxLinks = 2
    Tabs = {t1, t2}
    Languages = {zh, en}
    Device = zh
    Generated = {seed1, seed2}
    Icons = {icon1}
    Default = seed1
    FirstIcon = icon1
    Widths = {usual, wide}
    UsualWidth = usual
    NoLook = NoLook
    MaxNews = 2
    Pages = {home, other}
    HomePage = home
    Outside = Outside
    ErrorPage = ErrorPage
    Blank = Blank
    NoPage = NoPage
    MaxRejections = 2
INVARIANTS PagesContiguous OneEffectPerIntent ShowsOnlyOwn LooksHold WindowIsUsable
PROPERTIES EndIsShown ActsOnWhatWasShown
CHECK_DEADLOCK FALSE
