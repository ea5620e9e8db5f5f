\* The comment on did-navigate, against a router that moves within a document.
SPECIFICATION DesktopSpec
CONSTANTS
    Pages = {home, other}
    HomePage = home
    Outside = Outside
    ErrorPage = ErrorPage
    Blank = Blank
    NoPage = NoPage
    MaxRejections = 2
INVARIANTS ReturnsToPage
