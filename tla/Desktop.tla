------------------------------- MODULE Desktop -------------------------------
(***************************************************************************)
(* The window of the desktop shell (apps/desktop/src/main.ts): the web     *)
(* entry is loaded into it, deep links and reconnects load again, and the  *)
(* local error page takes over when a load fails or the renderer dies.     *)
(*                                                                         *)
(* Of Electron: a load that another one replaces is aborted, and the       *)
(* promise of loadURL is then rejected; its handler runs later.  The       *)
(* did-navigate event is for documents; a router that moves within one     *)
(* (history.pushState) does not cause it.                                  *)
(***************************************************************************)
EXTENDS Integers

CONSTANTS
    Pages,           \* the pages of the app
    Outside,         \* a page of another origin, or a link of another form
    HomePage,
    ErrorPage, Blank, NoPage,
    MaxRejections    \* a bound on the handlers that have not run

ASSUME DesktopAssumption ==
    /\ HomePage \in Pages
    /\ {Outside, ErrorPage, Blank, NoPage} \cap Pages = {}
    /\ ErrorPage # Blank /\ NoPage \notin {ErrorPage, Blank}

VARIABLES
    document,   \* what the window was loaded with, NoPage without a window
    address,    \* history: the page of the app last asked for or reached
    loading,    \* what is being loaded
    watched,    \* whether the promise of a loadURL is open
    rejections, \* rejected promises whose handler has not run
    goal        \* currentTarget

desktopVars == <<document, address, loading, watched, rejections, goal>>

Open == document # NoPage
Settled == Open /\ loading = NoPage /\ rejections = 0

DesktopInit ==
    /\ document = NoPage /\ loading = NoPage
    /\ address = HomePage /\ goal = HomePage
    /\ watched = FALSE /\ rejections = 0

\* parseDeepLink, and isAppOrigin of will-navigate: what they refuse, the window does not load.
InApp(page) == page \in Pages
SameOrigin(page) == page \in Pages

\* A load begins; what it replaces is aborted.
Load(page, promised) ==
    /\ loading' = page
    /\ watched' = promised
    /\ rejections' = rejections + (IF watched THEN 1 ELSE 0)

\* loadFile, whose own rejection is ignored.
ShowErrorPage == Load(ErrorPage, FALSE)

\* createWindow: the app is started.
Launch ==
    /\ ~Open
    /\ document' = Blank
    /\ goal' = HomePage /\ address' = HomePage
    /\ Load(HomePage, TRUE)

\* focusOrCreate with the path of a deep link.
FollowLink(page) ==
    /\ Open /\ InApp(page) /\ rejections < MaxRejections
    /\ goal' = page /\ address' = page
    /\ Load(page, TRUE)
    /\ UNCHANGED document

\* retryLoad: the button of the error page.
Reconnect ==
    /\ document = ErrorPage /\ rejections < MaxRejections
    /\ Load(goal, TRUE)
    /\ UNCHANGED <<document, address, goal>>

\* The page loads a document of its own accord: a reload, a link the router does not serve.
Navigate(page) ==
    /\ document \in Pages /\ SameOrigin(page) /\ rejections < MaxRejections
    /\ Load(page, FALSE)
    /\ UNCHANGED <<document, address, goal>>

\* The router moves to another page of the app.
MoveWithin(page) ==
    /\ document \in Pages /\ loading = NoPage
    /\ address' = page
    /\ UNCHANGED <<document, loading, watched, rejections, goal>>

\* did-navigate: the document is there.  The promise is kept once it has loaded altogether.
Tracked(page) == IF page \in Pages THEN page ELSE goal
Commit ==
    /\ loading # NoPage
    /\ document' = loading
    /\ address' = IF loading \in Pages THEN loading ELSE address
    /\ goal' = Tracked(loading)
    /\ loading' = NoPage
    /\ UNCHANGED <<watched, rejections>>

FinishLoad ==
    /\ watched /\ loading = NoPage
    /\ watched' = FALSE
    /\ UNCHANGED <<document, address, loading, rejections, goal>>

\* Faulty: the error page is left to the promise.
FaultyAfterFailure == loading' = NoPage /\ watched' = FALSE /\ UNCHANGED rejections

\* did-fail-load with a real failure of the main frame.
AfterFailure == ShowErrorPage
FailLoad ==
    /\ loading \in Pages
    /\ document' = Blank
    /\ AfterFailure
    /\ UNCHANGED <<address, goal>>

\* The catch of a loadURL.
HandleRejection ==
    /\ rejections > 0
    /\ loading' = ErrorPage
    /\ watched' = FALSE
    /\ rejections' = rejections - 1 + (IF watched THEN 1 ELSE 0)
    /\ UNCHANGED <<document, address, goal>>

\* render-process-gone.
LoseRenderer ==
    /\ Open /\ rejections < MaxRejections
    /\ document' = Blank
    /\ ShowErrorPage
    /\ UNCHANGED <<address, goal>>

\* The only window is closed, and the app quits.
CloseWindow ==
    /\ Open
    /\ document' = NoPage /\ loading' = NoPage /\ watched' = FALSE /\ rejections' = 0
    /\ UNCHANGED <<address, goal>>

DesktopNext ==
    \/ Launch
    \/ \E page \in Pages \cup {Outside} : FollowLink(page) \/ Navigate(page)
    \/ \E page \in Pages : MoveWithin(page)
    \/ Reconnect
    \/ Commit
    \/ FinishLoad
    \/ FailLoad
    \/ HandleRejection
    \/ LoseRenderer
    \/ CloseWindow

DesktopSpec == DesktopInit /\ [][DesktopNext]_desktopVars

(***************************************************************************)
(* Properties.                                                             *)
(***************************************************************************)
\* Whatever loads, failures and crashes went before, a window that has settled shows the app,
\* and a reconnect would load the document it shows, or it shows the error page: it is never
\* left blank (registerWebContents).
WindowIsUsable ==
    Settled => document = ErrorPage \/ (document \in Pages /\ goal = document)

\* What a comment says of did-navigate (main.ts): "Track in-app navigation so retry returns
\* to the page the user was on".
ReturnsToPage == document = ErrorPage => goal = address
=============================================================================
