------------------------------ MODULE Console ------------------------------
(***************************************************************************)
(* The client, a part at a time: a list (Lists), a page that asks for      *)
(* something to be done (Intents), a page on the way into or out of a      *)
(* session (Entry), how tabs look (Looks), and the window of the desktop   *)
(* shell around them (Desktop).  They share no state with each other, so   *)
(* each is a behaviour of its own.  The editor of documents is in Editor.  *)
(***************************************************************************)
EXTENDS Lists, Intents, Entry, Looks, Desktop

VARIABLE place      \* the part: "list", "intent", "entry", "looks" or "desktop"

vars == <<place, listVars, intentVars, entryVars, looksVars, desktopVars>>

Init ==
    /\ place \in {"list", "intent", "entry", "looks", "desktop"}
    /\ ListsInit /\ (place # "list" => panel = History /\ \A i \in Id : rows[i] = "unborn")
    /\ IntentsInit /\ (place # "intent" => kind = DeleteResource)
    /\ EntryInit /\ (place # "entry" => cookie.user = Owner)
    /\ LooksInit /\ (place # "looks" => pane = "language")
    /\ DesktopInit

\* What a step of a list leaves alone.
OthersRest == UNCHANGED <<place, intentVars, entryVars, looksVars, desktopVars>>

OnList == place = "list" /\ ListsNext /\ OthersRest
OnIntent ==
    /\ place = "intent" /\ IntentsNext
    /\ UNCHANGED <<place, listVars, entryVars, looksVars, desktopVars>>
OnEntry ==
    /\ place = "entry" /\ EntryNext
    /\ UNCHANGED <<place, listVars, intentVars, looksVars, desktopVars>>
OnLooks ==
    /\ place = "looks" /\ LooksNext
    /\ UNCHANGED <<place, listVars, intentVars, entryVars, desktopVars>>
OnDesktop ==
    /\ place = "desktop" /\ DesktopNext
    /\ UNCHANGED <<place, listVars, intentVars, entryVars, looksVars>>

Next == OnList \/ OnIntent \/ OnEntry \/ OnLooks \/ OnDesktop

\* The interval of a polling list fires, and the server answers or the request fails
\* in time (the transport gives up on what is lost).
Spec ==
    /\ Init
    /\ [][Next]_vars
    /\ WF_vars(place = "list" /\ Poll /\ OthersRest)
    /\ WF_vars(place = "list" /\ (Answer \/ FurtherArrives \/ PageArrives) /\ OthersRest)

\* What a page shows, opens or does is of the resource on screen and of the account and the
\* link it is there for, whoever the browser belonged to when it was asked for.
ShowsOnlyOwn == ShowsOwn /\ EntryIsCurrent
=============================================================================
