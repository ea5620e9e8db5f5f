-------------------------------- MODULE Looks --------------------------------
(***************************************************************************)
(* How the client looks, chosen in the tabs of one browser and kept in its *)
(* localStorage.  Language and theme (preferences.tsx): a tab reads the    *)
(* stored choice once, keeps its own from then on, and the link of a reset *)
(* mail overrides the language while its page is open.  The graphic of one *)
(* account or collection (graphic-preferences.ts): the stored one is read  *)
(* again whenever the browser tells of a change; what the storage refused  *)
(* is kept by the tab.  The picker (graphic-picker.tsx) owns a draft.  The *)
(* width of the sidebar (app-shell.tsx) is stored when a drag ends.        *)
(*                                                                         *)
(* The storage may refuse any write.  A storage event reaches the other    *)
(* tabs later, and a tab whose page shows no graphic does not hear it.     *)
(***************************************************************************)
EXTENDS Integers

CONSTANTS
    Tabs,
    Languages,     \* what can be picked: a language, or a theme, which has no hint
    Device,        \* what the device prefers
    Generated,     \* graphics drawn from a seed
    Icons,         \* graphics of a glyph and a colour
    Default,       \* the generated graphic of the identity
    FirstIcon,     \* the icon a draft begins with
    Widths,
    UsualWidth,
    NoLook,
    MaxNews        \* a bound on the storage events under way to a tab

ASSUME LooksAssumption ==
    /\ Device \in Languages /\ Default \in Generated /\ FirstIcon \in Icons
    /\ UsualWidth \in Widths /\ NoLook \notin Tabs
    /\ Generated \cap Icons = {} /\ NoLook \notin Languages \cup Generated \cup Icons

VARIABLES
    pane,       \* what is looked at: "language", "graphic" or "width"
    picked,     \* the language a tab keeps
    hint,       \* the language of the link whose page a tab shows
    language,   \* the stored language
    mine,       \* history: what a tab was opened with or its user last picked there
    graphic,    \* the stored graphic
    refused,    \* sessionChoices: a graphic of a tab that was not stored
    shown,      \* the graphic a tab shows
    news,       \* the number of storage events that have not reached a tab
    away,       \* the tabs that show no graphic
    draft,      \* the draft of a tab's picker
    width,      \* the width of a tab's sidebar
    dragged,    \* the tabs whose sidebar is being dragged
    stored,     \* the stored width
    setter,     \* history: the tab that stored a width last, NoLook once a write was refused
    settled     \* history: the graphic stored last; NoLook once one was refused, or a tab with
                \* a refused one is not told

looksVars == <<pane, picked, hint, language, mine, graphic, refused, shown, news, away, draft, settled,
               width, dragged, stored, setter>>
languageVars == <<picked, hint, language, mine>>
graphicVars == <<graphic, refused, shown, news, away, draft, settled>>
widthVars == <<width, dragged, stored, setter>>

Graphics == Generated \cup Icons
Or(look, default) == IF look = NoLook THEN default ELSE look
Effective(t) == Or(hint[t], picked[t])

\* read, then parseGraphic: what is not a valid choice counts as the default.
Read(t) == Or(Or(refused[t], graphic), Default)

LooksInit ==
    /\ pane \in {"language", "graphic", "width"}
    /\ picked = [t \in Tabs |-> Device] /\ mine = picked
    /\ hint = [t \in Tabs |-> NoLook]
    /\ language = NoLook
    /\ graphic = NoLook /\ settled = Default
    /\ refused = [t \in Tabs |-> NoLook]
    /\ shown = [t \in Tabs |-> Default]
    /\ news = [t \in Tabs |-> 0]
    /\ away = {}
    /\ draft = [t \in Tabs |-> NoLook]
    /\ width = [t \in Tabs |-> UsualWidth] /\ stored = UsualWidth
    /\ dragged = {} /\ setter = NoLook

(***************************************************************************)
(* Language and theme.                                                     *)
(***************************************************************************)
\* setLocale and setTheme.
Pick(t, l) ==
    /\ picked' = [picked EXCEPT ![t] = l]
    /\ mine' = [mine EXCEPT ![t] = l]
    /\ hint' = [hint EXCEPT ![t] = NoLook]
    /\ language' \in {l, language}

\* The page of a reset link is opened: its hint, if it has one, overrides the language.
OpenHint(t, h) ==
    /\ hint' = [hint EXCEPT ![t] = h]
    /\ UNCHANGED <<picked, language, mine>>

LeaveLink(t) ==
    /\ hint' = [hint EXCEPT ![t] = NoLook]
    /\ UNCHANGED <<picked, language, mine>>

\* A tab is opened, or reloaded: PreferencesProvider reads what is stored.
ReopenTab(t) ==
    /\ picked' = [picked EXCEPT ![t] = Or(language, Device)]
    /\ mine' = [mine EXCEPT ![t] = Or(language, Device)]
    /\ hint' = [hint EXCEPT ![t] = NoLook]
    /\ UNCHANGED language

\* The buttons of the pages without a session offer every choice, the one of the header
\* the other language (or theme).
ChooseLook(t) == \E l \in Languages : Pick(t, l)
FlipLook(t) == \E l \in Languages \ {Effective(t)} : Pick(t, l)

OnLanguage(t) ==
    /\ pane = "language"
    /\ \/ ChooseLook(t)
       \/ FlipLook(t)
       \/ \E h \in Languages \cup {NoLook} : OpenHint(t, h)
       \/ LeaveLink(t)
       \/ ReopenTab(t)
    /\ UNCHANGED <<pane, graphicVars, widthVars>>

(***************************************************************************)
(* The graphic and its picker.                                             *)
(***************************************************************************)
\* GraphicDialog is opened with what is shown.
OpenPicker(t) ==
    /\ t \notin away /\ draft[t] = NoLook
    /\ draft' = [draft EXCEPT ![t] =
           [selection |-> shown[t],
            generated |-> IF shown[t] \in Generated THEN shown[t] ELSE Default,
            icon |-> IF shown[t] \in Icons THEN shown[t] ELSE FirstIcon]]
    /\ UNCHANGED <<graphic, refused, shown, news, away, settled>>

\* selectGenerated and selectIcon.
SelectGenerated(t, g) == draft' = [draft EXCEPT ![t].selection = g, ![t].generated = g]
SelectIcon(t, i) == draft' = [draft EXCEPT ![t].selection = i, ![t].icon = i]

\* A change of the mode takes up the other draft.
SwitchMode(t) ==
    IF draft[t].selection \in Icons THEN SelectGenerated(t, draft[t].generated)
    ELSE SelectIcon(t, draft[t].icon)
ResetDraft(t) == SelectGenerated(t, Default)

Select(t) ==
    /\ draft[t] # NoLook
    /\ \/ \E g \in Generated : draft[t].selection \in Generated /\ SelectGenerated(t, g)
       \/ \E i \in Icons : draft[t].selection \in Icons /\ SelectIcon(t, i)
       \/ SwitchMode(t)
       \/ ResetDraft(t)
    /\ UNCHANGED <<graphic, refused, shown, news, away, settled>>

ClosePicker(t) ==
    /\ draft[t] # NoLook
    /\ draft' = [draft EXCEPT ![t] = NoLook]
    /\ UNCHANGED <<graphic, refused, shown, news, away, settled>>

\* setChoice: the draft is stored, and the other tabs are told if that changes anything.
Spent(t) == [refused EXCEPT ![t] = NoLook]
Confirm(t) ==
    /\ draft[t] # NoLook
    /\ LET g == draft[t].selection IN
       /\ graphic' = g
       /\ refused' = Spent(t)
       /\ \A s \in Tabs : news[s] < MaxNews
       /\ news' = [s \in Tabs |-> IF s # t /\ g # graphic THEN news[s] + 1 ELSE news[s]]
       /\ shown' = [shown EXCEPT ![t] = Or(refused'[t], g)]
       /\ settled' = IF g = graphic /\ refused' # [s \in Tabs |-> NoLook] THEN NoLook ELSE g
    /\ draft' = [draft EXCEPT ![t] = NoLook]
    /\ UNCHANGED away

\* setChoice: the storage refuses.
ConfirmRefused(t) ==
    /\ draft[t] # NoLook
    /\ refused' = [refused EXCEPT ![t] = draft[t].selection]
    /\ shown' = [shown EXCEPT ![t] = draft[t].selection]
    /\ draft' = [draft EXCEPT ![t] = NoLook]
    /\ settled' = NoLook
    /\ UNCHANGED <<graphic, news, away>>

\* Faulty: the refused graphic is kept.
FaultyForgets(t) == refused

\* changed: a storage event arrives.
Forgets(t) == [refused EXCEPT ![t] = NoLook]
Hear(t) ==
    /\ news[t] > 0
    /\ news' = [news EXCEPT ![t] = @ - 1]
    /\ IF t \in away
       THEN /\ settled' = IF refused[t] = NoLook THEN settled ELSE NoLook
            /\ UNCHANGED <<refused, shown>>
       ELSE /\ refused' = Forgets(t)
            /\ shown' = [shown EXCEPT ![t] = Or(Or(refused'[t], graphic), Default)]
            /\ UNCHANGED settled
    /\ UNCHANGED <<graphic, away, draft>>

\* A page without the graphic, and back: the listeners go and come.
Leave(t) ==
    /\ t \notin away
    /\ away' = away \cup {t}
    /\ draft' = [draft EXCEPT ![t] = NoLook]
    /\ UNCHANGED <<graphic, refused, shown, news, settled>>

Return(t) ==
    /\ t \in away
    /\ away' = away \ {t}
    /\ shown' = [shown EXCEPT ![t] = Read(t)]
    /\ UNCHANGED <<graphic, refused, news, draft, settled>>

OnGraphic(t) ==
    /\ pane = "graphic"
    /\ \/ OpenPicker(t)
       \/ Select(t)
       \/ ClosePicker(t)
       \/ Confirm(t)
       \/ ConfirmRefused(t)
       \/ Hear(t)
       \/ Leave(t)
       \/ Return(t)
    /\ UNCHANGED <<pane, languageVars, widthVars>>

(***************************************************************************)
(* The width of the sidebar.                                               *)
(***************************************************************************)
\* updateWidth with persist: what is shown is stored, or the storage refuses.
Persist(t, w) ==
    /\ width' = [width EXCEPT ![t] = w]
    /\ \/ stored' = w /\ setter' = t
       \/ stored' = stored /\ setter' = NoLook

\* A key or a double click on the separator.
NudgeEdge(t) ==
    /\ \E w \in Widths : Persist(t, w)
    /\ UNCHANGED dragged

DragEdge(t) ==
    /\ \E w \in Widths : width' = [width EXCEPT ![t] = w]
    /\ dragged' = dragged \cup {t}
    /\ UNCHANGED <<stored, setter>>

\* finishResize: the pointer is released or lost, or the window loses the focus.
DropEdge(t) ==
    /\ t \in dragged
    /\ dragged' = dragged \ {t}
    /\ Persist(t, width[t])

\* savedWidth.
ReopenAtWidth(t) ==
    /\ width' = [width EXCEPT ![t] = stored]
    /\ dragged' = dragged \ {t}
    /\ UNCHANGED <<stored, setter>>

OnWidth(t) ==
    /\ pane = "width"
    /\ \/ NudgeEdge(t)
       \/ DragEdge(t)
       \/ DropEdge(t)
       \/ ReopenAtWidth(t)
    /\ UNCHANGED <<pane, languageVars, graphicVars>>

LooksNext == \E t \in Tabs : OnLanguage(t) \/ OnGraphic(t) \/ OnWidth(t)

(***************************************************************************)
(* Properties.                                                             *)
(***************************************************************************)
\* Without a link's page a tab shows what its user last picked there, or what it was opened
\* with; a link changes neither that nor what is stored.
PicksWin == \A t \in Tabs : picked[t] = mine[t] /\ (hint[t] = NoLook => Effective(t) = mine[t])

\* What was stored last is shown by every tab that shows the graphic once all have heard of
\* it, unless a tab has had a choice refused since, or had one refused and is not told: it
\* shows no graphic then, or what was stored was stored already (sessionChoices of
\* graphic-preferences.ts).
LatestShown ==
    (settled # NoLook /\ \A t \in Tabs : news[t] = 0) =>
        \A t \in Tabs \ away : shown[t] = settled

\* No drag ends without its width being stored, however it ends.
WidthIsStored == setter # NoLook /\ setter \notin dragged => stored = width[setter]

\* What is chosen holds: in its tab, in the others, and for the tabs that are opened later.
LooksHold == PicksWin /\ LatestShown /\ WidthIsStored
=============================================================================
