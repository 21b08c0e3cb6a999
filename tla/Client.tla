------------------------------- MODULE Client -------------------------------
(***************************************************************************)
(* The address bar (mobile/src/components/ChromeOmnibox.tsx) and the admin *)
(* screen (screens/AdminStatsScreen.tsx) over the store and the calls.     *)
(*                                                                         *)
(* A user action, the rendering it causes and the effects that run then    *)
(* are one step: React flushes the effects of a discrete event before the  *)
(* next one.  Answers come between user actions, in any order.  A list of  *)
(* suggestions is known by the text it was asked for.                      *)
(***************************************************************************)
EXTENDS TabStore, ClientFetch

CONSTANT NoList                              \* suggestions = []

VARIABLES
    input,              \* inputValue: a location, or what was typed (screen "typed")
    showDropdown,
    suggestions,        \* the text the list was asked for, or NoList
    isRebuilding        \* of the admin screen that is mounted

boxVars == <<input, showDropdown, suggestions>>
vars == <<storeVars, calls, boxVars, isRebuilding>>

ASSUME TextsAreWords == Texts = Words /\ NoText = NoQuery /\ NoList \notin Queries

Typed(query) == [screen |-> "typed", query |-> query]

Init ==
    /\ StoreInit /\ FetchInit
    /\ input = Url(tabs[1]) /\ showDropdown = FALSE /\ suggestions = NoList
    /\ isRebuilding = FALSE

-----------------------------------------------------------------------------
(* The effects of ChromeOmnibox                                            *)

\* The text left of inputValue asks for suggestions.
Wanted(in, show) == show /\ in.screen \in {"typed", "search"} /\ in.query # NoQuery

\* The cleanup of the effect sets cancel for the call it made.
CancelNothing(cs) == cs                      \* a plausible bug: no cancel flag
Cancelled(cs) == Unheard(cs, "/suggest")

\* The effect on [inputValue, showDropdown].
Refresh(in, show, cs) ==
    /\ input' = in /\ showDropdown' = show
    /\ IF <<in, show>> = <<input, showDropdown>>
       THEN calls' = cs /\ UNCHANGED suggestions
       ELSE IF Wanted(in, show)
            THEN /\ Vacant(cs) # {}
                 /\ calls' = Sent(Cancelled(cs), "/suggest", in.query)
                 /\ UNCHANGED suggestions
            ELSE calls' = Cancelled(cs) /\ suggestions' = NoList

\* What follows a change of the store: another tab or URL is copied to the
\* input, and an admin screen that is no longer shown is unmounted, with its
\* state and whoever waited in it.
Rendered(show) ==
    LET before == Shown(tabs, activeTabId)
        after == Shown(tabs', activeTabId')
        moved == activeTabId' # activeTabId \/ Url(after) # Url(before)
        stays == before.screen = "admin" /\ after.screen = "admin"
    IN  /\ Refresh(IF moved THEN Url(after) ELSE input, show,
                   IF stays THEN calls ELSE Unheard(calls, "/index/rebuild"))
        /\ isRebuilding' = (isRebuilding /\ stays)

-----------------------------------------------------------------------------
(* The user                                                                *)

\* handleInputChange, and the button that clears the input.
Type(query) ==
    /\ Typed(query) # input
    /\ Refresh(Typed(query), TRUE, calls)
    /\ UNCHANGED <<storeVars, isRebuilding>>

\* handleFocus; Escape or a click outside.
Focus == ~showDropdown /\ Refresh(input, TRUE, calls) /\ UNCHANGED <<storeVars, isRebuilding>>
Dismiss == showDropdown /\ Refresh(input, FALSE, calls) /\ UNCHANGED <<storeVars, isRebuilding>>

\* executeNavigateOrSearch
Execute(in) ==
    /\ IF in.screen \in {"typed", "search"}
       THEN PerformSearchInActiveTab(in.query)
       ELSE UpdateActiveTab(in.screen)
    /\ Rendered(FALSE)

\* Enter without a selection; a suggestion that is clicked or selected.
Enter == Execute(input)
Choose ==
    /\ showDropdown /\ suggestions # NoList
    /\ \E query \in Words : Execute(Typed(query))

\* Keys and buttons that leave the dropdown open: Ctrl+T, Ctrl+W,
\* Home, Reload.
Shortcut ==
    /\ \/ \E id \in Stamps : CreateNewTab(id)
       \/ CloseTab(activeTabId)
       \/ UpdateActiveTab("ntp")
       \/ LET query == Shown(tabs, activeTabId).query IN
            query # NoQuery /\ PerformSearchInActiveTab(query)
    /\ Rendered(showDropdown)

\* Clicks elsewhere come after the mousedown that closes the dropdown: on a
\* tab or its cross, a result or bookmark, a shortcut, the search box of the
\* new-tab page, Back to Search.
Click ==
    /\ ~showDropdown
    /\ \/ \E id \in TabIds(tabs) : SwitchTab(id) \/ CloseTab(id)
       \/ OpenDocumentInActiveTab
       \/ UpdateActiveTab("admin")
       \/ \E query \in Words : PerformSearchInActiveTab(query)
       \/ Shown(tabs, activeTabId).screen = "document" /\ UpdateActiveTab("search")
    /\ Rendered(FALSE)

\* handleRebuild: the button is disabled while isRebuilding.
Rebuild ==
    /\ ~showDropdown /\ ~isRebuilding
    /\ Shown(tabs, activeTabId).screen = "admin"
    /\ Vacant(calls) # {}
    /\ isRebuilding' = TRUE
    /\ calls' = Sent(calls, "/index/rebuild", NoText)
    /\ UNCHANGED <<storeVars, boxVars>>

-----------------------------------------------------------------------------
(* The answers                                                             *)

AwaitedAny(c, posts) == posts = Posts(calls[c].route)    \* a plausible bug: answers outlive the screen
Awaited(c, posts) == calls[c].heard /\ posts = Posts(calls[c].route)

\* then(..) of the omnibox; the await of handleRebuild and its finally.
Deliver(c) ==
    /\ calls[c].phase = "settled"
    /\ calls' = [calls EXCEPT ![c] = Free]
    /\ suggestions' = IF Awaited(c, FALSE) THEN calls[c].text ELSE suggestions
    /\ isRebuilding' = (isRebuilding /\ ~Awaited(c, TRUE))
    /\ UNCHANGED <<storeVars, input, showDropdown>>

Network == FetchStep /\ UNCHANGED <<storeVars, boxVars, isRebuilding>>

User ==
    \/ \E query \in Queries : Type(query)
    \/ Focus \/ Dismiss \/ Enter \/ Choose \/ Shortcut \/ Click \/ Rebuild

Next == User \/ Network \/ \E c \in Calls : Deliver(c)

Spec == Init /\ [][Next]_vars

-----------------------------------------------------------------------------

\* Types; there is always an active tab, and no call is sent more often than it may.
ClientSound ==
    /\ StoreTypeOK /\ TabsSound /\ FetchTypeOK /\ SentOnce
    /\ input \in Location \cup {Typed(query) : query \in Queries}
    /\ showDropdown \in BOOLEAN
    /\ suggestions \in Words \cup {NoList}
    /\ isRebuilding \in BOOLEAN

\* A call that someone waits for is on its way: the suggestions for the
\* present input, or the rebuild.
Asking(posts) == \E c \in Calls : calls[c].phase # "free" /\ Awaited(c, posts)

\* Once the suggestions for the present input have been answered they are what
\* is listed, whatever older answers come later and whatever tab, URL or
\* dropdown changed meanwhile (ChromeOmnibox.tsx, the effect and its cleanup).
OwnSuggestions ==
    ~Asking(FALSE) => suggestions = IF Wanted(input, showDropdown) THEN input.query ELSE NoList

\* The rebuild button is disabled exactly while the mounted admin screen waits
\* for its request (AdminStatsScreen.tsx).
ButtonMatches == isRebuilding <=> Asking(TRUE)
=============================================================================
