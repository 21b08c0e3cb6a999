------------------------------ MODULE TabStore ------------------------------
(***************************************************************************)
(* The tabs of the store of mobile/src/store/useStore.ts and the active    *)
(* one.  zustand runs one action at a time.                                *)
(*                                                                         *)
(* A tab is its id, its screen and its query; title and URL follow from    *)
(* these.  The id is `tab-${Date.now()}`: nothing keeps a clock from       *)
(* giving one value twice, so an id may repeat.  One document stands for   *)
(* all, words are those that encodeURIComponent leaves alone, and the      *)
(* bookmarks screen, which differs from the new-tab page in nothing that   *)
(* matters here, is left out.  So is the rest of the store, which no       *)
(* action on tabs reads: history, bookmarks, logs and the switches of the  *)
(* appearance.                                                             *)
(***************************************************************************)
EXTENDS Integers, Sequences, FiniteSetsExt

CONSTANTS
    Stamps,             \* what `tab-${Date.now()}` can be
    FirstId,            \* 'tab-1', the id of the default tab
    Words,              \* queries that are not empty
    NoQuery,            \* ''
    MaxTabs             \* bound: tabs open at once

ASSUME StoreConstants ==
    /\ FirstId \notin Stamps
    /\ NoQuery \notin Words
    /\ MaxTabs \in Nat \ {0}

VARIABLES tabs, activeTabId

storeVars == <<tabs, activeTabId>>

Ids == Stamps \cup {FirstId}

Queries == Words \cup {NoQuery}
Screens == {"ntp", "search", "document", "admin"}
Tab == [id : Ids, screen : Screens, query : Queries]

\* A URL: cweb://newtab, cweb://search?q=.., cweb://page/.. or cweb://admin.
\* Only that of a search says more than the screen.
Location == [screen : Screens, query : Queries]
Url(tab) == [screen |-> tab.screen,
             query |-> IF tab.screen = "search" THEN tab.query ELSE NoQuery]

TabIds(s) == {s[i].id : i \in DOMAIN s}
FirstWith(s, id) == Min({i \in DOMAIN s : s[i].id = id})
Shown(s, id) == IF id \in TabIds(s) THEN s[FirstWith(s, id)] ELSE s[1]

StoreInit ==
    /\ \E query \in Words :
        tabs = <<[id |-> FirstId, screen |-> "search", query |-> query]>>
    /\ activeTabId = FirstId

-----------------------------------------------------------------------------

\* tabs.map(t => t.id === id ? { ...t, ...updates } : t), where updates holds
\* another screen, and a query or none.
OnScreen(id, screen) ==
    [i \in DOMAIN tabs |->
        IF tabs[i].id = id THEN [tabs[i] EXCEPT !.screen = screen] ELSE tabs[i]]
OnQuery(id, screen, query) ==
    [i \in DOMAIN tabs |->
        IF tabs[i].id = id THEN [id |-> id, screen |-> screen, query |-> query] ELSE tabs[i]]

\* createNewTab: every caller leaves the query empty.
CreateNewTab(id) ==
    /\ Len(tabs) < MaxTabs
    /\ tabs' = Append(tabs, [id |-> id, screen |-> "ntp", query |-> NoQuery])
    /\ activeTabId' = id

\* closeTab of the last tab resets it.
ResetLast(id) ==
    /\ Len(tabs) = 1
    /\ tabs' = OnQuery(id, "ntp", NoQuery)
    /\ UNCHANGED activeTabId

\* The tab that becomes active when the active one goes: its left neighbour,
\* else the first of those that stay.  Max(0, idx - 1), counted from 1 here.
NextActiveOfOld(s, id) ==                    \* a plausible bug: the place in the old list
    tabs[IF FirstWith(tabs, id) = 1 THEN 1 ELSE FirstWith(tabs, id) - 1].id
NextActive(s, id) == s[Max({1, FirstWith(tabs, id) - 1})].id

\* tabs.filter(t => t.id !== id), tab by tab.
Filtered(s, id) ==
    LET kept[i \in 0 .. Len(s)] ==
            IF i = 0 THEN <<>>
            ELSE IF s[i].id = id THEN kept[i - 1]
            ELSE Append(kept[i - 1], s[i])
    IN  kept[Len(s)]

\* closeTab.  When every tab has this id nothing stays, and reading the id of
\* the next active tab throws before the store is set.
CloseTab(id) ==
    LET filtered == Filtered(tabs, id) IN
    \/ ResetLast(id)
    \/ /\ Len(tabs) > 1 /\ filtered # <<>>
       /\ tabs' = filtered
       /\ activeTabId' = IF activeTabId = id THEN NextActive(filtered, id) ELSE activeTabId

SwitchTab(id) ==
    /\ activeTabId' = id
    /\ UNCHANGED tabs

\* updateActiveTab, as its callers use it: another screen, the query stays.
UpdateActiveTab(screen) ==
    /\ tabs' = OnScreen(activeTabId, screen)
    /\ UNCHANGED activeTabId

OpenDocumentInActiveTab ==
    /\ tabs' = OnScreen(activeTabId, "document")
    /\ UNCHANGED activeTabId

PerformSearchInActiveTab(query) ==
    /\ tabs' = OnQuery(activeTabId, "search", query)
    /\ UNCHANGED activeTabId

-----------------------------------------------------------------------------

StoreTypeOK == tabs \in Seq(Tab) /\ activeTabId \in Ids

\* There is always a tab, and the active one is among the tabs, also when two
\* of them were given one id (createNewTab and closeTab).
TabsSound == tabs # <<>> /\ activeTabId \in TabIds(tabs)
=============================================================================
