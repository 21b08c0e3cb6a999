---------------------------- MODULE ClientProofs ----------------------------
(***************************************************************************)
(* Proofs about Client for any tabs, words and number of calls in flight:  *)
(* that there is always an active tab, whose answer the list of            *)
(* suggestions shows, what the rebuild button waits for, and how often a   *)
(* call is sent.                                                           *)
(***************************************************************************)
EXTENDS Client, WellFoundedInduction, TLAPS

\* A call, and what its phase says about its requests and its listener.
Whole(call) ==
    /\ call \in [phase : {"free", "sent", "pause", "settled"}, route : Routes,
                text : {call.text}, retries : 0 .. 1, requests : 0 .. 2, heard : BOOLEAN]
    /\ call.heard => call.phase # "free"
    /\ call.requests + call.retries <= 2
    /\ call.phase = "pause" => call.retries = 1
    /\ Posts(call.route) => call.phase # "pause" /\ call.requests <= 1

\* At most one call of a route is waited for.
Sound(cs) ==
    /\ cs = [c \in Calls |-> cs[c]]
    /\ \A c \in Calls : Whole(cs[c])
    /\ \A c, d \in Calls : cs[c].heard /\ cs[d].heard /\ cs[c].route = cs[d].route => c = d

Hears(cs, route) == \E c \in Calls : cs[c].heard /\ cs[c].route = route

\* The suggestions waited for are those of the input, and without them the list is
\* already the one for the input.
Listens(cs, in, show) ==
    \A c \in Calls : cs[c].heard /\ cs[c].route = "/suggest" =>
        Wanted(in, show) /\ cs[c].text = in.query
Lists(cs, in, show, list) ==
    ~Hears(cs, "/suggest") => list = IF Wanted(in, show) THEN in.query ELSE NoList

BoxInv(cs, in, show, list) == Listens(cs, in, show) /\ Lists(cs, in, show, list)

IndInv ==
    /\ Sound(calls)
    /\ BoxInv(calls, input, showDropdown, suggestions)
    /\ isRebuilding \in BOOLEAN
    /\ isRebuilding <=> Hears(calls, "/index/rebuild")

-----------------------------------------------------------------------------
(* Sending a call, and no longer waiting for one.                           *)

\* A set of numbers that is not empty has a first one.
LEMMA MinIs ==
    ASSUME NEW S \in SUBSET Nat, S # {}
    PROVE  Min(S) \in S /\ \A j \in S : Min(S) <= j
<1>1. \E i \in S : \A j \in S : ~(<<j, i>> \in OpToRel(<, Nat))
    BY NatLessThanWellFounded, WFMin
<1>2. PICK i \in S : \A j \in S : ~(<<j, i>> \in OpToRel(<, Nat))
    BY <1>1
<1>3. \A j \in S : ~(j < i)
    BY <1>2 DEF OpToRel
<1>4. \A j \in S : i <= j
    BY <1>3
<1> QED
    BY <1>4 DEF Min

LEMMA VacantMin ==
    ASSUME NEW cs, Vacant(cs) # {}
    PROVE  Min(Vacant(cs)) \in Vacant(cs)
<1>1. Vacant(cs) \in SUBSET Nat
    BY CallsFinite DEF Vacant
<1> QED
    BY <1>1, MinIs

LEMMA UnheardSound ==
    ASSUME NEW cs, Sound(cs), NEW route \in Routes
    PROVE  LET after == Unheard(cs, route) IN
           /\ Sound(after) /\ ~Hears(after, route)
           /\ Vacant(after) = Vacant(cs)
           /\ \A r \in Routes \ {route} : Hears(after, r) <=> Hears(cs, r)
           /\ \A c \in Calls : after[c].text = cs[c].text
           /\ \A c \in Calls : after[c].heard =>
                cs[c].heard /\ after[c].route = cs[c].route /\ after[c].text = cs[c].text
<1> DEFINE after == Unheard(cs, route)
<1>1. \A c \in Calls :
        after[c] = IF cs[c].route = route THEN [cs[c] EXCEPT !.heard = FALSE] ELSE cs[c]
    BY DEF Unheard
<1>2. after = [c \in Calls |-> after[c]]
    BY DEF Unheard
<1> HIDE DEF after
<1>3. \A c \in Calls :
        /\ Whole(after[c])
        /\ after[c].route = cs[c].route /\ after[c].text = cs[c].text
        /\ after[c].phase = cs[c].phase
        /\ after[c].heard <=> cs[c].heard /\ cs[c].route # route
    BY <1>1 DEF Sound, Whole, Posts
<1>4. Sound(after)
    BY <1>2, <1>3 DEF Sound
<1>5. Vacant(after) = Vacant(cs)
    BY <1>3 DEF Vacant
<1>6. ~Hears(after, route) /\ \A r \in Routes \ {route} : Hears(after, r) <=> Hears(cs, r)
    BY <1>3 DEF Hears
<1> QED
    BY <1>3, <1>4, <1>5, <1>6 DEF after

LEMMA SentSound ==
    ASSUME NEW cs, Sound(cs), Vacant(cs) # {}, NEW route \in Routes, ~Hears(cs, route), NEW text
    PROVE  LET after == Sent(cs, route, text) IN
           /\ Sound(after) /\ Hears(after, route)
           /\ \A r \in Routes \ {route} : Hears(after, r) <=> Hears(cs, r)
           /\ \A c \in Calls : after[c].heard =>
                \/ after[c].route = route /\ after[c].text = text
                \/ after[c] = cs[c]
           /\ \A c \in Calls : after[c].text = text \/ after[c] = cs[c]
<1> DEFINE after == Sent(cs, route, text)
           m == Min(Vacant(cs))
           call == [phase |-> "sent", route |-> route, text |-> text,
                    retries |-> 1, requests |-> 1, heard |-> TRUE]
<1>1. m \in Calls /\ cs[m].phase = "free"
    BY VacantMin DEF Vacant
<1>2. after = [cs EXCEPT ![m] = call]
    BY DEF Sent
<1>3. cs = [c \in Calls |-> cs[c]]
    BY DEF Sound
<1> HIDE DEF m
<1>4. after = [c \in Calls |-> after[c]] /\ after[m] = call
    BY <1>1, <1>2, <1>3
<1>5. \A c \in Calls \ {m} : after[c] = cs[c]
    BY <1>1, <1>2, <1>3
<1> HIDE DEF after
<1>6. Whole(call)
    BY DEF Whole, Posts
<1>7. ~cs[m].heard
    BY <1>1 DEF Sound, Whole
<1>8. \A c, d \in Calls : after[c].heard /\ after[d].heard /\ after[c].route = after[d].route => c = d
    BY <1>4, <1>5 DEF Sound, Hears
<1>9. Sound(after)
    BY <1>4, <1>5, <1>6, <1>8 DEF Sound
<1>10. Hears(after, route)
    BY <1>1, <1>4 DEF Hears
<1>11. \A r \in Routes \ {route} : Hears(after, r) <=> Hears(cs, r)
    BY <1>1, <1>4, <1>5, <1>7 DEF Hears
<1>12. \A c \in Calls :
            (after[c].route = route /\ after[c].text = text) \/ after[c] = cs[c]
    BY <1>4, <1>5
<1> QED
    BY <1>9, <1>10, <1>11, <1>12 DEF after

-----------------------------------------------------------------------------
(* The effects and the actions.                                             *)

LEMMA InitInd == Init => IndInv
<1> SUFFICES ASSUME Init PROVE IndInv
    OBVIOUS
<1>1. calls = [c \in Calls |-> Free]
    BY DEF Init, FetchInit
<1>2. Whole(Free) /\ ~Free.heard
    BY DEF Whole, Free, Routes, Posts
<1>3. calls = [c \in Calls |-> calls[c]] /\ \A c \in Calls : calls[c] = Free
    BY <1>1
<1>4. Sound(calls)
    BY <1>2, <1>3 DEF Sound
<1>5. \A c \in Calls : ~calls[c].heard
    BY <1>2, <1>3
<1>6. BoxInv(calls, input, showDropdown, suggestions)
    BY <1>5 DEF BoxInv, Listens, Lists, Init, Wanted
<1> QED
    BY <1>4, <1>5, <1>6 DEF IndInv, Hears, Init

\* The effect on input and dropdown keeps the list the one for the input.
LEMMA RefreshInd ==
    ASSUME NEW cs, Sound(cs), BoxInv(cs, input, showDropdown, suggestions),
           NEW in, NEW show, Refresh(in, show, cs)
    PROVE  /\ Sound(calls')
           /\ BoxInv(calls', input', showDropdown', suggestions')
           /\ Hears(calls', "/index/rebuild") <=> Hears(cs, "/index/rebuild")
<1>1. input' = in /\ showDropdown' = show
    BY DEF Refresh
<1>2. CASE <<in, show>> = <<input, showDropdown>>
  <2>1. calls' = cs /\ suggestions' = suggestions /\ input' = input /\ showDropdown' = showDropdown
      BY <1>1, <1>2 DEF Refresh
  <2> QED
      BY <2>1
<1> DEFINE quiet == Cancelled(cs)
<1>3. /\ Sound(quiet) /\ ~Hears(quiet, "/suggest") /\ Vacant(quiet) = Vacant(cs)
      /\ Hears(quiet, "/index/rebuild") <=> Hears(cs, "/index/rebuild")
    BY UnheardSound DEF Cancelled, Routes
<1>4. CASE <<in, show>> # <<input, showDropdown>> /\ Wanted(in, show)
  <2> DEFINE after == Sent(quiet, "/suggest", in.query)
  <2>1. Vacant(cs) # {} /\ calls' = after
      BY <1>4 DEF Refresh
  <2> HIDE DEF quiet
  <2>2. /\ Sound(after) /\ Hears(after, "/suggest")
        /\ Hears(after, "/index/rebuild") <=> Hears(quiet, "/index/rebuild")
        /\ \A c \in Calls : after[c].heard =>
                \/ after[c].route = "/suggest" /\ after[c].text = in.query
                \/ after[c] = quiet[c]
      BY <1>3, <2>1, SentSound DEF Routes
  <2> HIDE DEF after
  <2>3. Listens(after, in, show)
      BY <1>3, <1>4, <2>2 DEF Listens, Hears
  <2>4. BoxInv(calls', input', showDropdown', suggestions')
      BY <1>1, <2>1, <2>2, <2>3 DEF BoxInv, Lists
  <2> QED
      BY <1>3, <2>1, <2>2, <2>4
<1>5. CASE <<in, show>> # <<input, showDropdown>> /\ ~Wanted(in, show)
  <2>1. calls' = quiet /\ suggestions' = NoList
      BY <1>5 DEF Refresh
  <2> HIDE DEF quiet
  <2>2. BoxInv(calls', input', showDropdown', suggestions')
      BY <1>1, <1>3, <1>5, <2>1 DEF BoxInv, Lists, Listens, Hears
  <2> QED
      BY <1>3, <2>1, <2>2
<1> QED
    BY <1>2, <1>4, <1>5

LEMMA BoxEvent ==
    ASSUME IndInv, NEW in, NEW show, Refresh(in, show, calls), UNCHANGED isRebuilding
    PROVE  IndInv'
<1>1. /\ Sound(calls') /\ BoxInv(calls', input', showDropdown', suggestions')
      /\ Hears(calls', "/index/rebuild") <=> Hears(calls, "/index/rebuild")
    BY RefreshInd DEF IndInv
<1> QED
    BY <1>1 DEF IndInv

\* Whatever happens to the tabs, the admin screen that goes takes its wait along.
LEMMA RenderedInd ==
    ASSUME IndInv, NEW show, Rendered(show)
    PROVE  IndInv'
<1> DEFINE before == Shown(tabs, activeTabId)
           after == Shown(tabs', activeTabId')
           moved == activeTabId' # activeTabId \/ Url(after) # Url(before)
           stays == before.screen = "admin" /\ after.screen = "admin"
           in == IF moved THEN Url(after) ELSE input
           cs == IF stays THEN calls ELSE Unheard(calls, "/index/rebuild")
<1>1. Refresh(in, show, cs) /\ isRebuilding' = (isRebuilding /\ stays)
    BY DEF Rendered
<1>2. Sound(calls) /\ BoxInv(calls, input, showDropdown, suggestions)
    BY DEF IndInv
<1>3. /\ Sound(cs) /\ BoxInv(cs, input, showDropdown, suggestions)
      /\ Hears(cs, "/index/rebuild") <=> Hears(calls, "/index/rebuild") /\ stays
  <2> HIDE DEF stays
  <2>1. CASE stays
      BY <1>2, <2>1
  <2>2. CASE ~stays
    <3> DEFINE gone == Unheard(calls, "/index/rebuild")
    <3>1. /\ Sound(gone) /\ ~Hears(gone, "/index/rebuild")
          /\ Hears(gone, "/suggest") <=> Hears(calls, "/suggest")
          /\ \A c \in Calls : gone[c].heard =>
                calls[c].heard /\ gone[c].route = calls[c].route /\ gone[c].text = calls[c].text
        BY <1>2, UnheardSound DEF Routes
    <3>2. cs = gone
        BY <2>2
    <3> HIDE DEF gone, cs
    <3>3. BoxInv(gone, input, showDropdown, suggestions)
        BY <1>2, <3>1 DEF BoxInv, Listens, Lists
    <3> QED
        BY <2>2, <3>1, <3>2, <3>3
  <2> QED
      BY <2>1, <2>2
<1> HIDE DEF in, cs, stays
<1>4. /\ Sound(calls') /\ BoxInv(calls', input', showDropdown', suggestions')
      /\ Hears(calls', "/index/rebuild") <=> Hears(cs, "/index/rebuild")
    BY <1>1, <1>3, RefreshInd
<1>5. isRebuilding' \in BOOLEAN
    BY <1>1
<1>6. isRebuilding' <=> Hears(calls', "/index/rebuild")
    BY <1>1, <1>3, <1>4 DEF IndInv
<1> QED
    BY <1>4, <1>5, <1>6 DEF IndInv

LEMMA RebuildInd ==
    ASSUME IndInv, Rebuild
    PROVE  IndInv'
<1> DEFINE after == Sent(calls, "/index/rebuild", NoText)
<1>1. /\ Vacant(calls) # {} /\ calls' = after /\ ~isRebuilding /\ isRebuilding' = TRUE
      /\ UNCHANGED boxVars
    BY DEF Rebuild
<1>2. Sound(calls) /\ ~Hears(calls, "/index/rebuild")
      /\ BoxInv(calls, input, showDropdown, suggestions)
    BY <1>1 DEF IndInv
<1>3. /\ Sound(after) /\ Hears(after, "/index/rebuild")
      /\ Hears(after, "/suggest") <=> Hears(calls, "/suggest")
      /\ \A c \in Calls : after[c].heard =>
            after[c].route = "/index/rebuild" \/ after[c] = calls[c]
    BY <1>1, <1>2, SentSound DEF Routes
<1> HIDE DEF after
<1>4. BoxInv(calls', input', showDropdown', suggestions')
    BY <1>1, <1>2, <1>3 DEF BoxInv, Listens, Lists, boxVars
<1> QED
    BY <1>1, <1>3, <1>4 DEF IndInv

\* A step of one call that leaves its route, text and listener alone.
LEMMA CallStep ==
    ASSUME IndInv, NEW c \in Calls, NEW call, calls' = [calls EXCEPT ![c] = call],
           Whole(call), call.route = calls[c].route, call.text = calls[c].text,
           call.heard = calls[c].heard, UNCHANGED <<boxVars, isRebuilding>>
    PROVE  IndInv'
<1>1. Sound(calls)
    BY DEF IndInv
<1>2. calls = [d \in Calls |-> calls[d]]
    BY <1>1 DEF Sound
<1>3. calls' = [d \in Calls |-> calls'[d]] /\ calls'[c] = call
      /\ \A d \in Calls \ {c} : calls'[d] = calls[d]
    BY <1>2
<1>4. \A d \in Calls :
        /\ Whole(calls'[d])
        /\ calls'[d].route = calls[d].route /\ calls'[d].text = calls[d].text
        /\ calls'[d].heard = calls[d].heard
    BY <1>1, <1>3 DEF Sound
<1>5. Sound(calls')
    BY <1>1, <1>3, <1>4 DEF Sound
<1>6. \A r : Hears(calls', r) <=> Hears(calls, r)
    BY <1>4 DEF Hears
<1>7. BoxInv(calls', input', showDropdown', suggestions')
    BY <1>4, <1>6 DEF IndInv, BoxInv, Listens, Lists, boxVars
<1> QED
    BY <1>5, <1>6, <1>7 DEF IndInv

LEMMA NetworkInd ==
    ASSUME IndInv, Network
    PROVE  IndInv'
<1>1. PICK c \in Calls : Answered(c) \/ Failed(c) \/ Retry(c)
    BY DEF Network, FetchStep
<1>2. UNCHANGED <<boxVars, isRebuilding>>
    BY DEF Network
<1>3. Whole(calls[c]) /\ calls = [d \in Calls |-> calls[d]]
    BY DEF IndInv, Sound
<1> DEFINE old == calls[c]
           with(phase, retries, requests) ==
              [phase |-> phase, route |-> old.route, text |-> old.text,
               retries |-> retries, requests |-> requests, heard |-> old.heard]
<1>4. CASE Answered(c)
  <2>1. calls' = [calls EXCEPT ![c] = with("settled", old.retries, old.requests)]
    <3>1. calls' = [calls EXCEPT ![c] = [calls[c] EXCEPT !.phase = "settled"]]
        BY <1>4 DEF Answered
    <3>2. [calls[c] EXCEPT !.phase = "settled"] = with("settled", old.retries, old.requests)
        BY <1>3 DEF Whole
    <3> QED
        BY <3>1, <3>2
  <2>2. Whole(with("settled", old.retries, old.requests))
      BY <1>3 DEF Whole
  <2> QED
      BY <1>2, <2>1, <2>2, CallStep
<1>5. CASE Failed(c)
  <2> DEFINE phase == IF Retried(old) THEN "pause" ELSE "settled"
  <2>1. calls' = [calls EXCEPT ![c] = with(phase, old.retries, old.requests)]
    <3>1. calls' = [calls EXCEPT ![c] = [calls[c] EXCEPT !.phase = phase]]
        BY <1>5 DEF Failed
    <3>2. [calls[c] EXCEPT !.phase = phase] = with(phase, old.retries, old.requests)
        BY <1>3 DEF Whole
    <3> QED
        BY <3>1, <3>2
  <2>2. Whole(with(phase, old.retries, old.requests))
      BY <1>3, <1>5 DEF Whole, Retried, Failed
  <2> QED
      BY <1>2, <2>1, <2>2, CallStep
<1>6. CASE Retry(c)
  <2> DEFINE left == old.retries - 1
             made == old.requests + 1
             next == [old EXCEPT !.phase = "sent", !.retries = left, !.requests = made]
  <2>1. calls' = [calls EXCEPT ![c] = with("sent", left, made)]
    <3>1. calls' = [d \in Calls |-> calls'[d]]
        BY <1>3, <1>6 DEF Retry
    <3>2. calls'[c] = next /\ \A d \in Calls \ {c} : calls'[d] = calls[d]
        BY <1>3, <1>6 DEF Retry, Whole
    <3>3. next = with("sent", left, made)
      <4> DEFINE sent == with("sent", old.retries, old.requests)
                 fewer == with("sent", left, old.requests)
      <4>1. [old EXCEPT !.phase = "sent"] = sent
          BY <1>3 DEF Whole
      <4>2. [sent EXCEPT !.retries = left] = fewer
          OBVIOUS
      <4>3. [fewer EXCEPT !.requests = made] = with("sent", left, made)
          OBVIOUS
      <4>4. next = [[[old EXCEPT !.phase = "sent"] EXCEPT !.retries = left] EXCEPT !.requests = made]
          OBVIOUS
      <4> HIDE DEF sent, fewer, with, next
      <4> QED
          BY <4>1, <4>2, <4>3, <4>4
    <3> HIDE DEF next, with
    <3> QED
        BY <1>3, <3>1, <3>2, <3>3
<2>2. Whole(with("sent", left, made))
      BY <1>3, <1>6 DEF Whole, Retry
  <2> QED
      BY <1>2, <2>1, <2>2, CallStep
<1> QED
    BY <1>1, <1>4, <1>5, <1>6

LEMMA DeliverInd ==
    ASSUME IndInv, NEW c \in Calls, Deliver(c)
    PROVE  IndInv'
<1>1. /\ calls' = [calls EXCEPT ![c] = Free]
      /\ suggestions' = IF Awaited(c, FALSE) THEN calls[c].text ELSE suggestions
      /\ isRebuilding' = (isRebuilding /\ ~Awaited(c, TRUE))
      /\ input' = input /\ showDropdown' = showDropdown
    BY DEF Deliver
<1>2. Sound(calls) /\ Whole(calls[c])
    BY DEF IndInv, Sound
<1>3. calls = [d \in Calls |-> calls[d]]
    BY <1>2 DEF Sound
<1>4. calls' = [d \in Calls |-> calls'[d]] /\ calls'[c] = Free
      /\ \A d \in Calls \ {c} : calls'[d] = calls[d]
    BY <1>1, <1>3
<1>5. Whole(Free) /\ ~Free.heard
    BY DEF Whole, Free, Routes, Posts
<1>6. Sound(calls')
    BY <1>2, <1>4, <1>5 DEF Sound
<1>7. \A r : Hears(calls', r) <=> \E d \in Calls \ {c} : calls[d].heard /\ calls[d].route = r
    BY <1>4, <1>5 DEF Hears
<1>8. \A posts \in BOOLEAN :
        Awaited(c, posts) <=> calls[c].heard /\ (posts <=> calls[c].route = "/index/rebuild")
    BY DEF Awaited, Posts
<1>9. calls[c].route \in {"/suggest", "/index/rebuild"}
    BY <1>2 DEF Whole, Routes
<1>10. \A r : Hears(calls', r) <=> Hears(calls, r) /\ ~(calls[c].heard /\ calls[c].route = r)
    BY <1>2, <1>7 DEF Hears, Sound
<1>11. isRebuilding' <=> Hears(calls', "/index/rebuild")
    BY <1>1, <1>8, <1>10 DEF IndInv
<1>12. Listens(calls', input', showDropdown')
    BY <1>1, <1>4, <1>5 DEF IndInv, BoxInv, Listens
<1>13. Lists(calls', input', showDropdown', suggestions')
  <2>1. CASE Awaited(c, FALSE)
    <3>1. calls[c].heard /\ calls[c].route = "/suggest" /\ suggestions' = calls[c].text
        BY <1>1, <1>8, <1>9, <2>1
    <3> QED
        BY <1>1, <3>1 DEF Lists, IndInv, BoxInv, Listens
  <2>2. CASE ~Awaited(c, FALSE)
    <3>1. ~(calls[c].heard /\ calls[c].route = "/suggest") /\ suggestions' = suggestions
        BY <1>1, <1>8, <2>2
    <3> QED
        BY <1>1, <1>10, <3>1 DEF Lists, IndInv, BoxInv
  <2> QED
      BY <2>1, <2>2
<1> QED
    BY <1>1, <1>6, <1>11, <1>12, <1>13 DEF IndInv, BoxInv

LEMMA NextInd == IndInv /\ [Next]_vars => IndInv'
<1> SUFFICES ASSUME IndInv, [Next]_vars PROVE IndInv'
    OBVIOUS
<1>1. ASSUME NEW query \in Queries, Type(query) PROVE IndInv'
    BY <1>1, BoxEvent DEF Type
<1>2. CASE Focus
    BY <1>2, BoxEvent DEF Focus
<1>3. CASE Dismiss
    BY <1>3, BoxEvent DEF Dismiss
<1>4. CASE Enter \/ Choose \/ Shortcut \/ Click
  <2>1. \E show : Rendered(show)
      BY <1>4 DEF Enter, Choose, Execute, Shortcut, Click
  <2> QED
      BY <2>1, RenderedInd
<1>5. CASE Rebuild
    BY <1>5, RebuildInd
<1>6. CASE Network
    BY <1>6, NetworkInd
<1>7. ASSUME NEW c \in Calls, Deliver(c) PROVE IndInv'
    BY <1>7, DeliverInd
<1>8. CASE UNCHANGED vars
    BY <1>8 DEF vars, boxVars, IndInv, BoxInv, Listens, Lists, Hears, Sound
<1> QED
    BY <1>1, <1>2, <1>3, <1>4, <1>5, <1>6, <1>7, <1>8 DEF Next, User

\* The calls and the box fit together in every reachable state.
THEOREM Inductive == Spec => []IndInv
<1> QED
    BY InitInd, NextInd, PTL DEF Spec

\* A suggestion list on show, once nothing is asked for any more, is the one for the
\* present input, in whatever order answers come (ChromeOmnibox.tsx).
THEOREM NoLateSuggestions == Spec => []OwnSuggestions
<1>1. IndInv => OwnSuggestions
  <2> SUFFICES ASSUME IndInv, ~Asking(FALSE)
               PROVE  suggestions = IF Wanted(input, showDropdown) THEN input.query ELSE NoList
      BY DEF OwnSuggestions
  <2>1. \A c \in Calls : calls[c].heard => calls[c].phase # "free"
      BY DEF IndInv, Sound, Whole
  <2>2. ~Hears(calls, "/suggest")
      BY <2>1 DEF Asking, Awaited, Hears, Posts
  <2> QED
      BY <2>2 DEF IndInv, BoxInv, Lists
<1> QED
    BY <1>1, Inductive, PTL

\* The rebuild button is disabled exactly while its screen waits
\* (AdminStatsScreen.tsx).
THEOREM ButtonTrue == Spec => []ButtonMatches
<1>1. IndInv => ButtonMatches
  <2> SUFFICES ASSUME IndInv PROVE ButtonMatches
      OBVIOUS
  <2>1. \A c \in Calls : calls[c].heard => calls[c].phase # "free"
      BY DEF IndInv, Sound, Whole
  <2>2. Asking(TRUE) <=> Hears(calls, "/index/rebuild")
      BY <2>1 DEF Asking, Awaited, Hears, Posts
  <2> QED
      BY <2>2 DEF IndInv, ButtonMatches
<1> QED
    BY <1>1, Inductive, PTL

\* A rebuild is posted once, whatever fails, and a question at most twice
\* (fetchWithRetry).
THEOREM NeverPostedTwice == Spec => []SentOnce
<1>1. IndInv => SentOnce
    BY DEF IndInv, Sound, Whole, SentOnce, Routes, Posts
<1> QED
    BY <1>1, Inductive, PTL

-----------------------------------------------------------------------------
(* Closing a tab.                                                           *)

\* Counting up to n, the step from each number to the next reaches all of them.
LEMMA CountUp ==
    ASSUME NEW n \in Nat, NEW S, 0 \in S, \A i \in 1 .. n : i - 1 \in S => i \in S
    PROVE  \A i \in 0 .. n : i \in S
<1> DEFINE Missed == (0 .. n) \ S
<1>1. SUFFICES ASSUME Missed # {} PROVE FALSE
    OBVIOUS
<1>2. Missed \in SUBSET Nat
    OBVIOUS
<1> DEFINE m == Min(Missed)
<1>3. m \in Missed /\ \A j \in Missed : m <= j
  <2> HIDE DEF Missed
  <2> QED
      BY <1>1, <1>2, MinIs
<1> HIDE DEF m
<1>4. m \in 1 .. n
    BY <1>3
<1>5. m - 1 \in 0 .. n /\ ~(m <= m - 1)
    BY <1>4
<1>6. m - 1 \in S
    BY <1>3, <1>5
<1> QED
    BY <1>3, <1>4, <1>6

\* The first tab with an id, and the tab on show.
LEMMA FirstIs ==
    ASSUME NEW s \in Seq(Tab), NEW id \in TabIds(s)
    PROVE  /\ FirstWith(s, id) \in 1 .. Len(s) /\ s[FirstWith(s, id)].id = id
           /\ \A j \in 1 .. Len(s) : s[j].id = id => FirstWith(s, id) <= j
<1> DEFINE S == {i \in DOMAIN s : s[i].id = id}
<1>1. S \in SUBSET Nat /\ S # {}
    BY DEF TabIds
<1>2. Min(S) \in S /\ \A j \in S : Min(S) <= j
  <2> HIDE DEF S
  <2> QED
      BY <1>1, MinIs
<1>3. FirstWith(s, id) = Min(S)
    BY DEF FirstWith
<1> HIDE DEF FirstWith
<1> QED
    BY <1>2, <1>3

LEMMA IdsOf ==
    ASSUME NEW s \in Seq(Tab)
    PROVE  TabIds(s) \subseteq Ids
<1>1. \A i \in DOMAIN s : s[i] \in Tab
    OBVIOUS
<1>2. \A t \in Tab : t.id \in Ids
    BY DEF Tab
<1> QED
    BY <1>1, <1>2 DEF TabIds

LEMMA ShownIs ==
    ASSUME NEW s \in Seq(Tab), s # <<>>, NEW id
    PROVE  Shown(s, id) \in Tab
<1>1. 1 \in 1 .. Len(s)
    OBVIOUS
<1> QED
    BY <1>1, FirstIs DEF Shown

\* The tabs that closeTab keeps of the first i, from those of the first i - 1.
Met(s, id, f, i) ==
    IF i = 0 THEN <<>>
    ELSE IF s[i].id = id THEN f[i - 1]
    ELSE Append(f[i - 1], s[i])

LEMMA KeptExists ==
    ASSUME NEW s, NEW id, NEW n \in Nat
    PROVE  \E f : f = [i \in 0 .. n |-> Met(s, id, f, i)]
<1> DEFINE S == {m \in 0 .. n : \E f : f = [i \in 0 .. m |-> Met(s, id, f, i)]}
<1>1. 0 \in S
  <2> DEFINE f == [i \in 0 .. 0 |-> <<>>]
  <2>1. \A i \in 0 .. 0 : Met(s, id, f, i) = <<>>
      BY DEF Met
  <2>2. f = [i \in 0 .. 0 |-> Met(s, id, f, i)]
      BY <2>1
  <2> QED
      BY <2>2
<1>2. ASSUME NEW m \in 1 .. n, m - 1 \in S PROVE m \in S
  <2>1. PICK f : f = [i \in 0 .. m - 1 |-> Met(s, id, f, i)]
      BY <1>2
  <2> DEFINE g == [i \in 0 .. m |-> IF i = m THEN Met(s, id, f, m) ELSE f[i]]
  <2>2. ASSUME NEW i \in 0 .. m PROVE g[i] = Met(s, id, g, i)
    <3>1. CASE i = 0
      <4>1. 0 \in 0 .. m - 1 /\ 0 \in 0 .. m /\ 0 # m
          OBVIOUS
      <4>2. f[0] = Met(s, id, f, 0)
          BY <2>1, <4>1
      <4>3. g[0] = f[0]
          BY <4>1
      <4> QED
          BY <3>1, <4>2, <4>3 DEF Met
    <3>2. CASE i # 0
      <4>1. i - 1 \in 0 .. m - 1 /\ i - 1 \in 0 .. m /\ i - 1 # m
          BY <3>2
      <4>2. g[i - 1] = f[i - 1]
          BY <4>1
      <4>3. Met(s, id, g, i) = Met(s, id, f, i)
          BY <4>2 DEF Met
      <4>4. g[i] = Met(s, id, f, i)
        <5>1. CASE i = m
            BY <5>1
        <5>2. CASE i # m
          <6>1. i \in 0 .. m - 1 /\ g[i] = f[i]
              BY <5>2
          <6> HIDE DEF g
          <6>2. f[i] = Met(s, id, f, i)
              BY <2>1, <6>1
          <6> QED
              BY <6>1, <6>2
        <5> QED
            BY <5>1, <5>2
      <4> QED
          BY <4>3, <4>4
    <3> QED
        BY <3>1, <3>2
  <2>3. g = [i \in 0 .. m |-> g[i]]
      OBVIOUS
  <2> HIDE DEF g
  <2>4. g = [i \in 0 .. m |-> Met(s, id, g, i)]
      BY <2>2, <2>3
  <2> QED
      BY <2>4
<1>3. n \in 0 .. n
    OBVIOUS
<1> HIDE DEF S
<1>4. n \in S
    BY <1>1, <1>2, <1>3, CountUp
<1> QED
    BY <1>4 DEF S

LEMMA FilteredFrom ==
    ASSUME NEW s \in Seq(Tab), NEW id
    PROVE  \E f : /\ f = [i \in 0 .. Len(s) |-> Met(s, id, f, i)]
                  /\ Filtered(s, id) = f[Len(s)]
<1> DEFINE n == Len(s)
           kept == CHOOSE f : f = [i \in 0 .. n |-> Met(s, id, f, i)]
<1>1. n \in Nat
    OBVIOUS
<1>2. Filtered(s, id) = kept[n]
    BY DEF Filtered, Met
<1>3. kept = [i \in 0 .. n |-> Met(s, id, kept, i)]
  <2> HIDE DEF n
  <2>1. \E f : f = [i \in 0 .. n |-> Met(s, id, f, i)]
      BY <1>1, KeptExists
  <2> QED
      BY <2>1
<1> HIDE DEF kept
<1> QED
    BY <1>2, <1>3

\* What tabs.filter leaves of the first i: a sequence of the tabs with another id, all
\* of them, and at least as many as stand before the first tab with this id.
Left(s, id, kept, i) ==
    /\ kept \in Seq(Tab)
    /\ \A j \in 1 .. Len(kept) : kept[j].id # id
    /\ \A q \in 1 .. i : s[q].id # id => \E j \in 1 .. Len(kept) : kept[j].id = s[q].id
    /\ \A p \in 0 .. i : (\A q \in 1 .. p : s[q].id # id) => p <= Len(kept)

LEMMA FilteredIs ==
    ASSUME NEW s \in Seq(Tab), NEW id
    PROVE  Left(s, id, Filtered(s, id), Len(s))
<1>1. PICK f : /\ f = [i \in 0 .. Len(s) |-> Met(s, id, f, i)]
               /\ Filtered(s, id) = f[Len(s)]
    BY FilteredFrom
<1>2. \A i \in 0 .. Len(s) : f[i] = Met(s, id, f, i)
    BY <1>1
<1> DEFINE S == {i \in 0 .. Len(s) : Left(s, id, f[i], i)}
<1>3. 0 \in S
  <2>1. 0 \in 0 .. Len(s)
      OBVIOUS
  <2>2. f[0] = <<>>
      BY <1>2, <2>1 DEF Met
  <2>3. Left(s, id, <<>>, 0)
      BY DEF Left
  <2> HIDE DEF Left
  <2> QED
      BY <2>1, <2>2, <2>3
<1>4. ASSUME NEW i \in 1 .. Len(s), i - 1 \in S PROVE i \in S
  <2> DEFINE old == f[i - 1]
             new == f[i]
  <2>1. new = IF s[i].id = id THEN old ELSE Append(old, s[i])
      BY <1>2 DEF Met
  <2>2. Left(s, id, old, i - 1)
      BY <1>4
  <2>3. s[i] \in Tab /\ old \in Seq(Tab) /\ Len(old) \in Nat
      BY <2>2 DEF Left
  <2> HIDE DEF old, new
  <2>4. CASE s[i].id = id
    <3>1. new = old
        BY <2>1, <2>4
    <3>2. \A q \in 1 .. i : s[q].id # id => q \in 1 .. i - 1
        BY <2>4
    <3>3. \A q \in 1 .. i : s[q].id # id => \E j \in 1 .. Len(new) : new[j].id = s[q].id
        BY <2>2, <3>1, <3>2 DEF Left
    <3>4. ASSUME NEW p \in 0 .. i, \A q \in 1 .. p : s[q].id # id PROVE p <= Len(new)
      <4>1. p # i
          BY <2>4, <3>4
      <4>2. p \in 0 .. i - 1
          BY <4>1
      <4> QED
          BY <2>2, <3>1, <3>4, <4>2 DEF Left
    <3>5. Left(s, id, new, i)
        BY <2>2, <3>1, <3>3, <3>4 DEF Left
    <3> QED
        BY <3>5 DEF new
  <2>5. CASE s[i].id # id
    <3>1. new = Append(old, s[i])
        BY <2>1, <2>5
    <3>2. /\ new \in Seq(Tab) /\ Len(new) = Len(old) + 1 /\ new[Len(new)] = s[i]
          /\ \A j \in 1 .. Len(old) : new[j] = old[j]
        BY <2>3, <3>1
    <3>3. \A j \in 1 .. Len(new) : j \in 1 .. Len(old) \/ j = Len(new)
        BY <2>3, <3>2
    <3>4. \A j \in 1 .. Len(old) : j \in 1 .. Len(new)
        BY <2>3, <3>2
    <3>5. \A j \in 1 .. Len(new) : new[j].id # id
        BY <2>2, <2>5, <3>2, <3>3 DEF Left
    <3>6. ASSUME NEW q \in 1 .. i, s[q].id # id
          PROVE  \E j \in 1 .. Len(new) : new[j].id = s[q].id
      <4>1. CASE q = i
        <5>1. Len(new) \in 1 .. Len(new)
            BY <2>3, <3>2
        <5> QED
            BY <3>2, <4>1, <5>1
      <4>2. CASE q # i
        <5>1. q \in 1 .. i - 1
            BY <4>2
        <5>2. PICK j \in 1 .. Len(old) : old[j].id = s[q].id
            BY <2>2, <3>6, <5>1 DEF Left
        <5> QED
            BY <3>2, <3>4, <5>2
      <4> QED
          BY <4>1, <4>2
    <3>7. ASSUME NEW p \in 0 .. i, \A q \in 1 .. p : s[q].id # id PROVE p <= Len(new)
      <4>1. CASE p = i
        <5>1. i - 1 \in 0 .. i - 1 /\ \A q \in 1 .. i - 1 : s[q].id # id
            BY <3>7, <4>1
        <5>2. i - 1 <= Len(old)
            BY <2>2, <5>1 DEF Left
        <5> QED
            BY <2>3, <3>2, <4>1, <5>2
      <4>2. CASE p # i
        <5>1. p \in 0 .. i - 1
            BY <4>2
        <5>2. p <= Len(old)
            BY <2>2, <3>7, <5>1 DEF Left
        <5> QED
            BY <2>3, <3>2, <5>1, <5>2
      <4> QED
          BY <4>1, <4>2
    <3>8. Left(s, id, new, i)
        BY <3>2, <3>5, <3>6, <3>7 DEF Left
    <3> QED
        BY <3>8 DEF new
  <2> QED
      BY <2>4, <2>5
<1>5. Len(s) \in Nat /\ Len(s) \in 0 .. Len(s)
    OBVIOUS
<1> HIDE DEF S
<1>6. Len(s) \in S
    BY <1>3, <1>4, <1>5, CountUp
<1> QED
    BY <1>1, <1>6 DEF S

-----------------------------------------------------------------------------
(* The tabs.                                                                *)

TabsInv == StoreTypeOK /\ TabsSound

\* Setting a screen, or a screen and a query, of the tabs with one id.
LEMMA SetIs ==
    ASSUME TabsInv, NEW id \in Ids, NEW screen \in Screens, NEW query \in Queries,
           NEW s, s = OnScreen(id, screen) \/ s = OnQuery(id, screen, query)
    PROVE  s \in Seq(Tab) /\ s # <<>> /\ TabIds(s) = TabIds(tabs)
<1>1. tabs \in Seq(Tab) /\ tabs # <<>> /\ Len(tabs) \in Nat
    BY DEF TabsInv, StoreTypeOK, TabsSound
<1>2. \A i \in 1 .. Len(tabs) : tabs[i] \in Tab
    BY <1>1
<1>3. \A t \in Tab : [t EXCEPT !.screen = screen] \in Tab /\ [t EXCEPT !.screen = screen].id = t.id
    BY DEF Tab
<1>4. [id |-> id, screen |-> screen, query |-> query] \in Tab
    BY DEF Tab
<1>5. /\ s = [i \in 1 .. Len(tabs) |-> s[i]]
      /\ \A i \in 1 .. Len(tabs) : s[i] \in Tab /\ s[i].id = tabs[i].id
  <2>1. CASE s = OnScreen(id, screen)
      BY <1>1, <1>2, <1>3, <2>1 DEF OnScreen
  <2>2. CASE s = OnQuery(id, screen, query)
      BY <1>1, <1>2, <1>4, <2>2 DEF OnQuery
  <2> QED
      BY <2>1, <2>2
<1>6. s \in [1 .. Len(tabs) -> Tab]
    BY <1>5
<1>7. s \in Seq(Tab) /\ Len(s) = Len(tabs)
    BY <1>1, <1>6
<1>8. DOMAIN s = 1 .. Len(tabs) /\ DOMAIN tabs = 1 .. Len(tabs)
    BY <1>1, <1>7
<1>9. TabIds(s) = TabIds(tabs)
    BY <1>5, <1>8 DEF TabIds
<1> QED
    BY <1>1, <1>7, <1>9

LEMMA SetInv ==
    ASSUME TabsInv, NEW id \in Ids, NEW screen \in Screens, NEW query \in Queries,
           tabs' = OnScreen(id, screen) \/ tabs' = OnQuery(id, screen, query),
           activeTabId' = activeTabId
    PROVE  TabsInv'
<1>1. tabs' \in Seq(Tab) /\ tabs' # <<>> /\ TabIds(tabs') = TabIds(tabs)
    BY SetIs
<1> QED
    BY <1>1 DEF TabsInv, StoreTypeOK, TabsSound, TabIds

LEMMA CreateInv ==
    ASSUME TabsInv, NEW id \in Stamps, CreateNewTab(id)
    PROVE  TabsInv'
<1> DEFINE new == [id |-> id, screen |-> "ntp", query |-> NoQuery]
<1>1. tabs' = Append(tabs, new) /\ activeTabId' = id /\ tabs \in Seq(Tab)
    BY DEF CreateNewTab, TabsInv, StoreTypeOK
<1>2. id \in Ids /\ new \in Tab
    BY DEF Ids, Tab, Screens, Queries
<1>3. new.id = id
    OBVIOUS
<1> HIDE DEF new
<1>4. tabs' \in Seq(Tab) /\ Len(tabs') \in DOMAIN tabs' /\ tabs'[Len(tabs')] = new
    BY <1>1, <1>2
<1>5. id \in TabIds(tabs') /\ tabs' # <<>>
    BY <1>3, <1>4 DEF TabIds
<1> QED
    BY <1>1, <1>2, <1>4, <1>5 DEF TabsInv, StoreTypeOK, TabsSound, TabIds

LEMMA CloseInv ==
    ASSUME TabsInv, NEW id \in TabIds(tabs), CloseTab(id)
    PROVE  TabsInv'
<1>1. tabs \in Seq(Tab) /\ Len(tabs) \in Nat /\ activeTabId \in Ids /\ activeTabId \in TabIds(tabs)
    BY DEF TabsInv, StoreTypeOK, TabsSound
<1>2. id \in Ids
    BY <1>1, IdsOf
<1>3. CASE ResetLast(id)
  <2>1. "ntp" \in Screens /\ NoQuery \in Queries
      BY DEF Screens, Queries
  <2> QED
      BY <1>2, <1>3, <2>1, SetInv DEF ResetLast
<1>4. CASE ~ResetLast(id)
  <2> DEFINE kept == Filtered(tabs, id)
             first == FirstWith(tabs, id)
  <2>1. /\ kept # <<>> /\ tabs' = kept
        /\ activeTabId' = IF activeTabId = id THEN NextActive(kept, id) ELSE activeTabId
      BY <1>4 DEF CloseTab
  <2>2. Left(tabs, id, kept, Len(tabs))
      BY <1>1, FilteredIs
  <2>3. kept \in Seq(Tab) /\ Len(kept) \in Nat \ {0} /\ DOMAIN kept = 1 .. Len(kept)
      BY <2>1, <2>2 DEF Left
  <2> HIDE DEF kept
  <2>4. CASE activeTabId = id
    <3> DEFINE place == Max({1, first - 1})
    <3>1. /\ first \in 1 .. Len(tabs)
          /\ \A j \in 1 .. Len(tabs) : tabs[j].id = id => first <= j
        BY <1>1, FirstIs
    <3> HIDE DEF first
    <3>2. first - 1 \in 0 .. Len(tabs) /\ \A j \in 1 .. first - 1 : j \in 1 .. Len(tabs) /\ ~(first <= j)
        BY <1>1, <3>1
    <3>3. first - 1 <= Len(kept)
        BY <2>2, <3>1, <3>2 DEF Left
    <3>4. place = IF first = 1 THEN 1 ELSE first - 1
      <4>1. \A x \in Nat : Max({1, x}) = IF x <= 1 THEN 1 ELSE x
          BY DEF Max
      <4>2. Max({1, first - 1}) = IF first - 1 <= 1 THEN 1 ELSE first - 1
          BY <3>2, <4>1
      <4> QED
          BY <3>1, <4>2
    <3>5. place \in 1 .. Len(kept)
        BY <2>3, <3>1, <3>3, <3>4
    <3>6. activeTabId' = kept[place].id
        BY <2>1, <2>4 DEF NextActive, first
    <3> HIDE DEF place
    <3>7. activeTabId' \in TabIds(kept)
        BY <2>3, <3>5, <3>6 DEF TabIds
    <3>8. activeTabId' \in Ids
        BY <2>3, <3>7, IdsOf
    <3> QED
        BY <2>1, <2>3, <3>7, <3>8 DEF TabsInv, StoreTypeOK, TabsSound, TabIds
  <2>5. CASE activeTabId # id
    <3>1. activeTabId' = activeTabId
        BY <2>1, <2>5
    <3>2. PICK q \in 1 .. Len(tabs) : tabs[q].id = activeTabId
        BY <1>1 DEF TabIds
    <3>3. \E j \in 1 .. Len(kept) : kept[j].id = activeTabId
        BY <2>2, <2>5, <3>2 DEF Left
    <3>4. activeTabId \in TabIds(kept)
        BY <2>3, <3>3 DEF TabIds
    <3> QED
        BY <1>1, <2>1, <2>3, <3>1, <3>4 DEF TabsInv, StoreTypeOK, TabsSound, TabIds
  <2> QED
      BY <2>4, <2>5
<1> QED
    BY <1>3, <1>4

LEMMA SwitchInv ==
    ASSUME TabsInv, NEW id \in TabIds(tabs), SwitchTab(id)
    PROVE  TabsInv'
<1>1. id \in Ids
    BY IdsOf DEF TabsInv, StoreTypeOK
<1> QED
    BY <1>1 DEF SwitchTab, TabsInv, StoreTypeOK, TabsSound, TabIds

\* The tab on show has a query and a URL.
LEMMA ShownHas ==
    ASSUME TabsInv
    PROVE  LET tab == Shown(tabs, activeTabId) IN Url(tab) \in Location /\ tab.query \in Queries
<1>1. Shown(tabs, activeTabId) \in Tab
    BY ShownIs DEF TabsInv, StoreTypeOK, TabsSound
<1>2. \A t \in Tab : Url(t) \in Location /\ t.query \in Queries
    BY DEF Tab, Url, Location, Queries
<1> QED
    BY <1>1, <1>2

-----------------------------------------------------------------------------
(* The types of the box and of the calls.                                   *)

Inputs == Location \cup {Typed(query) : query \in Queries}
Listed == Words \cup {NoList}
TextsOf(cs) == \A c \in Calls : cs[c].text \in Queries

TypesInv ==
    /\ TabsInv
    /\ TextsOf(calls)
    /\ input \in Inputs
    /\ showDropdown \in BOOLEAN
    /\ suggestions \in Listed

LEMMA InputHas ==
    ASSUME NEW in \in Inputs
    PROVE  /\ in.query \in Queries
           /\ in.screen \notin {"typed", "search"} => in.screen \in Screens
    BY DEF Inputs, Location, Typed

LEMMA RefreshTypes ==
    ASSUME NEW cs, Sound(cs), TextsOf(cs), suggestions \in Listed,
           NEW in \in Inputs, NEW show \in BOOLEAN, Refresh(in, show, cs)
    PROVE  /\ TextsOf(calls') /\ input' \in Inputs /\ showDropdown' \in BOOLEAN
           /\ suggestions' \in Listed
<1> DEFINE quiet == Cancelled(cs)
<1>1. /\ Sound(quiet) /\ ~Hears(quiet, "/suggest") /\ Vacant(quiet) = Vacant(cs)
      /\ \A c \in Calls : quiet[c].text = cs[c].text
    BY UnheardSound DEF Cancelled, Routes
<1>2. \/ calls' = cs /\ suggestions' = suggestions
      \/ Vacant(cs) # {} /\ calls' = Sent(quiet, "/suggest", in.query) /\ suggestions' = suggestions
      \/ calls' = quiet /\ suggestions' = NoList
    BY DEF Refresh
<1>3. suggestions' \in Listed
    BY <1>2 DEF Listed
<1> HIDE DEF quiet
<1>4. TextsOf(quiet)
    BY <1>1 DEF TextsOf
<1>5. in.query \in Queries
    BY InputHas
<1>6. ASSUME Vacant(cs) # {}, calls' = Sent(quiet, "/suggest", in.query)
      PROVE  TextsOf(calls')
  <2> DEFINE after == Sent(quiet, "/suggest", in.query)
  <2>1. \A c \in Calls : after[c].text = in.query \/ after[c] = quiet[c]
      BY <1>1, <1>6, SentSound DEF Routes
  <2> HIDE DEF after
  <2>2. TextsOf(after)
      BY <1>4, <1>5, <2>1 DEF TextsOf
  <2> QED
      BY <1>6, <2>2 DEF after
<1>7. TextsOf(calls')
    BY <1>2, <1>4, <1>6
<1> QED
    BY <1>3, <1>7 DEF Refresh

\* What the user does to the tabs keeps an active one, and is then rendered.
LEMMA ExecuteTabs ==
    ASSUME TabsInv, NEW in \in Inputs, Execute(in)
    PROVE  TabsInv' /\ Rendered(FALSE)
<1>1. activeTabId \in Ids
    BY DEF TabsInv, StoreTypeOK
<1>2. "search" \in Screens /\ NoQuery \in Queries
    BY DEF Screens, Queries
<1>3. in.query \in Queries /\ (in.screen \notin {"typed", "search"} => in.screen \in Screens)
    BY InputHas
<1> QED
    BY <1>1, <1>2, <1>3, SetInv DEF Execute, PerformSearchInActiveTab, UpdateActiveTab

LEMMA UserTabs ==
    ASSUME TypesInv, Enter \/ Choose \/ Shortcut \/ Click
    PROVE  TabsInv' /\ \E show \in BOOLEAN : Rendered(show)
<1>1. TabsInv /\ input \in Inputs /\ showDropdown \in BOOLEAN
    BY DEF TypesInv
<1>2. activeTabId \in Ids /\ activeTabId \in TabIds(tabs)
    BY <1>1 DEF TabsInv, StoreTypeOK, TabsSound
<1>3. /\ {"ntp", "search", "document", "admin"} \subseteq Screens
      /\ NoQuery \in Queries /\ Words \subseteq Queries
    BY DEF Screens, Queries
<1>4. Shown(tabs, activeTabId).query \in Queries
    BY <1>1, ShownHas
<1>5. CASE Enter
    BY <1>1, <1>5, ExecuteTabs DEF Enter
<1>6. CASE Choose
  <2>1. PICK query \in Words : Execute(Typed(query))
      BY <1>6 DEF Choose
  <2>2. Typed(query) \in Inputs
      BY <1>3 DEF Inputs
  <2> QED
      BY <1>1, <2>1, <2>2, ExecuteTabs
<1>7. CASE Shortcut
  <2>1. Rendered(showDropdown)
      BY <1>7 DEF Shortcut
  <2>2. ASSUME NEW id \in Stamps, CreateNewTab(id) PROVE TabsInv'
      BY <1>1, <2>2, CreateInv
  <2>3. ASSUME CloseTab(activeTabId) PROVE TabsInv'
      BY <1>1, <1>2, <2>3, CloseInv
  <2>4. ASSUME UpdateActiveTab("ntp") PROVE TabsInv'
      BY <1>1, <1>2, <1>3, <2>4, SetInv DEF UpdateActiveTab
  <2>5. ASSUME PerformSearchInActiveTab(Shown(tabs, activeTabId).query) PROVE TabsInv'
      BY <1>1, <1>2, <1>3, <1>4, <2>5, SetInv DEF PerformSearchInActiveTab
  <2> QED
      BY <1>1, <1>7, <2>1, <2>2, <2>3, <2>4, <2>5 DEF Shortcut
<1>8. CASE Click
  <2>1. Rendered(FALSE)
      BY <1>8 DEF Click
  <2>2. ASSUME NEW id \in TabIds(tabs), SwitchTab(id) \/ CloseTab(id) PROVE TabsInv'
      BY <1>1, <2>2, SwitchInv, CloseInv
  <2>3. ASSUME OpenDocumentInActiveTab PROVE TabsInv'
      BY <1>1, <1>2, <1>3, <2>3, SetInv DEF OpenDocumentInActiveTab
  <2>4. ASSUME UpdateActiveTab("admin") \/ UpdateActiveTab("search") PROVE TabsInv'
      BY <1>1, <1>2, <1>3, <2>4, SetInv DEF UpdateActiveTab
  <2>5. ASSUME NEW query \in Words, PerformSearchInActiveTab(query) PROVE TabsInv'
      BY <1>1, <1>2, <1>3, <2>5, SetInv DEF PerformSearchInActiveTab
  <2> QED
      BY <1>8, <2>1, <2>2, <2>3, <2>4, <2>5 DEF Click
<1> QED
    BY <1>5, <1>6, <1>7, <1>8

LEMMA RenderedTypes ==
    ASSUME IndInv, TypesInv, TabsInv', NEW show \in BOOLEAN, Rendered(show)
    PROVE  TypesInv'
<1> DEFINE before == Shown(tabs, activeTabId)
           after == Shown(tabs', activeTabId')
           moved == activeTabId' # activeTabId \/ Url(after) # Url(before)
           stays == before.screen = "admin" /\ after.screen = "admin"
           in == IF moved THEN Url(after) ELSE input
           cs == IF stays THEN calls ELSE Unheard(calls, "/index/rebuild")
<1>1. Refresh(in, show, cs)
    BY DEF Rendered
<1>2. Sound(calls) /\ TextsOf(calls) /\ input \in Inputs /\ suggestions \in Listed
    BY DEF IndInv, TypesInv
<1>3. Url(after) \in Location
  <2>1. tabs' \in Seq(Tab) /\ tabs' # <<>>
      BY DEF TabsInv, StoreTypeOK, TabsSound
  <2>2. after \in Tab
      BY <2>1, ShownIs
  <2>3. \A t \in Tab : Url(t) \in Location
      BY DEF Tab, Url, Location, Queries
  <2> HIDE DEF after
  <2> QED
      BY <2>2, <2>3
<1>4. in \in Inputs
    BY <1>2, <1>3 DEF Inputs
<1>5. Sound(cs) /\ TextsOf(cs)
  <2> DEFINE gone == Unheard(calls, "/index/rebuild")
  <2>1. Sound(gone) /\ \A c \in Calls : gone[c].text = calls[c].text
      BY <1>2, UnheardSound DEF Routes
  <2> HIDE DEF gone
  <2>2. TextsOf(gone)
      BY <1>2, <2>1 DEF TextsOf
  <2>3. cs = calls \/ cs = gone
      BY DEF gone
  <2> HIDE DEF cs
  <2> QED
      BY <1>2, <2>1, <2>2, <2>3
<1> HIDE DEF in, cs
<1> QED
    BY <1>1, <1>2, <1>4, <1>5, RefreshTypes DEF TypesInv

LEMMA DeliverTypes ==
    ASSUME IndInv, TypesInv, NEW c \in Calls, Deliver(c)
    PROVE  TypesInv'
<1>1. /\ calls' = [calls EXCEPT ![c] = Free]
      /\ suggestions' = IF Awaited(c, FALSE) THEN calls[c].text ELSE suggestions
      /\ UNCHANGED <<storeVars, input, showDropdown>>
    BY DEF Deliver
<1>2. Whole(calls[c]) /\ calls = [d \in Calls |-> calls[d]]
    BY DEF IndInv, Sound
<1>3. Free.text \in Queries
    BY TextsAreWords DEF Free, Queries
<1>4. TextsOf(calls')
    BY <1>1, <1>2, <1>3 DEF TypesInv, TextsOf
<1>5. suggestions' \in Listed
  <2>1. CASE Awaited(c, FALSE)
    <3>1. calls[c].heard /\ calls[c].route = "/suggest"
        BY <1>2, <2>1 DEF Awaited, Posts, Whole, Routes
    <3>2. Wanted(input, showDropdown) /\ calls[c].text = input.query
        BY <3>1 DEF IndInv, BoxInv, Listens
    <3>3. calls[c].text \in Words
        BY <3>2 DEF Wanted, TypesInv, TextsOf, Queries
    <3> QED
        BY <1>1, <2>1, <3>3 DEF Listed
  <2>2. CASE ~Awaited(c, FALSE)
      BY <1>1, <2>2 DEF TypesInv
  <2> QED
      BY <2>1, <2>2
<1> QED
    BY <1>1, <1>4, <1>5 DEF TypesInv, TabsInv, StoreTypeOK, TabsSound, TabIds, storeVars

LEMMA NetworkTypes ==
    ASSUME IndInv, TypesInv, Network
    PROVE  TypesInv'
<1>1. PICK c \in Calls : Answered(c) \/ Failed(c) \/ Retry(c)
    BY DEF Network, FetchStep
<1>2. Whole(calls[c]) /\ calls = [d \in Calls |-> calls[d]]
    BY DEF IndInv, Sound
<1>3. \A d \in Calls : calls'[d].text = calls[d].text
    BY <1>1, <1>2 DEF Whole, Answered, Failed, Retry
<1>4. TextsOf(calls')
    BY <1>3 DEF TypesInv, TextsOf
<1> QED
    BY <1>4 DEF Network, TypesInv, TabsInv, StoreTypeOK, TabsSound, TabIds, storeVars, boxVars

LEMMA InitTypes == Init => TypesInv
<1> SUFFICES ASSUME Init PROVE TypesInv
    OBVIOUS
<1>1. PICK query \in Words : tabs = <<[id |-> FirstId, screen |-> "search", query |-> query]>>
    BY DEF Init, StoreInit
<1> DEFINE tab == [id |-> FirstId, screen |-> "search", query |-> query]
<1>2. tab \in Tab /\ tab.id = FirstId /\ Url(tab) \in Location
    BY DEF Tab, Ids, Screens, Queries, Url, Location
<1>3. tabs = <<tab>>
    BY <1>1
<1> HIDE DEF tab
<1>4. tabs \in Seq(Tab) /\ tabs # <<>> /\ tabs[1] = tab /\ 1 \in DOMAIN tabs
    BY <1>2, <1>3
<1>5. TabsInv
    BY <1>2, <1>4 DEF TabsInv, StoreTypeOK, TabsSound, TabIds, Init, StoreInit, Ids
<1>6. TextsOf(calls)
    BY TextsAreWords DEF TextsOf, Init, FetchInit, Free, Queries
<1> QED
    BY <1>2, <1>4, <1>5, <1>6 DEF TypesInv, Inputs, Listed, Init

LEMMA NextTypes == IndInv /\ TypesInv /\ [Next]_vars => TypesInv'
<1> SUFFICES ASSUME IndInv, TypesInv, [Next]_vars PROVE TypesInv'
    OBVIOUS
<1>1. ASSUME NEW in \in Inputs, NEW show \in BOOLEAN, Refresh(in, show, calls),
             UNCHANGED storeVars
      PROVE  TypesInv'
  <2>1. Sound(calls) /\ TextsOf(calls) /\ suggestions \in Listed /\ TabsInv
      BY DEF IndInv, TypesInv
  <2>2. TabsInv'
      BY <1>1, <2>1 DEF TabsInv, StoreTypeOK, TabsSound, TabIds, storeVars
  <2> QED
      BY <1>1, <2>1, <2>2, RefreshTypes DEF TypesInv
<1>2. ASSUME NEW query \in Queries, Type(query) PROVE TypesInv'
  <2>1. Typed(query) \in Inputs
      BY DEF Inputs
  <2> QED
      BY <1>1, <1>2, <2>1 DEF Type
<1>3. CASE Focus \/ Dismiss
    BY <1>1, <1>3 DEF Focus, Dismiss, TypesInv
<1>4. CASE Enter \/ Choose \/ Shortcut \/ Click
  <2>1. TabsInv' /\ \E show \in BOOLEAN : Rendered(show)
      BY <1>4, UserTabs
  <2> QED
      BY <2>1, RenderedTypes
<1>5. CASE Rebuild
  <2> DEFINE after == Sent(calls, "/index/rebuild", NoText)
  <2>1. calls' = after /\ Vacant(calls) # {} /\ ~isRebuilding /\ UNCHANGED <<storeVars, boxVars>>
      BY <1>5 DEF Rebuild
  <2>2. \A c \in Calls : after[c].text = NoText \/ after[c] = calls[c]
      BY <2>1, SentSound DEF IndInv, Routes
  <2> HIDE DEF after
  <2>3. TextsOf(calls')
      BY <2>1, <2>2, TextsAreWords DEF TextsOf, TypesInv, Queries
  <2> QED
      BY <2>1, <2>3 DEF TypesInv, TabsInv, StoreTypeOK, TabsSound, TabIds, storeVars, boxVars
<1>6. CASE Network
    BY <1>6, NetworkTypes
<1>7. ASSUME NEW c \in Calls, Deliver(c) PROVE TypesInv'
    BY <1>7, DeliverTypes
<1>8. CASE UNCHANGED vars
    BY <1>8 DEF vars, TypesInv, TabsInv, TextsOf, StoreTypeOK, TabsSound, TabIds, storeVars, boxVars
<1> QED
    BY <1>2, <1>3, <1>4, <1>5, <1>6, <1>7, <1>8 DEF Next, User

\* Types hold in every reachable state; there is always a tab, and the active one is
\* among the tabs, also when two of them were given one id (createNewTab, closeTab);
\* and no call is sent more often than it may (fetchWithRetry).
THEOREM AlwaysSound == Spec => []ClientSound
<1>1. Init => IndInv /\ TypesInv
    BY InitInd, InitTypes
<1>2. (IndInv /\ TypesInv) /\ [Next]_vars => (IndInv /\ TypesInv)'
    BY NextInd, NextTypes
<1>3. IndInv /\ TypesInv => ClientSound
  <2> SUFFICES ASSUME IndInv, TypesInv PROVE ClientSound
      OBVIOUS
  <2>1. calls = [c \in Calls |-> calls[c]]
      BY DEF IndInv, Sound
  <2>2. ASSUME NEW c \in Calls PROVE calls[c] \in Call
    <3>1. Whole(calls[c]) /\ calls[c].text \in Texts \cup {NoText}
        BY TextsAreWords DEF IndInv, Sound, TypesInv, TextsOf, Queries
    <3> QED
        BY <3>1 DEF Whole, Call
  <2>3. FetchTypeOK
      BY <2>1, <2>2 DEF FetchTypeOK
  <2>4. SentOnce
      BY DEF IndInv, Sound, Whole, SentOnce, Routes, Posts
  <2> QED
      BY <2>3, <2>4 DEF ClientSound, IndInv, TypesInv, TabsInv, Inputs, Listed
<1> QED
    BY <1>1, <1>2, <1>3, PTL DEF Spec
=============================================================================
