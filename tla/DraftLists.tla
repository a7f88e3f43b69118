------------------------------ MODULE DraftLists ------------------------------
(* The draft library and the calendar of the dashboard
   (apps/web/src/components/dashboard/dashboard-workspace.tsx, with the
   buttons of drafts-view.tsx and calendar-view.tsx).  Each shows one page
   under one filter (the status of the drafts, the month) and is loaded by an
   effect that runs when the page, the filter or what is shown has changed;
   a draft that was changed in the create tab refreshes both, with the page
   and the filter that were chosen when the change was clicked.

   A list's data is known by its page, its filter and the changes it shows.
   The two lists share nothing but the changes, so a behaviour follows one of
   them, either one.                                                         *)
EXTENDS ApiRequest

CONSTANTS MaxListCalls,   \* requests under way at one time (bound)
          MaxListClicks   \* clicks (bound)

Lists == {"library", "calendar"}
ListPages == 1 .. 2
ListFilters == {"all", "chosen"}

ASSUME ListsAssumption ==
    /\ MaxListCalls \in Nat /\ MaxListClicks \in Nat
    /\ None \notin [page : ListPages, filter : ListFilters]

VARIABLES
    kind,       \* which of the lists this is
    pane,       \* page, filter, data, query key, loading, error; the effect is due
    listCalls,  \* the requests under way
    changes,    \* changes the API has made to the drafts
    settled,    \* changes known to the workspace when the last one was answered
    inTab,      \* the list's tab is the active one
    ended,      \* the session is over
    listClicks

listVars == <<kind, pane, listCalls, changes, settled, inTab, ended, listClicks>>

NoPage == [page |-> 1, filter |-> "all", data |-> None, key |-> None,
           loading |-> FALSE, error |-> FALSE, due |-> FALSE]

\* The library is loaded at once.
ListsInit ==
    /\ kind \in Lists
    /\ pane = [NoPage EXCEPT !.due = kind = "library"]
    /\ listCalls = EmptyBag
    /\ changes = 0 /\ settled = 0
    /\ inTab = FALSE /\ ended = FALSE
    /\ listClicks = 0

\* The effect that loads the calendar only runs in its tab.
Active == kind = "library" \/ inTab

Chosen(l) == [page |-> l.page, filter |-> l.filter]

ListClick(n) ==
    /\ ~ended /\ listClicks < MaxListClicks /\ BagCardinality(listCalls) + n <= MaxListCalls
    /\ listClicks' = listClicks + 1

\* loadDraftLibrary and loadCalendar: nothing is asked for twice.
Known(l, at) == l.key = at /\ l.data # None

Asks(l, at) == [l EXCEPT !.key = at, !.loading = TRUE, !.error = FALSE]

ListRequest(at) == Begin(Withdrawn(listCalls, {"load"}), Sent("load", None, at))

ListEffectRuns ==
    /\ pane.due /\ Active /\ ~ended
    /\ IF Known(pane, Chosen(pane))
       THEN pane' = [pane EXCEPT !.due = FALSE] /\ UNCHANGED listCalls
       ELSE /\ BagCardinality(listCalls) < MaxListCalls
            /\ pane' = [Asks(pane, Chosen(pane)) EXCEPT !.due = FALSE]
            /\ listCalls' = ListRequest(Chosen(pane))
    /\ UNCHANGED <<kind, changes, settled, inTab, ended, listClicks>>

\* Only the calendar goes back to its last page.
Shows(l, at, body) ==
    LET far == kind = "calendar" /\ at.page > body.pages
    IN  [l EXCEPT !.data = [at |-> at, shows |-> body.shows], !.loading = FALSE, !.due = TRUE,
                  !.page = IF far THEN body.pages ELSE @,
                  !.key  = IF far THEN None ELSE @]

ListLoadReturns(call) ==
    LET out == Result(call)
    IN  /\ call \in Returning(listCalls, "load")
        /\ listCalls' = Ended(listCalls, call)
        /\ pane' = IF ~call.on THEN pane
                   ELSE CASE out.code = "ok" -> Shows(pane, call.arg, out.body)
                          [] out.code = "aborted" -> [pane EXCEPT !.loading = FALSE]
                          [] OTHER -> [pane EXCEPT !.loading = FALSE, !.error = TRUE]
        /\ UNCHANGED <<kind, changes, settled, inTab, ended, listClicks>>

-----------------------------------------------------------------------------
(* The buttons *)

\* The status of the drafts, or the month, are always there and reset the
\* key; the month is a new Date each time, so its effect always runs.
ChooseFilter(f) ==
    /\ ListClick(0) /\ inTab
    /\ pane' = [pane EXCEPT !.filter = f, !.page = 1, !.key = None,
                            !.due = @ \/ kind = "calendar"
                                      \/ Chosen(pane) # [page |-> 1, filter |-> f]]
    /\ UNCHANGED <<kind, listCalls, changes, settled, inTab, ended>>

\* Previous and next are hidden while the list loads and after a failure.
TurnListPage(p) ==
    /\ ListClick(0) /\ inTab
    /\ pane.data # None /\ ~pane.loading /\ ~pane.error /\ p # pane.page
    /\ pane' = [pane EXCEPT !.page = p, !.due = TRUE]
    /\ UNCHANGED <<kind, listCalls, changes, settled, inTab, ended>>

RetryListLoad ==
    /\ ListClick(1) /\ inTab /\ pane.error /\ ~pane.loading
    /\ pane' = Asks(pane, Chosen(pane))
    /\ listCalls' = ListRequest(Chosen(pane))
    /\ UNCHANGED <<kind, changes, settled, inTab, ended>>

\* Coming to or leaving the list's tab.  (Questions about what is not saved
\* are asked in other tabs.)
handleWorkspaceTabChange ==
    /\ ListClick(0)
    /\ inTab' = ~inTab
    /\ pane' = [pane EXCEPT !.due = @ \/ kind = "calendar"]
    /\ UNCHANGED <<kind, listCalls, changes, settled, ended>>

\* A draft is edited, approved or planned in the create tab, one at a time.
ChangeDraft ==
    /\ ListClick(2) /\ ~inTab /\ Pending(listCalls, {"change"}) = {}
    /\ listCalls' = Begin(listCalls, Sent("change", None, Chosen(pane)))
    /\ UNCHANGED <<kind, pane, changes, settled, inTab, ended>>

\* Mutant: the key is kept, and what was asked for is not asked for again.
Refreshes_KeepsKey(at) ==
    IF Known(pane, at) THEN UNCHANGED pane ELSE pane' = Asks(pane, at)

\* refreshDraftLibrary and refreshCalendar with what they have closed over.
RefreshesList(at) == pane' = Asks(pane, at)

DraftChangeReturns(call) ==
    /\ call \in Returning(listCalls, "change")
    /\ IF Result(call).code = "ok"
       THEN /\ settled' = Result(call).body.shows
            /\ RefreshesList(call.arg)
            /\ listCalls' = IF pane'.loading
                            THEN Ended(ListRequest(call.arg), call)
                            ELSE Ended(listCalls, call)
       ELSE listCalls' = Ended(listCalls, call) /\ UNCHANGED <<pane, settled>>
    /\ UNCHANGED <<kind, changes, inTab, ended, listClicks>>

\* The session is over: the request is aborted but not overtaken, and the list
\* is emptied.  (The month stays.)
ListsCleared ==
    /\ ~ended /\ ended' = TRUE
    /\ listCalls' = Aborted(listCalls, {"load"})
    /\ pane' = [pane EXCEPT !.data = None, !.key = None, !.page = 1, !.error = @ /\ kind = "calendar"]
    /\ UNCHANGED <<kind, changes, settled, inTab, listClicks>>

-----------------------------------------------------------------------------
\* The API: a list as it is, a change made (its answer may be lost) or not.
ListAnswered(call) ==
    /\ call.at = "sent" /\ ~call.cut
    /\ \/ /\ call.kind = "load"
          /\ \E n \in ListPages :
                listCalls' = Answered(listCalls, call, Reply("ok", [pages |-> n, shows |-> changes]))
          /\ UNCHANGED changes
       \/ /\ call.kind = "change"
          /\ changes' = changes + 1
          /\ \E out \in {Reply("ok", [pages |-> 1, shows |-> changes']), Reply("uncertain", None)} :
                listCalls' = Answered(listCalls, call, out)
       \/ /\ listCalls' = Answered(listCalls, call, Reply("failed", None))
          /\ UNCHANGED changes
    /\ UNCHANGED <<kind, pane, settled, inTab, ended, listClicks>>

ListsNext ==
    \/ ListEffectRuns \/ RetryListLoad
    \/ \E f \in ListFilters : ChooseFilter(f)
    \/ \E p \in ListPages : TurnListPage(p)
    \/ handleWorkspaceTabChange \/ ChangeDraft \/ ListsCleared
    \/ \E call \in BagToSet(listCalls) :
          ListLoadReturns(call) \/ DraftChangeReturns(call) \/ ListAnswered(call)

-----------------------------------------------------------------------------
\* A list that has come to rest without an error shows the page and the filter
\* that are chosen, and every change whose success the workspace was told of:
\* a refresh that asks for a page the owner has left since is made good by the
\* effect, and no request that was overtaken or skipped leaves an older list.
ListsCatchUp ==
    /\ pane.loading => Wanted(listCalls, {"load"}) # {}
    /\ pane.data # None /\ Active /\ ~ended /\ ~pane.loading /\ ~pane.error /\ ~pane.due =>
          pane.data.at = Chosen(pane) /\ pane.data.shows >= settled
=============================================================================
