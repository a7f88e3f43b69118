----------------------------- MODULE SourcesView -----------------------------
(* The knowledge tab of the dashboard
   (apps/web/src/components/dashboard/knowledge-sources-view.tsx): the list of
   sources with its pages and status filter, the search, the details of the
   source that is selected, its edit form, and indexing, deleting and
   refreshing it from GitHub.  Every handler awaits the API; while it does,
   the other buttons, other tabs and other devices go on.

   The API's side is abstract: a source has a content version and a status.
   A text is known by the source and the version it was read from and by
   whether something was typed into it since.  "open" stands for the statuses
   pending and failed, which this screen treats alike.                      *)
EXTENDS ApiRequest, Integers

CONSTANTS Sources,        \* the sources the owner has
          GithubSources,  \* those that were imported from GitHub
          MaxCalls,       \* requests under way at one time (bound)
          MaxVersion,     \* content versions of a source (bound)
          MaxClicks       \* clicks that make a request (bound)

ASSUME SourcesAssumption ==
    /\ Sources # {} /\ None \notin Sources /\ GithubSources \subseteq Sources
    /\ MaxCalls \in Nat
    /\ MaxVersion \in Nat \ {0} /\ MaxClicks \in Nat

Pages   == 1 .. 2
Filters == {"all", "chosen"}

At(p, f) == [page |-> p, filter |-> f]

VARIABLES
    stored,       \* the API's sources
    sourceCalls,  \* the requests under way
    list,         \* the list: page and filter chosen, what is shown, listQueryKey, listDataRef
    detail,       \* the details: selectedSourceId, selectedSource, ...
    edit,         \* the edit form
    index,        \* indexing, indexingConfirm, indexingError
    github,       \* githubRefresh, githubRefreshLoading
    search,       \* searchResults, searchLoading, searchError
    deleting,
    signedOut,
    clicks,       \* requests clicked for so far
    strayed       \* since the last selection, an answer was put under another source

sourceVars == <<stored, sourceCalls, list, detail, edit, index, github, search,
                deleting, signedOut, clicks, strayed>>

NoText   == [id |-> None, ver |-> 0, typed |-> FALSE]
TextOf(source) == [id |-> source.id, ver |-> source.ver, typed |-> FALSE]

NoEdit == [on |-> FALSE, text |-> NoText, expected |-> 0, pending |-> FALSE,
           checking |-> FALSE, error |-> FALSE, conflict |-> FALSE, uncertain |-> FALSE]

NoDetail == [id |-> None, source |-> None, loading |-> FALSE, error |-> FALSE,
             searched |-> 0, notice |-> FALSE, notFound |-> FALSE]

NoList   == [page |-> 1, filter |-> "all", data |-> None, key |-> None, held |-> FALSE,
             loading |-> FALSE, error |-> FALSE, due |-> FALSE]

NoSearch == [results |-> None, loading |-> FALSE, error |-> FALSE]

\* The list has been loaded once: what the tab shows when the owner starts.
SourcesInit ==
    /\ stored = [s \in Sources |-> [there |-> TRUE, ver |-> 1, status |-> "open"]]
    /\ sourceCalls = EmptyBag
    /\ list = [NoList EXCEPT !.data = At(1, "all"), !.key = At(1, "all"), !.held = TRUE]
    /\ detail = NoDetail
    /\ edit = NoEdit
    /\ index = [pending |-> FALSE, confirm |-> FALSE, error |-> FALSE]
    /\ github = [refresh |-> None, loading |-> FALSE]
    /\ search = NoSearch
    /\ deleting = FALSE
    /\ signedOut = FALSE
    /\ clicks = 0
    /\ strayed = FALSE

ListKinds   == {"list"}
DetailKinds == {"view", "status"}
EditKinds   == {"save", "check"}
SearchKinds == {"search"}

\* Overtaking and aborting what loads the details: the finally of a status
\* refresh has its say even then.
DetailsWithdrawn(calls) ==
    Withdrawn(Overtaken(Aborted(calls, {"status"}), {"status"}), {"view"})

-----------------------------------------------------------------------------
(* What the buttons need *)

\* The panel with the details and its buttons.
PanelOpen == detail.id # None /\ detail.source # None /\ ~detail.loading /\ ~detail.error

EditDirty == edit.on /\ detail.source # None /\ edit.text # TextOf(detail.source)

\* The owner clicks, and `n` requests may follow.
Clicks(n) ==
    /\ ~signedOut /\ clicks < MaxClicks /\ BagCardinality(sourceCalls) + n <= MaxCalls
    /\ clicks' = clicks + 1

Touches == ~signedOut /\ UNCHANGED clicks

-----------------------------------------------------------------------------
(* The list *)

\* loadSources(page, force) with the filter its closure has: `calls` is what
\* the handler has left of the requests, `l` of the list.
Skips(l, p, f, force) == ~force /\ l.key = At(p, f) /\ l.held

Loads(l, calls, p, f, force) ==
    IF Skips(l, p, f, force)
    THEN list' = l /\ sourceCalls' = calls
    ELSE /\ list' = [l EXCEPT !.key = At(p, f), !.loading = TRUE, !.error = FALSE]
         /\ sourceCalls' = Begin(Withdrawn(calls, ListKinds), Sent("list", None, At(p, f)))

\* listQueryKey.current = ""; listDataRef.current = null; loadSources(page, true),
\* with the page and filter the handler has closed over.
Refreshes(l, calls, at) ==
    Loads([l EXCEPT !.key = None, !.held = FALSE], calls, at.page, at.filter, TRUE)

Here == At(list.page, list.filter)

\* The effect on page and filter has its timer run out.
ListEffect ==
    /\ list.due /\ ~signedOut /\ BagCardinality(sourceCalls) < MaxCalls
    /\ Loads([list EXCEPT !.due = FALSE], sourceCalls, list.page, list.filter, FALSE)
    /\ UNCHANGED <<stored, detail, edit, index, github, search, deleting, signedOut, clicks, strayed>>

\* The pager and, after a failure, Retry.
TurnPage(p) ==
    /\ Clicks(0) /\ list.data # None /\ ~list.loading /\ p # list.page
    /\ list' = [list EXCEPT !.page = p, !.due = TRUE]
    /\ UNCHANGED <<stored, sourceCalls, detail, edit, index, github, search, deleting, signedOut, strayed>>

RetryList ==
    /\ Clicks(1) /\ list.error /\ ~list.loading
    /\ Refreshes(list, sourceCalls, Here)
    /\ UNCHANGED <<stored, detail, edit, index, github, search, deleting, signedOut, strayed>>

handleStatusFilterChange(f) ==
    /\ Clicks(0) /\ f # list.filter
    /\ ~list.loading /\ ~deleting /\ ~index.pending /\ ~edit.pending
    /\ sourceCalls' = Withdrawn(sourceCalls, ListKinds)
    /\ list' = [list EXCEPT !.key = None, !.held = FALSE, !.filter = f, !.page = 1, !.due = TRUE]
    /\ UNCHANGED <<stored, detail, edit, index, github, search, deleting, signedOut, strayed>>

ListReturns(call) ==
    LET out  == Result(call)
        last == out.body.pages
        far  == call.arg.page > last
        got  == [list EXCEPT !.data = call.arg, !.held = TRUE, !.loading = FALSE,
                             !.page = IF far THEN last ELSE @,
                             !.key  = IF far THEN None ELSE @,
                             !.due  = @ \/ (far /\ list.page # last)]
    IN  /\ call \in Returning(sourceCalls, "list")
        /\ sourceCalls' = Ended(sourceCalls, call)
        /\ list' = IF ~call.on THEN list
                   ELSE CASE out.code = "ok" -> got
                          [] out.code = "aborted" -> [list EXCEPT !.loading = FALSE]
                          [] OTHER -> [list EXCEPT !.loading = FALSE, !.error = TRUE]
        /\ UNCHANGED <<stored, detail, edit, index, github, search, deleting, signedOut, clicks, strayed>>

-----------------------------------------------------------------------------
(* The details *)

\* "View details" in the list, or "View current source" of a search result
\* with the version it matched.  Leaving edits that are not saved is asked
\* about; the owner who says no has not clicked.
Offered(s, matched) ==
    \/ matched = 0 /\ list.data # None /\ ~list.loading /\ ~list.error
    \/ search.results = [id |-> s, ver |-> matched] /\ ~search.loading /\ ~search.error

handleViewDetails(s, matched) ==
    /\ Clicks(1) /\ Offered(s, matched)
    /\ ~index.pending /\ ~deleting /\ ~edit.pending
    /\ edit' = NoEdit
    /\ detail' = [NoDetail EXCEPT !.id = s, !.loading = TRUE, !.searched = matched]
    /\ index' = [index EXCEPT !.confirm = FALSE, !.error = FALSE]
    /\ sourceCalls' = Begin(DetailsWithdrawn(sourceCalls), Sent("view", s, Here))
    /\ strayed' = FALSE
    /\ UNCHANGED <<stored, list, github, search, deleting, signedOut>>

\* Mutant: an answer that was overtaken is shown.
ViewIsWanted_Always(call) == TRUE

\* requestNumber === detailRequestId.current.
ViewIsWanted(call) == call.on

ViewReturns(call) ==
    LET out  == Result(call)
        done == [detail EXCEPT !.loading = IF call.on THEN FALSE ELSE @]
        kept == Ended(sourceCalls, call)
    IN  /\ call \in Returning(sourceCalls, "view")
        /\ IF out.code = "gone" /\ ViewIsWanted(call) /\ detail.searched = 0
           THEN Refreshes(list, kept, call.arg)
           ELSE list' = list /\ sourceCalls' = kept
        /\ detail' =
             IF out.code = "aborted" \/ ~ViewIsWanted(call) THEN done
             ELSE CASE out.code = "ok" ->
                         [done EXCEPT !.source = out.body,
                                      !.notice = @ \/ detail.searched \notin {0, out.body.ver}]
                    [] out.code = "gone" ->
                         IF detail.searched # 0
                         THEN [done EXCEPT !.error = TRUE, !.notFound = TRUE]
                         ELSE [done EXCEPT !.error = TRUE, !.id = None]
                    [] OTHER -> [done EXCEPT !.error = TRUE]
        /\ UNCHANGED <<stored, edit, index, github, search, deleting, signedOut, clicks, strayed>>

\* The list is written back as it was when the button was pressed.
handleRefreshStatus ==
    /\ Clicks(1) /\ PanelOpen /\ ~edit.on /\ ~index.pending
    /\ detail.source.status = "indexing" \/ index.error
    /\ detail' = [detail EXCEPT !.loading = TRUE]
    /\ index' = [index EXCEPT !.error = FALSE]
    /\ sourceCalls' = Begin(Overtaken(sourceCalls, DetailKinds),
                            Sent("status", detail.source.id, [here |-> Here, data |-> list.data]))
    /\ UNCHANGED <<stored, list, edit, github, search, deleting, signedOut, strayed>>

\* Its finally ends the wait whatever has been asked since.
StatusReturns(call) ==
    LET out  == Result(call)
        done == [detail EXCEPT !.loading = FALSE]
        kept == Ended(sourceCalls, call)
    IN  /\ call \in Returning(sourceCalls, "status")
        /\ CASE call.on /\ out.code = "ok" /\ call.arg.data # None ->
                  list' = [list EXCEPT !.data = call.arg.data, !.held = TRUE] /\ sourceCalls' = kept
             [] call.on /\ out.code = "gone" -> Refreshes(list, kept, call.arg.here)
             [] OTHER -> list' = list /\ sourceCalls' = kept
        /\ detail' =
             IF ~call.on \/ out.code = "aborted" THEN done
             ELSE CASE out.code = "ok" -> [done EXCEPT !.source = out.body]
                    [] out.code = "gone" -> [done EXCEPT !.error = TRUE, !.id = None, !.source = None]
                    [] OTHER -> [done EXCEPT !.error = TRUE]
        /\ UNCHANGED <<stored, edit, index, github, search, deleting, signedOut, clicks, strayed>>

\* Mutant: closing also overtakes the request whose finally ends the wait.
handleCloseDetails_Overtakes ==
    /\ Touches /\ detail.id # None /\ ~edit.pending
    /\ sourceCalls' = DetailsWithdrawn(Withdrawn(sourceCalls, EditKinds))
    /\ edit' = NoEdit
    /\ detail' = [NoDetail EXCEPT !.loading = detail.loading]
    /\ strayed' = FALSE
    /\ UNCHANGED <<stored, list, index, github, search, deleting, signedOut>>

\* The edit's requests are withdrawn; that of the details is only aborted,
\* and its finally ends the wait.
handleCloseDetails ==
    /\ Touches /\ detail.id # None /\ ~edit.pending
    /\ sourceCalls' = Aborted(Withdrawn(sourceCalls, EditKinds), DetailKinds)
    /\ edit' = NoEdit
    /\ detail' = [NoDetail EXCEPT !.loading = detail.loading]
    /\ strayed' = FALSE
    /\ UNCHANGED <<stored, list, index, github, search, deleting, signedOut>>

-----------------------------------------------------------------------------
(* The edit form *)

beginEditing(source) ==
    [edit EXCEPT !.on = TRUE, !.text = TextOf(source), !.expected = source.ver,
                 !.error = FALSE, !.conflict = FALSE, !.uncertain = FALSE]

StartEditing ==
    /\ Touches /\ PanelOpen /\ ~edit.on /\ ~deleting /\ ~index.pending
    /\ edit' = beginEditing(detail.source)
    /\ UNCHANGED <<stored, sourceCalls, list, detail, index, github, search, deleting, signedOut, strayed>>

TypeInEdit ==
    /\ Touches /\ PanelOpen /\ edit.on /\ ~edit.text.typed
    /\ edit' = [edit EXCEPT !.text.typed = TRUE]
    /\ UNCHANGED <<stored, sourceCalls, list, detail, index, github, search, deleting, signedOut, strayed>>

handleCancelEdit ==
    /\ Touches /\ PanelOpen /\ edit.on /\ ~edit.pending
    /\ edit' = NoEdit
    /\ UNCHANGED <<stored, sourceCalls, list, detail, index, github, search, deleting, signedOut, strayed>>

\* Saving also overtakes the list, the details and the search.
handleSaveEdit ==
    /\ Clicks(1) /\ PanelOpen /\ EditDirty
    /\ ~edit.pending /\ ~edit.checking /\ ~deleting /\ ~index.pending
    /\ sourceCalls' =
         Begin(DetailsWithdrawn(Withdrawn(sourceCalls, EditKinds \cup ListKinds \cup SearchKinds)),
               Sent("save", detail.source.id,
                    [text |-> edit.text, expected |-> edit.expected, here |-> Here]))
    /\ edit' = [edit EXCEPT !.pending = TRUE, !.error = FALSE, !.conflict = FALSE, !.uncertain = FALSE]
    /\ UNCHANGED <<stored, list, detail, index, github, search, deleting, signedOut, strayed>>

SaveReturns(call) ==
    LET out   == Result(call)
        saved == call.on /\ out.code = "ok"
        kept  == Ended(sourceCalls, call)
    IN  /\ call \in Returning(sourceCalls, "save")
        /\ edit' = IF ~call.on THEN edit
                   ELSE CASE saved -> NoEdit
                          [] out.code = "aborted" -> [edit EXCEPT !.pending = FALSE]
                          [] OTHER -> [edit EXCEPT !.pending = FALSE, !.error = TRUE,
                                                   !.conflict  = out.code = "conflict",
                                                   !.uncertain = out.code = "uncertain"]
        /\ IF saved
           THEN /\ detail' = [detail EXCEPT !.source = out.body, !.id = out.body.id]
                /\ search' = [search EXCEPT !.results = None, !.error = FALSE]
                /\ index' = [index EXCEPT !.confirm = FALSE, !.error = FALSE]
                \* loadSources twice in a row: the second withdraws the first
                /\ Refreshes(list, kept, call.arg.here)
                /\ strayed' = FALSE
           ELSE /\ sourceCalls' = kept
                /\ UNCHANGED <<detail, search, index, list, strayed>>
        /\ UNCHANGED <<stored, github, deleting, signedOut, clicks>>

\* "Reload current source" of a conflict, "Check save status" of a save whose
\* outcome is uncertain.
handleCheckEditStatus(reload) ==
    /\ Clicks(1) /\ PanelOpen /\ edit.on /\ edit.error
    /\ IF reload THEN edit.conflict ELSE edit.uncertain
    /\ ~edit.checking /\ ~edit.pending
    /\ sourceCalls' = Begin(Withdrawn(sourceCalls, EditKinds),
                            Sent("check", detail.id, [reload |-> reload, expected |-> edit.expected]))
    /\ edit' = [edit EXCEPT !.checking = TRUE, !.error = FALSE]
    /\ UNCHANGED <<stored, list, detail, index, github, search, deleting, signedOut, strayed>>

\* Mutant: a check takes the version it has found for the one that was edited.
Checked_Adopts(form, call, source) ==
    IF call.arg.reload THEN [beginEditing(source) EXCEPT !.checking = FALSE]
    ELSE [form EXCEPT !.uncertain = FALSE, !.checking = FALSE, !.error = TRUE,
                      !.conflict = FALSE, !.expected = source.ver]

Checked(form, call, source) ==
    IF call.arg.reload THEN [beginEditing(source) EXCEPT !.checking = FALSE]
    ELSE [form EXCEPT !.uncertain = FALSE, !.checking = FALSE, !.error = TRUE,
                      !.conflict = call.arg.expected # source.ver]

\* The answer is put under another source than the one that is selected.
Strays(source) == detail.id \notin {None, source.id}

CheckReturns(call) ==
    LET out   == Result(call)
        found == call.on /\ out.code = "ok"
    IN  /\ call \in Returning(sourceCalls, "check")
        /\ sourceCalls' = Ended(sourceCalls, call)
        /\ edit' = IF ~call.on THEN edit
                   ELSE CASE found -> Checked(edit, call, out.body)
                          [] out.code = "aborted" -> [edit EXCEPT !.checking = FALSE]
                          [] OTHER -> [edit EXCEPT !.checking = FALSE, !.error = TRUE]
        /\ IF found
           THEN /\ detail' = [detail EXCEPT !.source = out.body]
                /\ list' = [list EXCEPT !.held = @ \/ list.data # None]
                /\ strayed' = (strayed \/ Strays(out.body))
           ELSE UNCHANGED <<detail, list, strayed>>
        /\ UNCHANGED <<stored, index, github, search, deleting, signedOut, clicks>>

-----------------------------------------------------------------------------
(* Deleting, indexing, GitHub *)

handleDelete ==
    /\ Clicks(1) /\ PanelOpen /\ ~edit.on /\ ~deleting /\ ~index.pending
    /\ deleting' = TRUE
    /\ sourceCalls' = Begin(sourceCalls, Sent("delete", detail.source.id, Here))
    /\ UNCHANGED <<stored, list, detail, edit, index, github, search, signedOut, strayed>>

DeleteReturns(call) ==
    LET out  == Result(call)
        kept == Ended(sourceCalls, call)
    IN  /\ call \in Returning(sourceCalls, "delete")
        /\ deleting' = FALSE
        /\ IF out.code \in {"ok", "gone"}
           THEN /\ detail' = [detail EXCEPT !.id = None, !.source = None, !.error = out.code = "gone"]
                /\ Refreshes(list, kept, call.arg)
           ELSE /\ detail' = [detail EXCEPT !.error = TRUE]
                /\ sourceCalls' = kept /\ list' = list
        /\ search' = IF out.code = "ok" THEN [search EXCEPT !.results = None, !.error = FALSE] ELSE search
        /\ UNCHANGED <<stored, edit, index, github, signedOut, clicks, strayed>>

AskToIndex(yes) ==
    /\ Touches /\ PanelOpen /\ ~edit.on /\ ~index.pending
    /\ detail.source.status # "indexed" /\ index.confirm # yes /\ (yes => ~deleting)
    /\ index' = [index EXCEPT !.confirm = yes]
    /\ UNCHANGED <<stored, sourceCalls, list, detail, edit, github, search, deleting, signedOut, strayed>>

handleIndex ==
    /\ Clicks(1) /\ PanelOpen /\ ~edit.on /\ ~index.pending /\ ~deleting
    /\ detail.source.status # "indexed" /\ index.confirm
    /\ index' = [index EXCEPT !.pending = TRUE, !.error = FALSE]
    /\ sourceCalls' = Begin(DetailsWithdrawn(Withdrawn(sourceCalls, ListKinds)),
                            Sent("index", detail.source.id, Here))
    /\ UNCHANGED <<stored, list, detail, edit, github, search, deleting, signedOut, strayed>>

IndexReturns(call) ==
    LET out  == Result(call)
        kept == Ended(sourceCalls, call)
    IN  /\ call \in Returning(sourceCalls, "index")
        /\ detail' = CASE out.code = "ok" -> [detail EXCEPT !.source = out.body]
                       [] out.code = "gone" -> [detail EXCEPT !.error = TRUE, !.id = None, !.source = None]
                       [] OTHER -> detail
        /\ index' = [pending |-> FALSE,
                     confirm |-> index.confirm /\ out.code = "ok",
                     error   |-> index.error \/ out.code \notin {"ok", "gone"}]
        /\ IF out.code \in {"ok", "gone"} THEN Refreshes(list, kept, call.arg)
           ELSE sourceCalls' = kept /\ list' = list
        /\ UNCHANGED <<stored, edit, github, search, deleting, signedOut, clicks, strayed>>

handleGithubRefreshCheck ==
    /\ Clicks(1) /\ PanelOpen /\ detail.source.id \in GithubSources
    /\ ~github.loading /\ ~edit.on /\ ~deleting /\ ~index.pending
    /\ github' = [github EXCEPT !.loading = TRUE]
    /\ sourceCalls' = Begin(sourceCalls, Sent("upstream", detail.source.id, None))
    /\ UNCHANGED <<stored, list, detail, edit, index, search, deleting, signedOut, strayed>>

UpstreamReturns(call) ==
    LET out  == Result(call)
    IN  /\ call \in Returning(sourceCalls, "upstream")
        /\ sourceCalls' = Ended(sourceCalls, call)
        /\ github' = [refresh |-> IF out.code = "ok" THEN call.of ELSE github.refresh, loading |-> FALSE]
        /\ UNCHANGED <<stored, list, detail, edit, index, search, deleting, signedOut, clicks, strayed>>

\* What was found upstream stays when another source is selected: the button
\* then refreshes that one.
handleGithubRefresh ==
    /\ Clicks(1) /\ PanelOpen /\ detail.source.id \in GithubSources
    /\ github.refresh # None /\ ~github.loading
    /\ github' = [github EXCEPT !.loading = TRUE]
    /\ sourceCalls' = Begin(sourceCalls, Sent("refresh", detail.source.id, [expected |-> detail.source.ver]))
    /\ UNCHANGED <<stored, list, detail, edit, index, search, deleting, signedOut, strayed>>

RefreshReturns(call) ==
    LET out  == Result(call)
    IN  /\ call \in Returning(sourceCalls, "refresh")
        /\ sourceCalls' = Ended(sourceCalls, call)
        /\ IF out.code = "ok"
           THEN /\ detail' = [detail EXCEPT !.source = out.body]
                /\ github' = [refresh |-> None, loading |-> FALSE]
                /\ strayed' = (strayed \/ Strays(out.body))
           ELSE /\ github' = [github EXCEPT !.loading = FALSE]
                /\ UNCHANGED <<detail, strayed>>
        /\ UNCHANGED <<stored, list, edit, index, search, deleting, signedOut, clicks>>

-----------------------------------------------------------------------------
(* The search *)

handleSearch ==
    /\ Clicks(1) /\ ~deleting /\ ~index.pending /\ ~search.loading
    /\ search' = [results |-> None, loading |-> TRUE, error |-> FALSE]
    /\ sourceCalls' = Begin(Withdrawn(sourceCalls, SearchKinds), Sent("search", None, None))
    /\ UNCHANGED <<stored, list, detail, edit, index, github, deleting, signedOut, strayed>>

SearchReturns(call) ==
    LET out  == Result(call)
    IN  /\ call \in Returning(sourceCalls, "search")
        /\ sourceCalls' = Ended(sourceCalls, call)
        /\ search' = IF ~call.on THEN search
                     ELSE CASE out.code = "ok" -> [search EXCEPT !.results = out.body, !.loading = FALSE]
                            [] out.code = "aborted" -> [search EXCEPT !.loading = FALSE]
                            [] OTHER -> [search EXCEPT !.error = TRUE, !.loading = FALSE]
        /\ UNCHANGED <<stored, list, detail, edit, index, github, deleting, signedOut, clicks, strayed>>

-----------------------------------------------------------------------------
(* The tab, the session and the note form *)

\* The owner leaves the tab and comes back: the search ends, the list's
\* effect runs again.
LeaveAndReturn ==
    /\ Clicks(0)
    /\ sourceCalls' = Withdrawn(sourceCalls, SearchKinds)
    /\ search' = [search EXCEPT !.loading = FALSE]
    /\ list' = [list EXCEPT !.due = TRUE]
    /\ UNCHANGED <<stored, detail, edit, index, github, deleting, signedOut, strayed>>

\* Mutant: the search is not overtaken.
clearSourceState_KeepsSearch ==
    /\ sourceCalls' = DetailsWithdrawn(Withdrawn(sourceCalls, ListKinds \cup EditKinds))
    /\ list' = [NoList EXCEPT !.loading = list.loading]
    /\ detail' = NoDetail
    /\ edit' = NoEdit
    /\ index' = [pending |-> FALSE, confirm |-> FALSE, error |-> FALSE]
    /\ search' = NoSearch

clearSourceState ==
    /\ sourceCalls' = DetailsWithdrawn(Withdrawn(sourceCalls, ListKinds \cup EditKinds \cup SearchKinds))
    /\ list' = [NoList EXCEPT !.loading = list.loading]
    /\ detail' = NoDetail
    /\ edit' = NoEdit
    /\ index' = [pending |-> FALSE, confirm |-> FALSE, error |-> FALSE]
    /\ search' = NoSearch

\* Any request may find the session over; the effect then clears the tab.
SignedOut ==
    /\ ~signedOut /\ signedOut' = TRUE
    /\ clearSourceState
    /\ UNCHANGED <<stored, github, deleting, clicks, strayed>>

\* handleCreate of the note form has been answered: first page, list anew.
NoteSaved ==
    /\ ~signedOut /\ Clicks(1)
    /\ Loads([list EXCEPT !.page = 1, !.due = @ \/ list.page # 1, !.key = None, !.held = FALSE],
             sourceCalls, 1, list.filter, TRUE)
    /\ UNCHANGED <<stored, detail, edit, index, github, search, deleting, signedOut, strayed>>

\* A file of a repository was saved: the first page is loaded, page stays.
NoteImported ==
    /\ ~signedOut /\ Clicks(1)
    /\ Loads(list, sourceCalls, 1, list.filter, TRUE)
    /\ UNCHANGED <<stored, detail, edit, index, github, search, deleting, signedOut, strayed>>

-----------------------------------------------------------------------------
(* The API and what else happens to the sources *)

Bumped(s) == [stored EXCEPT ![s].ver = @ + 1, ![s].status = "open"]

\* A source as the API sends it: PublicKnowledgeSource, as far as it matters.
Current(st, s) == Reply("ok", [id |-> s, ver |-> st[s].ver, status |-> st[s].status])
Changes == {"save", "refresh", "delete", "index"}

Failed == Reply("failed", None)
Gone   == Reply("gone", None)

\* A read is answered with what is stored; a list asked for after the session
\* is over is refused.
ReadAnswers(call) ==
    CASE call.kind = "list" -> IF signedOut THEN {} ELSE {Reply("ok", [pages |-> n]) : n \in Pages}
      [] call.kind = "search" ->
            {Reply("ok", [id |-> x, ver |-> stored[x].ver]) : x \in {y \in Sources : stored[y].there}}
      [] call.kind = "upstream" -> {Reply("ok", None)}
      [] OTHER -> IF stored[call.of].there THEN {Current(stored, call.of)} ELSE {Gone}

ApiReads(call) ==
    /\ call.at = "sent" /\ ~call.cut /\ call.kind \notin Changes
    /\ \E out \in ReadAnswers(call) \cup {Failed} : sourceCalls' = Answered(sourceCalls, call, out)
    /\ UNCHANGED <<stored, list, detail, edit, index, github, search, deleting, signedOut, clicks, strayed>>

\* A save, a refresh, a deletion or an indexing is done and answered; the
\* answer may be lost, and then the screen does not know.
Done(call) ==
    /\ call.kind \in Changes /\ stored[call.of].there
    /\ CASE call.kind = "save" ->
              /\ stored[call.of].ver = call.arg.expected /\ stored[call.of].status # "indexing"
              /\ stored[call.of].ver < MaxVersion /\ stored' = Bumped(call.of)
         [] call.kind = "refresh" ->
              /\ stored[call.of].ver = call.arg.expected
              /\ stored[call.of].ver < MaxVersion /\ stored' = Bumped(call.of)
         [] call.kind = "delete" -> stored' = [stored EXCEPT ![call.of].there = FALSE]
         [] call.kind = "index"  -> stored' = [stored EXCEPT ![call.of].status = "indexed"]

ApiDoes(call) ==
    /\ call.at = "sent" /\ ~call.cut /\ Done(call)
    /\ \E out \in {Current(stored', call.of), Reply("uncertain", None)} :
          sourceCalls' = Answered(sourceCalls, call, out)
    /\ UNCHANGED <<list, detail, edit, index, github, search, deleting, signedOut, clicks, strayed>>

\* It is refused, or fails; indexing may go on after a timeout.
Refusals(call) ==
    {Failed} \cup (IF stored[call.of].there THEN {} ELSE {Gone})
    \cup (IF call.kind # "save" THEN {}
          ELSE {Reply("uncertain", None)}
               \cup (IF stored[call.of].ver # call.arg.expected THEN {Reply("conflict", None)} ELSE {}))

ApiRefuses(call) ==
    /\ call.at = "sent" /\ ~call.cut /\ call.kind \in Changes
    /\ \E out \in Refusals(call) : sourceCalls' = Answered(sourceCalls, call, out)
    /\ stored' \in {stored} \cup
         (IF call.kind = "index" /\ stored[call.of].there
          THEN {[stored EXCEPT ![call.of].status = "indexing"]} ELSE {})
    /\ UNCHANGED <<list, detail, edit, index, github, search, deleting, signedOut, clicks, strayed>>

\* Another tab edits or deletes the source.
Elsewhere(s) ==
    /\ Clicks(0) /\ stored[s].there
    /\ \/ stored[s].ver < MaxVersion /\ stored' = Bumped(s)
       \/ stored' = [stored EXCEPT ![s].there = FALSE]
    /\ UNCHANGED <<sourceCalls, list, detail, edit, index, github, search, deleting, signedOut, strayed>>

-----------------------------------------------------------------------------
SourceReturns(call) ==
    \/ ListReturns(call) \/ ViewReturns(call) \/ StatusReturns(call) \/ SaveReturns(call)
    \/ CheckReturns(call) \/ DeleteReturns(call) \/ IndexReturns(call)
    \/ UpstreamReturns(call) \/ RefreshReturns(call) \/ SearchReturns(call)

SourcesNext ==
    \/ ListEffect \/ RetryList
    \/ \E p \in Pages : TurnPage(p)
    \/ \E f \in Filters : handleStatusFilterChange(f)
    \/ \E s \in Sources, matched \in 0 .. MaxVersion : handleViewDetails(s, matched)
    \/ handleRefreshStatus \/ handleCloseDetails
    \/ StartEditing \/ TypeInEdit \/ handleCancelEdit \/ handleSaveEdit
    \/ \E reload \in BOOLEAN : handleCheckEditStatus(reload)
    \/ handleDelete \/ handleIndex
    \/ \E yes \in BOOLEAN : AskToIndex(yes)
    \/ handleGithubRefreshCheck \/ handleGithubRefresh
    \/ handleSearch \/ LeaveAndReturn \/ SignedOut \/ NoteSaved \/ NoteImported
    \/ \E call \in BagToSet(sourceCalls) :
          SourceReturns(call) \/ ApiReads(call) \/ ApiDoes(call) \/ ApiRefuses(call)
    \/ \E s \in Sources : Elsewhere(s)

-----------------------------------------------------------------------------
\* A wait that is shown has a request that will end it: no button of the tab
\* stays blocked for ever.  (The list and the search are not among them: a
\* save or an indexing overtakes their requests and leaves their waits on.)
SourceWaitsEnd ==
    /\ detail.loading => Wanted(sourceCalls, DetailKinds) # {}
    /\ edit.pending   => Wanted(sourceCalls, {"save"}) # {}
    /\ edit.checking  => Wanted(sourceCalls, {"check"}) # {}
    /\ index.pending  => Pending(sourceCalls, {"index"}) # {}
    /\ deleting       => Pending(sourceCalls, {"delete"}) # {}
    /\ github.loading => Pending(sourceCalls, {"upstream", "refresh"}) # {}

\* The details shown are those of the source that is selected, and nobody's
\* after the session is over, whatever order the answers come in.  Excepted
\* is what the code does not look at: a status check or a GitHub refresh
\* answered after another source was selected puts its source under that one,
\* until a source is selected or saved again.
DetailsAreSelected ==
    /\ PanelOpen => detail.source.id = detail.id \/ strayed
    /\ signedOut => detail.id = None /\ list.data = None /\ search.results = None

\* A save always names the version its text was taken from, through lost
\* answers, checks, conflicts and reloads: no check moves the form on to a
\* version whose text the owner has not been shown.  And it is sent to the
\* source its text was taken from, with one exception, which the code has: a
\* check, or a GitHub refresh, answered after another source was selected is
\* put into the form or the details of that one, and until a source is
\* selected or saved again, a save may send one source's text to another.
\* The API refuses that one only if the two versions differ.
EditsBuildOnWhatTheyReplace ==
    \A call \in Pending(sourceCalls, {"save"}) :
        /\ call.arg.text.ver = call.arg.expected
        /\ call.arg.text.id = call.of \/ strayed
=============================================================================
