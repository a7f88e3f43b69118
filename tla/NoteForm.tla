------------------------------ MODULE NoteForm ------------------------------
(* The form of the knowledge tab that makes a source: what is typed into it,
   saving it, and the imports that fill it (a text file, the chosen files of a
   ZIP, the chosen pages of a PDF) or that save a file of a GitHub repository
   without it (knowledge-sources-view.tsx, repository-zip-import-panel.tsx,
   pdf-import-panel.tsx, github-import-panel.tsx).

   A text is one of a few values: nothing, two that are typed, one that is
   imported.  The rest of the tab may hold these buttons back while it deletes,
   indexes or saves an edit; that only takes steps away and is left out.    *)
EXTENDS ApiRequest

CONSTANTS MaxNoteCalls,   \* requests and file reads under way at one time (bound)
          MaxNoteClicks   \* clicks that start one (bound)

ASSUME NoteAssumption == MaxNoteCalls \in Nat /\ MaxNoteClicks \in Nat

Blank    == "blank"
Imported == "imported"
Typed    == {"typed", "retyped"}
Archives == {"zip", "pdf"}

VARIABLES
    form,        \* title and content
    noteCalls,   \* the requests and file reads under way
    creating,
    importing,   \* importLoading: a text file is being read
    panels,      \* the ZIP and the PDF panel
    repo,        \* the GitHub panel
    onTab,       \* the knowledge tab is the active one
    asked,       \* the owner agreed to the last replacement of the form
    noteClicks

noteVars == <<form, noteCalls, creating, importing, panels, repo, onTab, asked, noteClicks>>

Closed == [open |-> FALSE, loading |-> FALSE, ready |-> FALSE, initial |-> Blank]
NoRepo == [open |-> FALSE, loading |-> FALSE, preview |-> FALSE, path |-> None, file |-> None]

NotesInit ==
    /\ form = Blank
    /\ noteCalls = EmptyBag
    /\ creating = FALSE /\ importing = FALSE
    /\ panels = [k \in Archives |-> Closed]
    /\ repo = NoRepo
    /\ onTab = TRUE
    /\ asked = FALSE
    /\ noteClicks = 0

Started(call) ==
    /\ onTab /\ noteClicks < MaxNoteClicks /\ BagCardinality(noteCalls) < MaxNoteCalls
    /\ noteClicks' = noteClicks + 1
    /\ noteCalls' = Begin(noteCalls, call)

\* formValuesRef follows the form; typing is never held back.
Type(text) ==
    /\ onTab /\ form # text
    /\ form' = text
    /\ UNCHANGED <<noteCalls, creating, importing, panels, repo, onTab, asked, noteClicks>>

\* Saving is not held back by a save that is under way.
handleCreate ==
    /\ form # Blank
    /\ Started(Sent("create", form, None))
    /\ creating' = TRUE
    /\ UNCHANGED <<form, importing, panels, repo, onTab, asked>>

CreateReturns(call) ==
    /\ call \in Returning(noteCalls, "create")
    /\ noteCalls' = Ended(noteCalls, call)
    /\ creating' = FALSE
    /\ form' = IF Result(call).code = "ok" THEN Blank ELSE form
    /\ UNCHANGED <<importing, panels, repo, onTab, asked, noteClicks>>

-----------------------------------------------------------------------------
(* The imports into the form *)

\* Mutant: the form as it was when the file was chosen decides.
MustAsk_Stale(initial) == initial # Blank

\* The form has changed since the file was chosen, or has something in it.
MustAsk(initial) == form # initial \/ form # Blank

\* The file's text goes into the form; if there is something to lose the owner
\* is asked and may refuse.
Replaces(initial) ==
    /\ form' = Imported
    /\ asked' = MustAsk(initial)

Keeps(initial) ==
    /\ MustAsk(initial)
    /\ UNCHANGED <<form, asked>>

HeldBack == creating \/ importing

handleImportTextFile ==
    /\ ~HeldBack
    /\ Started(Sent("file", None, [initial |-> form]))
    /\ importing' = TRUE
    /\ UNCHANGED <<form, creating, panels, repo, onTab, asked>>

\* A file that is not readable text, is blank or too long is refused.
FileReturns(call) ==
    /\ call \in Returning(noteCalls, "file")
    /\ noteCalls' = Ended(noteCalls, call)
    /\ importing' = (importing /\ ~call.on)
    /\ IF call.on /\ Result(call).code = "ok"
       THEN Replaces(call.arg.initial) \/ Keeps(call.arg.initial)
       ELSE UNCHANGED <<form, asked>>
    /\ UNCHANGED <<creating, panels, repo, onTab, noteClicks>>

\* The panel is mounted anew when it opens and when it closes, which gives up
\* the file it reads.
OpenPanel(k) ==
    /\ onTab /\ ~HeldBack /\ ~panels[k].open
    /\ panels' = [p \in Archives |-> [Closed EXCEPT !.open = p = k]]
    /\ noteCalls' = Withdrawn(noteCalls, Archives)
    /\ UNCHANGED <<form, creating, importing, repo, onTab, asked, noteClicks>>

ClosePanel(k) ==
    /\ onTab /\ panels[k].open
    /\ panels' = [panels EXCEPT ![k] = Closed]
    /\ noteCalls' = Withdrawn(noteCalls, {k})
    /\ UNCHANGED <<form, creating, importing, repo, onTab, asked, noteClicks>>

handleFile(k) ==
    /\ panels[k].open /\ ~panels[k].loading /\ ~creating
    /\ Started(Sent(k, None, None))
    /\ panels' = [panels EXCEPT ![k] = [@ EXCEPT !.loading = TRUE, !.ready = FALSE, !.initial = form]]
    /\ UNCHANGED <<form, creating, importing, repo, onTab, asked>>

PanelReturns(k, call) ==
    /\ call \in Returning(noteCalls, k)
    /\ noteCalls' = Ended(noteCalls, call)
    /\ panels' = IF call.on
                 THEN [panels EXCEPT ![k] = [@ EXCEPT !.loading = FALSE,
                                                      !.ready = Result(call).code = "ok"]]
                 ELSE panels
    /\ UNCHANGED <<form, creating, importing, repo, onTab, asked, noteClicks>>

\* "Import into note": handleRepositoryZipImport and handlePdfImport.
ImportArchive(k) ==
    /\ onTab /\ panels[k].open /\ panels[k].ready /\ ~creating
    /\ \/ /\ Replaces(panels[k].initial)
          /\ panels' = [panels EXCEPT ![k] = Closed]
          /\ noteCalls' = Withdrawn(noteCalls, {k})
       \/ Keeps(panels[k].initial) /\ UNCHANGED <<panels, noteCalls>>
    /\ UNCHANGED <<creating, importing, repo, onTab, noteClicks>>

-----------------------------------------------------------------------------
(* The GitHub panel: one operation at a time; it keeps its state when it is
   closed, and its answers still come *)

GithubKinds == {"preview", "read", "import"}
Paths == {"one", "other"}

OpenRepo ==
    /\ onTab /\ ~HeldBack /\ ~repo.open
    /\ repo' = [repo EXCEPT !.open = TRUE]
    /\ panels' = [k \in Archives |-> Closed]
    /\ noteCalls' = Withdrawn(noteCalls, Archives)
    /\ UNCHANGED <<form, creating, importing, onTab, asked, noteClicks>>

CloseRepo ==
    /\ onTab /\ repo.open
    /\ repo' = [repo EXCEPT !.open = FALSE]
    /\ UNCHANGED <<form, noteCalls, creating, importing, panels, onTab, asked, noteClicks>>

RunRepo(call) ==
    /\ repo.open /\ ~repo.loading
    /\ Started(call)
    /\ UNCHANGED <<form, creating, importing, panels, onTab, asked>>

Preview ==
    /\ ~repo.preview /\ ~creating
    /\ RunRepo(Sent("preview", None, None))
    /\ repo' = [repo EXCEPT !.loading = TRUE]

ReadFile(path) ==
    /\ repo.preview
    /\ RunRepo(Sent("read", path, None))
    /\ repo' = [repo EXCEPT !.loading = TRUE, !.path = path]

SaveReviewed ==
    /\ repo.preview /\ repo.file # None /\ ~creating
    /\ RunRepo(Sent("import", repo.file, None))
    /\ repo' = [repo EXCEPT !.loading = TRUE]

RepoReturns(call) ==
    /\ \E kind \in GithubKinds : call \in Returning(noteCalls, kind)
    /\ noteCalls' = Ended(noteCalls, call)
    /\ repo' = IF Result(call).code # "ok" THEN [repo EXCEPT !.loading = FALSE]
               ELSE CASE call.kind = "preview" -> [repo EXCEPT !.loading = FALSE, !.preview = TRUE]
                      [] call.kind = "read"    -> [repo EXCEPT !.loading = FALSE, !.file = call.of]
                      [] call.kind = "import"  -> [repo EXCEPT !.loading = FALSE, !.open = FALSE]
    /\ UNCHANGED <<form, creating, importing, panels, onTab, asked, noteClicks>>

-----------------------------------------------------------------------------
\* Mutant: what the tab's leaving left of the imports is taken on return.
LeaveTab_Keeps ==
    /\ onTab /\ onTab' = FALSE
    /\ noteCalls' = Withdrawn(noteCalls, Archives)
    /\ importing' = FALSE
    /\ panels' = [k \in Archives |-> Closed]
    /\ UNCHANGED <<form, creating, repo, asked, noteClicks>>

\* Another tab is chosen: the file that is read is no longer wanted, and its
\* panels close.
LeaveTab ==
    /\ onTab /\ onTab' = FALSE
    /\ noteCalls' = Withdrawn(Overtaken(noteCalls, {"file"}), Archives)
    /\ importing' = FALSE
    /\ panels' = [k \in Archives |-> Closed]
    /\ UNCHANGED <<form, creating, repo, asked, noteClicks>>

ReturnToTab ==
    /\ ~onTab /\ onTab' = TRUE
    /\ UNCHANGED <<form, noteCalls, creating, importing, panels, repo, asked, noteClicks>>

\* The API, the file system and the parsers answer or fail.
NoteAnswered(call) ==
    /\ call.at = "sent"
    /\ \E code \in {"ok", "failed"} : noteCalls' = Answered(noteCalls, call, Reply(code, None))
    /\ UNCHANGED <<form, creating, importing, panels, repo, onTab, asked, noteClicks>>

NotesNext ==
    \/ \E text \in Typed \cup {Blank} : Type(text)
    \/ handleCreate \/ handleImportTextFile
    \/ \E k \in Archives : OpenPanel(k) \/ ClosePanel(k) \/ handleFile(k) \/ ImportArchive(k)
    \/ OpenRepo \/ CloseRepo \/ Preview \/ SaveReviewed
    \/ \E path \in Paths : ReadFile(path)
    \/ LeaveTab \/ ReturnToTab
    \/ \E call \in BagToSet(noteCalls) :
          \/ CreateReturns(call) \/ FileReturns(call) \/ RepoReturns(call) \/ NoteAnswered(call)
          \/ \E k \in Archives : PanelReturns(k, call)

-----------------------------------------------------------------------------
\* A wait that is shown has a request or a file read that will end it.
NoteWaitsEnd ==
    /\ importing    => Wanted(noteCalls, {"file"}) # {}
    /\ creating     => Pending(noteCalls, {"create"}) # {}
    /\ repo.loading => Pending(noteCalls, GithubKinds) # {}
    /\ \A k \in Archives : panels[k].loading => Wanted(noteCalls, {k}) # {}

\* An import replaces what is in the form only if the owner was asked, even
\* when it was typed after the file was chosen, and never lands in a tab that
\* the owner has left since.
TypedIsKept ==
    [][form' = Imported /\ form # Imported =>
          /\ onTab
          /\ form # Blank => asked'
      ]_noteVars
=============================================================================
