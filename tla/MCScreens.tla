------------------------------- MODULE MCScreens -------------------------------
(* Model checking the screens of the web application: a behaviour is that of
   one of them, any one, beside the others at rest.                         *)
EXTENDS SourcesView, NoteForm, DraftWorkspace, DraftLists, TLC

CONSTANTS a, b    \* two sources, or two Signals

MCSources == {a, b}

VARIABLE screen   \* the screen that is used

screenVars == <<screen, sourceVars, noteVars, draftVars, listVars>>

InSources == screen = "sources" /\ SourcesNext /\ UNCHANGED <<noteVars, draftVars, listVars>>
InNote    == screen = "note"    /\ NotesNext   /\ UNCHANGED <<sourceVars, draftVars, listVars>>
InDrafts  == screen = "drafts"  /\ DraftsNext  /\ UNCHANGED <<sourceVars, noteVars, listVars>>
InLists   == screen = "lists"   /\ ListsNext   /\ UNCHANGED <<sourceVars, noteVars, draftVars>>

ScreensInit ==
    /\ screen \in {"sources", "note", "drafts", "lists"}
    /\ SourcesInit /\ NotesInit /\ DraftsInit
    /\ ListsInit /\ (screen # "lists" => kind = "library")

ScreensNext ==
    /\ UNCHANGED screen
    /\ InSources \/ InNote \/ InDrafts \/ InLists

Spec == ScreensInit /\ [][ScreensNext]_screenVars

\* The two sources, and the two Signals, are interchangeable.
Symmetry == Permutations(MCSources)

-----------------------------------------------------------------------------
\* On no screen does a wait stay on that nothing will end, and the draft
\* library and the calendar come to rest on what is chosen and was changed.
ScreensSettle == SourceWaitsEnd /\ NoteWaitsEnd /\ DraftWaitsEnd /\ ListsCatchUp

\* What is shown under a selection is what is selected, whatever order the
\* answers come in, but for the answers the code takes without looking.
ShownIsSelected == DetailsAreSelected /\ DraftsAreSelected
=============================================================================
