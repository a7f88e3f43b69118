--------------------------- MODULE DraftWorkspace ---------------------------
(* The create tab of the dashboard
   (apps/web/src/components/dashboard/dashboard-workspace.tsx, with the
   buttons of draft-studio.tsx and draft-review-panel.tsx): the Signals, the
   one that is selected, its three drafts, and generating, editing, approving,
   planning and reviewing them.  A draft can also be opened from the library
   and the calendar, which look its Signal up page by page.

   The three drafts of a Signal are one thing with a version that every change
   raises; whether the approved one among them may be planned is a flag.     *)
EXTENDS ApiRequest

CONSTANTS Signals,        \* the owner's Signals
          MaxDraftCalls,  \* requests under way at one time (bound)
          MaxDraftVer,    \* versions of the drafts (bound)
          MaxDeeds        \* clicks that make a request (bound)

ASSUME DraftAssumption ==
    /\ Signals # {} /\ None \notin Signals
    /\ MaxDraftCalls \in Nat /\ MaxDraftVer \in Nat \ {0} /\ MaxDeeds \in Nat

VARIABLES
    drafts,      \* the API's Generations: 0 for none
    draftCalls,  \* the requests under way
    selected,    \* selectedSignal
    gen,         \* generation, generationLoading, generationError, ...
    change,      \* mutationPending, mutationError, mutationUncertain
    editor,      \* editingVariationId and whether its text was changed
    signalForm,        \* editingSignal, signalEditPending
    reviewing,   \* reviewTarget, and a revision being applied
    onCreate,    \* the create tab is the active one
    deeds,       \* requests clicked for so far
    unknown,     \* Signals with a generation whose outcome was not looked up
    misplaced    \* an answer was taken for another Signal than the selected one

draftVars == <<drafts, draftCalls, selected, gen, change, editor, signalForm, reviewing,
               onCreate, deeds, unknown, misplaced>>

NoGen    == [shown |-> None, loading |-> FALSE, error |-> FALSE, failed |-> FALSE,
             uncertain |-> FALSE, pending |-> FALSE]
NoChange == [pending |-> FALSE, error |-> FALSE, uncertain |-> FALSE]
NoEditor == [on |-> FALSE, typed |-> FALSE]

DraftsInit ==
    /\ drafts = [s \in Signals |-> 0]
    /\ draftCalls = EmptyBag
    /\ selected = None
    /\ gen = NoGen
    /\ change = NoChange
    /\ editor = NoEditor
    /\ signalForm = [of |-> None, pending |-> FALSE]
    /\ reviewing = [on |-> FALSE, pending |-> FALSE]
    /\ onCreate = TRUE
    /\ deeds = 0
    /\ unknown = {}
    /\ misplaced = FALSE

Deed(n) ==
    /\ deeds < MaxDeeds /\ BagCardinality(draftCalls) + n <= MaxDraftCalls
    /\ deeds' = deeds + 1

\* The drafts of a Signal as the API sends them.
Drafts(s) == [of |-> s, ver |-> drafts[s]]

\* What the studio shows: drafts, if nothing is loading and nothing failed.
StudioOpen == onCreate /\ gen.shown # None /\ ~gen.loading /\ ~gen.error

-----------------------------------------------------------------------------
(* Selecting a Signal and loading its drafts *)

\* loadGeneration(signal).
Loading(g) == [g EXCEPT !.loading = TRUE, !.error = FALSE, !.failed = FALSE, !.uncertain = FALSE]

LoadOf(calls, s) == Begin(Withdrawn(calls, {"load"}), Sent("load", s, None))

\* handleSelectSignal(signal), when nothing keeps it back.
Selects(s, calls) ==
    /\ signalForm' = [signalForm EXCEPT !.of = None]
    /\ selected' = s
    /\ gen' = Loading([gen EXCEPT !.shown = None])
    /\ editor' = NoEditor
    /\ draftCalls' = LoadOf(calls, s)

SelectionHeld == gen.pending \/ change.pending \/ editor.on

handleSelectSignal(s) ==
    /\ onCreate /\ Deed(1) /\ ~SelectionHeld
    /\ Selects(s, draftCalls)
    /\ UNCHANGED <<drafts, change, reviewing, onCreate, unknown, misplaced>>

\* Mutant: an answer that was overtaken is shown.
LoadIsWanted_Always(call) == TRUE

LoadIsWanted(call) == call.on

\* Found or not found, the Signal's drafts have been looked up.
LoadReturns(call) ==
    LET out  == Result(call)
        used == LoadIsWanted(call) /\ out.code # "aborted"
        done == [gen EXCEPT !.loading = @ /\ ~call.on]
    IN  /\ call \in Returning(draftCalls, "load")
        /\ draftCalls' = Ended(draftCalls, call)
        /\ gen' = IF ~used THEN done
                  ELSE CASE out.code = "ok" -> [done EXCEPT !.shown = out.body]
                         [] out.code = "noDrafts" -> [done EXCEPT !.shown = None]
                         [] OTHER -> [done EXCEPT !.error = TRUE]
        /\ unknown' = IF used /\ out.code \in {"ok", "noDrafts"} THEN unknown \ {call.of} ELSE unknown
        /\ UNCHANGED <<drafts, selected, change, editor, signalForm, reviewing, onCreate, deeds, misplaced>>

\* loadSignals: the selected Signal may have left the first page of the list.
loadSignals ==
    /\ onCreate /\ Deed(1)
    /\ draftCalls' = Begin(Withdrawn(draftCalls, {"signals"}), Sent("signals", None, None))
    /\ UNCHANGED <<drafts, selected, gen, change, editor, signalForm, reviewing, onCreate, unknown, misplaced>>

SignalsReturn(call) ==
    LET lost == /\ call.on /\ Result(call).code = "ok"
                /\ selected # None /\ selected \notin Result(call).body.listed
        kept == Ended(draftCalls, call)
    IN  /\ call \in Returning(draftCalls, "signals")
        /\ IF lost
           THEN /\ draftCalls' = Aborted(kept, {"load"})
                /\ selected' = None
                /\ gen' = [gen EXCEPT !.shown = None, !.error = FALSE]
                /\ change' = [change EXCEPT !.error = FALSE, !.uncertain = FALSE]
                /\ editor' = NoEditor
           ELSE draftCalls' = kept /\ UNCHANGED <<selected, gen, change, editor>>
        /\ UNCHANGED <<drafts, signalForm, reviewing, onCreate, deeds, unknown, misplaced>>

-----------------------------------------------------------------------------
(* Editing a Signal *)

handleStartSignalEditing(s) ==
    /\ onCreate /\ ~SelectionHeld /\ signalForm.of # s
    /\ ~(selected = s /\ (gen.shown # None \/ gen.loading))
    /\ signalForm' = [signalForm EXCEPT !.of = s]
    /\ UNCHANGED <<drafts, draftCalls, selected, gen, change, editor, reviewing, onCreate, deeds,
                   unknown, misplaced>>

CancelSignalEditing ==
    /\ onCreate /\ signalForm.of # None /\ ~signalForm.pending
    /\ signalForm' = [signalForm EXCEPT !.of = None]
    /\ UNCHANGED <<drafts, draftCalls, selected, gen, change, editor, reviewing, onCreate, deeds,
                   unknown, misplaced>>

handleSaveSignal ==
    /\ onCreate /\ Deed(1) /\ signalForm.of # None /\ ~signalForm.pending
    /\ signalForm' = [signalForm EXCEPT !.pending = TRUE]
    /\ draftCalls' = Begin(draftCalls, Sent("signal", signalForm.of, [selected |-> selected]))
    /\ UNCHANGED <<drafts, selected, gen, change, editor, reviewing, onCreate, unknown, misplaced>>

\* The handler compares with the Signal that was selected when it was saved,
\* and selects it again; what is being loaded is not overtaken.
SignalReturns(call) ==
    LET ok == Result(call).code = "ok"
    IN  /\ call \in Returning(draftCalls, "signal")
        /\ draftCalls' = Ended(draftCalls, call)
        /\ signalForm' = [of |-> IF ok THEN None ELSE signalForm.of, pending |-> FALSE]
        /\ IF ok /\ call.arg.selected = call.of
           THEN /\ selected' = call.of
                /\ gen' = [gen EXCEPT !.shown = None]
                /\ misplaced' = (misplaced \/ selected # call.of)
           ELSE UNCHANGED <<selected, gen, misplaced>>
        /\ UNCHANGED <<drafts, change, editor, reviewing, onCreate, deeds, unknown>>

-----------------------------------------------------------------------------
(* Generating *)

Generates ==
    /\ selected # None /\ gen.shown = None /\ ~gen.pending /\ ~change.pending
    /\ gen' = [gen EXCEPT !.pending = TRUE, !.error = FALSE, !.failed = FALSE, !.uncertain = FALSE]
    /\ change' = [change EXCEPT !.error = FALSE, !.uncertain = FALSE]
    /\ draftCalls' = Begin(draftCalls, Sent("generate", selected, None))
    /\ UNCHANGED <<drafts, selected, editor, signalForm, reviewing, onCreate, unknown, misplaced>>

handleGenerate ==
    /\ onCreate /\ Deed(1) /\ ~gen.loading /\ ~gen.error
    /\ Generates

\* The answer, or the error, is shown whatever is selected by then.
GenerateReturns(call) ==
    LET out == Result(call)
    IN  /\ call \in Returning(draftCalls, "generate")
        /\ draftCalls' = Ended(draftCalls, call)
        /\ gen' = IF out.code = "ok"
                  THEN [gen EXCEPT !.pending = FALSE, !.shown = out.body]
                  ELSE [gen EXCEPT !.pending = FALSE, !.error = TRUE,
                                   !.uncertain = @ \/ out.code = "uncertain",
                                   !.failed = @ \/ out.code # "uncertain"]
        /\ unknown' = CASE out.code = "uncertain" -> unknown \cup {call.of}
                        [] OTHER -> unknown \ {call.of}
        /\ misplaced' = (misplaced \/ selected \notin {None, call.of})
        /\ UNCHANGED <<drafts, selected, change, editor, signalForm, reviewing, onCreate, deeds>>

\* Mutant: what could not be generated is generated again, known or not.
RetryGenerates_Always == gen.failed \/ gen.uncertain

\* generationCreationFailed && !generationOutcomeUncertain.
RetryGenerates == gen.failed /\ ~gen.uncertain

\* "Retry" or "Check for saved drafts", below an error, or in the editor after
\* an edit whose outcome is not known.
onRetry ==
    /\ onCreate /\ Deed(1) /\ selected # None /\ ~gen.loading
    /\ gen.error \/ (StudioOpen /\ editor.on /\ change.error /\ ~change.pending
                     /\ (change.uncertain \/ gen.uncertain))
    /\ IF RetryGenerates
       THEN Generates
       ELSE /\ change' = [change EXCEPT !.error = FALSE, !.uncertain = FALSE]
            /\ gen' = Loading(gen)
            /\ draftCalls' = LoadOf(draftCalls, selected)
            /\ UNCHANGED <<drafts, selected, editor, signalForm, reviewing, onCreate, unknown, misplaced>>

-----------------------------------------------------------------------------
(* Changing a draft *)

handleStartEditing ==
    /\ StudioOpen /\ ~change.pending /\ ~editor.on
    /\ editor' = [on |-> TRUE, typed |-> FALSE]
    /\ change' = [change EXCEPT !.error = FALSE, !.uncertain = FALSE]
    /\ UNCHANGED <<drafts, draftCalls, selected, gen, signalForm, reviewing, onCreate, deeds, unknown, misplaced>>

TypeDraft ==
    /\ StudioOpen /\ editor.on /\ ~editor.typed /\ ~change.pending
    /\ editor' = [editor EXCEPT !.typed = TRUE]
    /\ UNCHANGED <<drafts, draftCalls, selected, gen, change, signalForm, reviewing, onCreate, deeds, unknown, misplaced>>

handleCancelEditing ==
    /\ StudioOpen /\ editor.on /\ ~change.pending
    /\ editor' = NoEditor
    /\ change' = [change EXCEPT !.error = FALSE, !.uncertain = FALSE]
    /\ UNCHANGED <<drafts, draftCalls, selected, gen, signalForm, reviewing, onCreate, deeds, unknown, misplaced>>

\* handleSaveEditing; handleApprove, handleSchedule and handleRemoveSchedule
\* are alike but for what they ask of the API.
ChangesDraft(what) ==
    /\ StudioOpen /\ Deed(1) /\ selected # None /\ ~change.pending
    /\ IF what = "edit" THEN editor.on /\ editor.typed ELSE ~editor.on
    /\ draftCalls' = Begin(Withdrawn(draftCalls, {"load"}), Sent(what, selected, [of |-> gen.shown.of]))
    /\ change' = [pending |-> TRUE, error |-> FALSE, uncertain |-> FALSE]
    /\ UNCHANGED <<drafts, selected, gen, editor, signalForm, reviewing, onCreate, unknown, misplaced>>

handleSaveEditing == ChangesDraft("edit")
handleApprove     == ChangesDraft("approve")
handleSchedule    == ChangesDraft("plan")

ChangeReturns(what, call) ==
    LET out == Result(call)
    IN  /\ call \in Returning(draftCalls, what)
        /\ draftCalls' = Ended(draftCalls, call)
        /\ change' = [pending |-> FALSE, error |-> change.error \/ out.code # "ok",
                      uncertain |-> change.uncertain \/ out.code = "uncertain"]
        /\ gen' = IF out.code = "ok" THEN [gen EXCEPT !.shown = out.body] ELSE gen
        /\ editor' = IF out.code = "ok" /\ what = "edit" THEN NoEditor ELSE editor
        /\ misplaced' = (misplaced \/ (out.code = "ok" /\ selected \notin {None, call.of}))
        /\ UNCHANGED <<drafts, selected, signalForm, reviewing, onCreate, deeds, unknown>>

-----------------------------------------------------------------------------
(* Applying a review's revision: its panel goes on when another Signal is
   selected *)

onReview ==
    /\ StudioOpen /\ ~change.pending /\ ~editor.on /\ ~reviewing.on
    /\ reviewing' = [reviewing EXCEPT !.on = TRUE]
    /\ UNCHANGED <<drafts, draftCalls, selected, gen, change, editor, signalForm, onCreate, deeds, unknown, misplaced>>

apply ==
    /\ onCreate /\ Deed(1) /\ reviewing.on /\ ~reviewing.pending
    /\ selected # None /\ gen.shown # None
    /\ reviewing' = [reviewing EXCEPT !.pending = TRUE]
    /\ draftCalls' = Begin(draftCalls, Sent("apply", selected, [of |-> gen.shown.of]))
    /\ UNCHANGED <<drafts, selected, gen, change, editor, signalForm, onCreate, unknown, misplaced>>

ApplyReturns(call) ==
    LET ok == Result(call).code = "ok"
    IN  /\ call \in Returning(draftCalls, "apply")
        /\ draftCalls' = Ended(draftCalls, call)
        /\ reviewing' = [on |-> reviewing.on /\ ~ok, pending |-> FALSE]
        /\ gen' = IF ok THEN [gen EXCEPT !.shown = Result(call).body] ELSE gen
        /\ misplaced' = (misplaced \/ (ok /\ selected \notin {None, call.of}))
        /\ UNCHANGED <<drafts, selected, change, editor, signalForm, onCreate, deeds, unknown>>

-----------------------------------------------------------------------------
(* Opening a draft from the library or the calendar *)

\* The navigation is off while a draft is changed or a Signal saved; the bell
\* leads to the calendar even then.
ChangeTab ==
    /\ onCreate' = ~onCreate
    /\ onCreate \/ (~change.pending /\ ~editor.on /\ ~signalForm.pending)
    /\ UNCHANGED <<drafts, draftCalls, selected, gen, change, editor, signalForm, reviewing, deeds, unknown, misplaced>>

\* findSignalAndOpenDraft has closed over what holds a selection back.
findSignalAndOpenDraft(s) ==
    /\ ~onCreate /\ Deed(1) /\ ~change.pending /\ ~editor.on
    /\ draftCalls' = Begin(draftCalls, Sent("find", s, [pending |-> gen.pending]))
    /\ UNCHANGED <<drafts, selected, gen, change, editor, signalForm, reviewing, onCreate, unknown, misplaced>>

FindReturns(call) ==
    LET kept  == Ended(draftCalls, call)
        found == Result(call).code = "ok"
    IN  /\ call \in Returning(draftCalls, "find")
        /\ onCreate' = (onCreate \/ found)
        /\ IF found /\ ~call.arg.pending
           THEN Selects(call.of, kept)
           ELSE draftCalls' = kept /\ UNCHANGED <<signalForm, selected, gen, editor>>
        /\ UNCHANGED <<drafts, change, reviewing, deeds, unknown, misplaced>>

-----------------------------------------------------------------------------
(* The API *)

Bodies(call) ==
    CASE call.kind = "load" -> {Reply(IF drafts[call.of] = 0 THEN "noDrafts" ELSE "ok",
                                      IF drafts[call.of] = 0 THEN None ELSE Drafts(call.of))}
      [] call.kind = "signals" -> {Reply("ok", [listed |-> l]) : l \in SUBSET Signals}
      [] OTHER -> {Reply("ok", None)}

DraftReads == {"load", "signals", "signal", "find"}
DraftWrites == {"generate", "edit", "approve", "plan", "apply"}

DraftAnswered(call) ==
    /\ call.at = "sent" /\ ~call.cut /\ call.kind \in DraftReads
    /\ \E out \in Bodies(call) \cup {Reply("failed", None)} :
          draftCalls' = Answered(draftCalls, call, out)
    /\ UNCHANGED <<drafts, selected, gen, change, editor, signalForm, reviewing, onCreate, deeds, unknown, misplaced>>

\* A generation is stored or a draft changed; the answer may be lost.  A draft
\* that is not the Signal's is refused.
DraftWritten(call) ==
    /\ call.at = "sent" /\ call.kind \in DraftWrites
    /\ drafts[call.of] < MaxDraftVer
    /\ IF call.kind = "generate" THEN drafts[call.of] = 0 ELSE call.arg.of = call.of
    /\ drafts' = [drafts EXCEPT ![call.of] = @ + 1]
    /\ \E out \in {Reply("ok", [of |-> call.of, ver |-> drafts'[call.of]]), Reply("uncertain", None)} :
          draftCalls' = Answered(draftCalls, call, out)
    /\ UNCHANGED <<selected, gen, change, editor, signalForm, reviewing, onCreate, deeds, unknown, misplaced>>

DraftRefused(call) ==
    /\ call.at = "sent" /\ call.kind \in DraftWrites
    /\ \E code \in {"failed", "uncertain"} :
          draftCalls' = Answered(draftCalls, call, Reply(code, None))
    /\ UNCHANGED <<drafts, selected, gen, change, editor, signalForm, reviewing, onCreate, deeds, unknown, misplaced>>

-----------------------------------------------------------------------------
DraftsNext ==
    \/ \E s \in Signals : handleSelectSignal(s) \/ handleStartSignalEditing(s) \/ findSignalAndOpenDraft(s)
    \/ loadSignals \/ CancelSignalEditing \/ handleSaveSignal
    \/ handleGenerate \/ onRetry
    \/ handleStartEditing \/ TypeDraft \/ handleCancelEditing
    \/ handleSaveEditing \/ handleApprove \/ handleSchedule
    \/ onReview \/ apply \/ ChangeTab
    \/ \E call \in BagToSet(draftCalls) :
          \/ LoadReturns(call) \/ SignalsReturn(call) \/ SignalReturns(call) \/ GenerateReturns(call)
          \/ \E what \in {"edit", "approve", "plan"} : ChangeReturns(what, call)
          \/ ApplyReturns(call) \/ FindReturns(call)
          \/ DraftAnswered(call) \/ DraftWritten(call) \/ DraftRefused(call)

-----------------------------------------------------------------------------
\* A wait that is shown has a request that will end it, also when loading was
\* given up for another Signal or for a change of the drafts.
DraftWaitsEnd ==
    /\ gen.loading       => Wanted(draftCalls, {"load"}) # {}
    /\ gen.pending       => Pending(draftCalls, {"generate"}) # {}
    /\ change.pending    => Pending(draftCalls, {"edit", "approve", "plan"}) # {}
    /\ signalForm.pending      => Pending(draftCalls, {"signal"}) # {}

\* The drafts shown are the selected Signal's, unless an answer was taken for
\* another one: a Signal saved, drafts generated or a draft changed, or a
\* revision applied while another Signal was selected.
DraftsAreSelected ==
    gen.shown # None /\ selected # None => gen.shown.of = selected \/ misplaced

\* A generation whose outcome is not known is not asked for again before the
\* Signal's saved drafts were looked up, whatever was selected and retried in
\* between.  Excepted is what follows an answer that was taken for another
\* Signal than the selected one: the error of that one's generation offers
\* "Retry" in place of "Check for saved drafts", and a Signal that is saved
\* selects itself anew.
CheckedBeforeRetry ==
    [][\A call \in BagToSet(draftCalls') \ BagToSet(draftCalls) :
          call.kind = "generate" /\ call.at = "sent" => call.of \notin unknown \/ misplaced]_draftVars
=============================================================================
