------------------------------ MODULE RequestRuns ------------------------------
(***************************************************************************)
(* A paid request that is kept under its key: a research brief, a draft     *)
(* review or a topic plan (services/research-brief.service.ts,              *)
(* draft-review.service.ts, topic-planning.service.ts).  The three have one *)
(* shape and differ in what they read and compare; a behaviour is of one    *)
(* kind.  One request key of one owner, one source, one Signal, one draft   *)
(* and one suggestion.  Two plans differ in an input x or y, two briefs and *)
(* two reviews in what they have read.                                      *)
(***************************************************************************)
EXTENDS Integers

CONSTANTS
    Kinds,          \* \subseteq {"research", "review", "planning"}
    Callers,        \* requests with the key; each may be made again
    Converters,     \* calls of convertTopicToSignal
    Appliers,       \* calls of applyDraftReviewForUser
    Readers,        \* calls that read the run and refresh its staleness
    MaxVer,         \* bound on the source's version, the Signal's revision and the texts
    MaxFaults       \* bound on processes that die

ASSUME RequestAssumption ==
    /\ Kinds \subseteq {"research", "review", "planning"}
    /\ MaxVer \in Nat \ {0} /\ MaxFaults \in Nat

VARIABLES
    kind,
    source,         \* version, whether that version is indexed, whether it still exists
    rev, text,      \* the Signal's revision; the draft's text
    run,            \* the record of the request key
    op, sent,       \* its usage operation; the calls made to the provider
    caller, converter, applier, reader,
    made, marked,   \* Signals made from the suggestion; convertedSuggestionIds has it
    applied,        \* times a proposed text replaced the draft
    faults

inputs == <<source, rev, text>>
ledger == <<op, sent>>
actors == <<caller, converter, applier, reader>>
vars == <<kind, inputs, run, ledger, actors, made, marked, applied, faults>>

Versions == 1..MaxVer
\* The version of the source that the brief of a review has as its evidence.
BriefVersion == 1
Prints == [input : {"x", "y"}, rev : 0..MaxVer, text : 0..MaxVer]
NoPrint == [input |-> "x", rev |-> 0, text |-> 0]
NoRun == [status |-> "none", print |-> NoPrint, ver |-> 0, rev |-> 0, stale |-> FALSE, old |-> FALSE]
Idle == [at |-> "idle", print |-> NoPrint, ver |-> 0, rev |-> 0, stale |-> FALSE]

TypeOK ==
    /\ kind \in Kinds
    /\ source \in [ver : Versions, ready : BOOLEAN, there : BOOLEAN]
    /\ rev \in Versions /\ text \in Versions
    /\ run \in [status : {"none", "running", "succeeded", "failed", "uncertain"}, print : Prints,
                ver : 0..MaxVer, rev : 0..MaxVer, stale : BOOLEAN, old : BOOLEAN]
    /\ op \in {"none", "dispatched", "completed", "released", "uncertain"}
    /\ sent \in 0..1
    /\ caller \in [Callers -> [at : {"idle", "find", "expire", "sources", "create", "retrieve", "admit",
                                     "call", "check", "record", "fail", "doubt", "answered", "refused"},
                               print : Prints, ver : 0..MaxVer, rev : 0..MaxVer,
                               stale : BOOLEAN]]
    /\ converter \in [Converters -> {"idle", "sources", "make", "mark", "done"}]
    /\ applier \in [Appliers -> {"idle", "evidence", "write", "done"}]
    /\ reader \in [Readers -> {"idle", "stale", "fresh"}]
    /\ made \in 0..1 /\ marked \in BOOLEAN /\ applied \in BOOLEAN
    /\ faults \in 0..MaxFaults

Init ==
    /\ kind \in Kinds
    /\ source = [ver |-> 1, ready |-> TRUE, there |-> TRUE] /\ rev = 1 /\ text = 1
    /\ run = NoRun /\ op = "none" /\ sent = 0
    /\ caller = [p \in Callers |-> Idle]
    /\ converter = [c \in Converters |-> "idle"] /\ applier = [a \in Appliers |-> "idle"]
    /\ reader = [r \in Readers |-> "idle"]
    /\ made = 0 /\ marked = FALSE /\ applied = FALSE /\ faults = 0

Usable == source.there /\ source.ready
EvidenceCurrent == Usable /\ source.ver = BriefVersion
\* What makes two calls with the key the same request (fingerprint, inputFingerprint).
FingerprintOf(input, r, t) == [input |-> input, rev |-> IF kind = "research" THEN r ELSE 0,
                       text |-> IF kind = "review" THEN t ELSE 0]
At(p, place) == caller' = [caller EXCEPT ![p] = [@ EXCEPT !.at = place]]
\* The call ends; of what it has read nothing matters any more.
Ends(p, place) == caller' = [caller EXCEPT ![p] = [Idle EXCEPT !.at = place,
                               !.print = IF place = "answered" THEN caller[p].print ELSE NoPrint]]

-----------------------------------------------------------------------------
(* The world around.                                                        *)

\* A source is edited, indexed or deleted; the Signal or the draft, where one is read, is
\* edited.  To a review every change of its source is the same: it is not the evidence any
\* more, as when it is deleted.
Around ==
    /\ \/ /\ kind # "review" /\ source.there /\ source.ver < MaxVer
          /\ source' = [source EXCEPT !.ver = @ + 1, !.ready = FALSE] /\ UNCHANGED <<rev, text>>
       \/ ~source.ready /\ source' = [source EXCEPT !.ready = TRUE] /\ UNCHANGED <<rev, text>>
       \/ source.there /\ source' = [source EXCEPT !.there = FALSE] /\ UNCHANGED <<rev, text>>
       \/ kind # "planning" /\ rev < MaxVer /\ rev' = rev + 1 /\ UNCHANGED <<source, text>>
       \/ kind = "review" /\ text' \in Versions /\ UNCHANGED <<source, rev>>
    /\ UNCHANGED <<kind, run, ledger, actors, made, marked, applied, faults>>

\* Ten minutes pass for a plan that nothing has written to.
GrowsOld ==
    /\ kind = "planning" /\ run.status = "running" /\ ~run.old /\ run' = [run EXCEPT !.old = TRUE]
    /\ UNCHANGED <<kind, inputs, ledger, actors, made, marked, applied, faults>>

-----------------------------------------------------------------------------
(* createResearchBriefForUser, createDraftReviewForUser, planTopicsForUser. *)

\* The Signal, or the draft and its brief, are read.
Begin(p) ==
    /\ caller[p].at = "idle"
    /\ kind = "review" => EvidenceCurrent
    /\ \E input \in IF kind = "planning" THEN {"x", "y"} ELSE {"x"} :
          caller' = [caller EXCEPT ![p] = [Idle EXCEPT !.at = "find", !.print = FingerprintOf(input, rev, text),
                                                       !.rev = rev]]
    /\ UNCHANGED <<kind, inputs, run, ledger, converter, applier, reader, made, marked, applied, faults>>

\* Mutant: the key alone decides.
SameKey(p) == TRUE

SameRequest(p) == run.print = caller[p].print

\* Mutant: the wrong status is compared.
ExpiresFailed == kind = "planning" /\ run.status = "failed" /\ run.old

Expires == kind = "planning" /\ run.status = "running" /\ run.old

Answer(p) == Ends(p, IF SameRequest(p) THEN "answered" ELSE "refused")

Find(p) ==
    /\ caller[p].at = "find"
    /\ \/ run.status = "none" /\ At(p, "sources")
       \/ run.status # "none" /\ IF Expires THEN At(p, "expire") ELSE Answer(p)
    /\ UNCHANGED <<kind, inputs, run, ledger, converter, applier, reader, made, marked, applied, faults>>

\* markExpiredRun writes by _id, over whatever the run has become.
Expire(p) ==
    /\ caller[p].at = "expire"
    /\ run' = [run EXCEPT !.status = "uncertain"]
    /\ Answer(p)
    /\ UNCHANGED <<kind, inputs, ledger, converter, applier, reader, made, marked, applied, faults>>

Sources(p) ==
    /\ caller[p].at = "sources"
    /\ IF kind = "review" \/ Usable
       THEN caller' = [caller EXCEPT ![p] = [@ EXCEPT !.at = "create", !.ver = source.ver]]
       ELSE Ends(p, "refused")
    /\ UNCHANGED <<kind, inputs, run, ledger, converter, applier, reader, made, marked, applied, faults>>

\* The unique index on the owner and the request key.
IsNew == run.status = "none"

CreateRun(p) ==
    /\ caller[p].at = "create"
    /\ IF IsNew
       THEN /\ run' = [NoRun EXCEPT !.status = "running", !.print = caller[p].print, !.ver = caller[p].ver,
                                    !.rev = caller[p].rev]
            /\ At(p, IF kind = "research" THEN "retrieve" ELSE "admit")
       ELSE UNCHANGED run /\ Answer(p)
    /\ UNCHANGED <<kind, inputs, ledger, converter, applier, reader, made, marked, applied, faults>>

\* The statuses of the errors the clients throw: 503 without a key, an answer or a service that
\* works; 504 after the timeout; 502 for what was not understood.
RetrievalErrors == {502, 503, 504}
ResearchErrors == {502, 503, 504}
ReviewErrors == {502, 503, 504}
PlanErrors == {502, 503, 504}
ClientErrors == CASE kind = "research" -> ResearchErrors
                  [] kind = "review" -> ReviewErrors
                  [] OTHER -> PlanErrors

\* A run is in doubt after a timeout only.
Fails(p, status) == At(p, IF status = 504 THEN "doubt" ELSE "fail")

\* Retrieval, of research only.
Retrieve(p) ==
    /\ caller[p].at = "retrieve"
    /\ At(p, "admit") \/ \E status \in RetrievalErrors : Fails(p, status)
    /\ UNCHANGED <<kind, inputs, run, ledger, converter, applier, reader, made, marked, applied, faults>>

\* Admission and dispatch are outside of any try: a refusal, or the operation that is there
\* already, leaves the run running.
Admit(p) ==
    /\ caller[p].at = "admit"
    /\ \/ /\ op \in {"none", "released"} /\ op' = "dispatched" /\ sent' = sent + 1 /\ At(p, "call")
       \/ Ends(p, "refused") /\ UNCHANGED ledger
    /\ UNCHANGED <<kind, inputs, run, converter, applier, reader, made, marked, applied, faults>>

\* The answer, and what it names was sent or not; or an error, after a timeout or an answer that
\* was not understood of unknown outcome to the ledger; or the settlement itself throws.
Call(p) ==
    /\ caller[p].at = "call"
    /\ \/ op' = "completed" /\ \E next \in {"check", "fail"} : At(p, next)
       \/ \E status \in ClientErrors :
             /\ op' = IF status \in {502, 504} THEN "uncertain" ELSE "released"
             /\ Fails(p, status)
       \/ op' = "released" /\ At(p, "fail")
    /\ UNCHANGED <<kind, inputs, run, sent, converter, applier, reader, made, marked, applied, faults>>

\* What was read at the start is read again before the outcome is written.
BriefChanged(p) == rev # caller[p].rev \/ ~source.there \/ source.ver # caller[p].ver

\* A plan does not miss a source that is gone.
PlanChanged(p) == source.there /\ (source.ver # caller[p].ver \/ ~source.ready)

ReviewChanged(p) == ~EvidenceCurrent \/ text # caller[p].print.text \/ rev # caller[p].rev

Changed(p) == \/ kind = "research" /\ BriefChanged(p)
              \/ kind = "planning" /\ PlanChanged(p)
              \/ kind = "review" /\ ReviewChanged(p)

Check(p) ==
    /\ caller[p].at = "check"
    /\ caller' = [caller EXCEPT ![p] = [@ EXCEPT !.at = "record", !.stale = Changed(p)]]
    /\ UNCHANGED <<kind, inputs, run, ledger, converter, applier, reader, made, marked, applied, faults>>

\* updateResearchBrief, updateDraftReview and updateTopicPlanningRun write by _id.
Record(p) ==
    /\ caller[p].at \in {"record", "fail", "doubt"}
    /\ run' = CASE caller[p].at = "record" -> [run EXCEPT !.status = "succeeded", !.stale = caller[p].stale]
                [] caller[p].at = "fail" -> [run EXCEPT !.status = "failed"]
                [] OTHER -> [run EXCEPT !.status = "uncertain"]
    /\ Ends(p, IF caller[p].at = "record" THEN "answered" ELSE "refused")
    /\ UNCHANGED <<kind, inputs, ledger, converter, applier, reader, made, marked, applied, faults>>

\* The process dies, or a database call rejects outside of a try.
Dies(p) ==
    /\ caller[p].at \notin {"idle", "answered", "refused"} /\ faults < MaxFaults /\ faults' = faults + 1
    /\ Ends(p, "refused")
    /\ UNCHANGED <<kind, inputs, run, ledger, converter, applier, reader, made, marked, applied>>

\* The user asks again with the key.
Again(p) ==
    /\ caller[p].at \in {"answered", "refused"} /\ Ends(p, "idle")
    /\ UNCHANGED <<kind, inputs, run, ledger, converter, applier, reader, made, marked, applied, faults>>

Work(p) == \/ Begin(p) \/ Find(p) \/ Expire(p) \/ Sources(p) \/ CreateRun(p) \/ Retrieve(p)
           \/ Admit(p) \/ Call(p) \/ Check(p) \/ Record(p) \/ Again(p)

-----------------------------------------------------------------------------
(* What is done with a run.                                                 *)

To(who, x, place) == who' = [who EXCEPT ![x] = place]

\* getResearchBriefForUser and the two readers of reviews: staleness is computed from what is
\* read and then written by _id.  A review's is computed from the draft alone.
BriefOutdated == rev # run.rev \/ ~source.there \/ source.ver # run.ver
ReviewOutdated == text # run.print.text
Refreshed == IF kind = "research" THEN BriefOutdated ELSE ReviewOutdated

Read(r) ==
    /\ \/ /\ reader[r] = "idle" /\ kind # "planning" /\ run.status # "none"
          /\ Refreshed # run.stale
          /\ To(reader, r, IF Refreshed THEN "stale" ELSE "fresh") /\ UNCHANGED run
       \/ /\ reader[r] \in {"stale", "fresh"}
          /\ run' = [run EXCEPT !.stale = (reader[r] = "stale")] /\ To(reader, r, "idle")
    /\ UNCHANGED <<kind, inputs, ledger, caller, converter, applier, made, marked, applied, faults>>

\* applyDraftReviewForUser: the review and the evidence are read, then the draft is replaced
\* by a text of the user's on the condition that it is still the one reviewed.
ApplyRead(a) ==
    /\ applier[a] = "idle" /\ kind = "review"
    /\ run.status = "succeeded" /\ ~run.stale
    /\ To(applier, a, "evidence")
    /\ UNCHANGED <<kind, inputs, run, ledger, caller, converter, reader, made, marked, applied, faults>>

ApplyEvidence(a) ==
    /\ applier[a] = "evidence"
    /\ To(applier, a, IF EvidenceCurrent THEN "write" ELSE "done")
    /\ UNCHANGED <<kind, inputs, run, ledger, caller, converter, reader, made, marked, applied, faults>>

\* Mutant: the draft is replaced whatever it has become.
ReplacesAny == TRUE

\* updateGenerationVariationIfContentMatches
Replaces == text = run.print.text

ApplyWrite(a) ==
    /\ applier[a] = "write" /\ To(applier, a, "done")
    /\ IF Replaces THEN text' \in Versions /\ applied' = TRUE ELSE UNCHANGED <<text, applied>>
    /\ UNCHANGED <<kind, source, rev, run, ledger, caller, converter, reader, made, marked, faults>>

\* convertTopicToSignal: the plan, the Signal it may have become, the sources; then the
\* Signal is made, and the suggestion marked.
ConvertRead(c) ==
    /\ converter[c] = "idle" /\ kind = "planning"
    /\ run.status = "succeeded" /\ ~run.stale
    /\ To(converter, c, IF made = 0 THEN "sources" ELSE "done")
    /\ UNCHANGED <<kind, inputs, run, ledger, caller, applier, reader, made, marked, applied, faults>>

ConvertSources(c) ==
    /\ converter[c] = "sources"
    /\ To(converter, c, IF Usable /\ source.ver = run.ver THEN "make" ELSE "done")
    /\ UNCHANGED <<kind, inputs, run, ledger, caller, applier, reader, made, marked, applied, faults>>

\* Mutant: no unique index on the run and the suggestion.
MakesAny == TRUE

Makes == made = 0

ConvertMake(c) ==
    /\ converter[c] = "make"
    /\ IF Makes THEN made' = made + 1 /\ To(converter, c, "mark")
                ELSE UNCHANGED made /\ To(converter, c, "done")
    /\ UNCHANGED <<kind, inputs, run, ledger, caller, applier, reader, marked, applied, faults>>

\* The mark, or the process dies before it.
ConvertMark(c) ==
    /\ converter[c] = "mark" /\ To(converter, c, "done")
    /\ \/ marked' = TRUE /\ UNCHANGED faults
       \/ UNCHANGED marked /\ faults < MaxFaults /\ faults' = faults + 1
    /\ UNCHANGED <<kind, inputs, run, ledger, caller, applier, reader, made, applied>>

Next ==
    \/ Around \/ GrowsOld
    \/ \E p \in Callers : Work(p) \/ Dies(p)
    \/ \E r \in Readers : Read(r)
    \/ \E a \in Appliers : ApplyRead(a) \/ ApplyEvidence(a) \/ ApplyWrite(a)
    \/ \E c \in Converters : ConvertRead(c) \/ ConvertSources(c) \/ ConvertMake(c) \/ ConvertMark(c)

Spec == Init /\ [][Next]_vars

\* Time passes, a call ends, and the user asks again.
FairSpec == Spec /\ WF_vars(GrowsOld) /\ \A p \in Callers : WF_vars(Work(p))

-----------------------------------------------------------------------------
(* Properties.                                                              *)

\* However often and from wherever a request is sent, the provider is called once for its
\* key, and by the call that made the record.
PaidOnce == sent <= 1 /\ (sent = 0 => run.status # "succeeded")

\* The caller who is answered gets the run of the request it made: another request under the
\* same key is refused, in the race to create the record too.
AnswersAreTheirs == \A p \in Callers : caller[p].at = "answered" => run.print = caller[p].print

\* Both: one request, one paid call, one run, which answers that request only.
OneRunPerRequest == PaidOnce /\ AnswersAreTheirs

\* A proposed text replaces only the draft that was reviewed, however the draft and the
\* evidence change between the reads and the write.
ReplacesWhatWasReviewed ==
    [][applied' # applied => text = run.print.text /\ run.status = "succeeded"]_vars

\* A suggestion becomes one Signal, and is marked as converted only when it has.
ConvertedOnce == made <= 1 /\ (marked => made = 1)

\* A plan does not stay running for a user who asks again, whatever died.
PlansSettle == (kind = "planning" /\ run.status = "running") ~> (run.status # "running")
=============================================================================
