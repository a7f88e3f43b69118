# DevSignal AI in TLA+

DevSignal AI turns a developer's GitHub activity and knowledge sources into LinkedIn
posts. Its API service (`src/services/api`, TypeScript, Express, MongoDB through
Mongoose) owns every record and runs the background workers; the AI service
(`src/services/ai`, Python, FastAPI, LangGraph, Qdrant) generates text and indexes
sources; the web application (`src/apps/web`) is a client of the API.

There are no transactions. What the system promises (a post is published once, a
quota is not exceeded, a lease has one holder) rests on conditional single-document
updates (`findOneAndUpdate` with the expected status, lease, revision or expiry in the
filter) issued between `await`s by request handlers, interval workers and several
instances of both. The specifications here are about exactly that: **every awaited
database or provider call is one atomic action, and any other handler may run between
two of them.** Below, paths are under `src/services/api/src/` unless they start with
`src/`.

## Running

    tlc -workers 2 -config MCLinkedInPublication_race.cfg MCLinkedInPublication
    tlapm LinkedInPublicationProofs.tla

`PROJECT.json` lists the runs, and maps each definition to the lines it models.

## 1. Inventory

| component | state | operations | what is hard |
|---|---|---|---|
| LinkedIn publication (`services/linkedin-publication.service.ts`, `repositories/linkedin.repository.ts`) | one record per `operationKey`: status, lease, `scheduleRevision`, `scheduledAt`, `dispatchAuthorizedAt` | preview, confirm, schedule, cancel, reschedule, worker claim and dispatch, recovery of expired dispatches | a call to LinkedIn cannot be undone or asked about; confirmations, schedulers and workers compete; crashes between authorization and outcome |
| AI usage ledger (`services/usage.service.ts`, `repositories/usage.repository.ts`) | a reservation per owner and operation key; two counters per window (owner and day, application and day) | admit, recover, extend, reopen, dispatch, complete, release, mark uncertain, reconcile | three documents per step without a transaction; recovery by other owners' requests; crashes leak units, which must never become free calls |
| Generation and the Signal's lease (`services/generation.service.ts`, `repositories/signal.repository.ts`) | the Signal's `generationLease*` fields and phase, Generations and their variations | claim, begin persistence, store, record, release; edits of the Signal; reconciliation by an administrator | the provider outlives the lease, which is never renewed; `persisting` has no expiry; an insert may be applied after its caller gave up |
| Content workflow (`services/content-workflow.service.ts`, `src/services/ai/app/workflow_graph.py`) | workflow runs: status, lease, revision, checkpoint | start, claim, run, pause for evidence or approval, resume, cancel, expire | writes by `_id` over a status that has moved; a lease not renewed; passes that overlap |
| GitHub connection, synchronisation, conversion (`services/github-connection.service.ts`) | connection, sync cursor per kind, activities | connect, sync pages, convert to Signals | the cursor after a partial pass; progress written without a fence; create and mark are two writes |
| Knowledge sources and indexing (`services/knowledge-source-indexing.service.ts`) | source version and status, indexing lease, usage reservation | claim, index, record, delete, retry | a timeout whose work may still finish |
| LinkedIn connection (`services/linkedin-connection.service.ts`) | connection, `connectionGeneration`, single-use OAuth states | start, callback, disconnect | read and write around the provider exchange |
| Notifications (`services/notification.service.ts`) | notifications keyed by event | reconcile, read, worker | a stale page of publications; duplicates |
| Research briefs, draft reviews, topic planning (`services/research-brief.service.ts`, ...) | request records with idempotency keys | create, run, fail | the record says `running` before the operation is admitted |
| AI service (`src/services/ai/app`) | Qdrant points per source and version | chunk, embed, replace, retrieve | two-phase replacement of a source's points |
| Web application (`src/apps/web/src/components/dashboard`) | what is selected, shown and typed; requests under way | view, edit, save, import, generate, review, list | answers in any order, aborts that come too late, state closed over before an `await` |
| Accounts, analytics, calendar, drafts, profile, HTTP surface, scripts | single documents, configuration | reads and single writes | no protocol of several steps |

Components meet through shared records rather than messages. Publication reads the
draft, the workflow and the connection and re-checks a fingerprint of them before it
authorizes a call. Generation, indexing, briefs and reviews each bracket a provider call
with the ledger's admit, dispatch and settle. Notifications read publications. A content
workflow drives generation, and its completion approves text that publication accepts.

What makes each component correct is listed with its line under `hazards` in
`PROJECT.json`; one no property covers says why.

## 2. Modules

| module | what it is |
|---|---|
| `PublishOnce` | the abstract promise: an operation is opened once, then refused for good or dispatched, and a dispatched one is sent at most once |
| `LinkedInPublication` | the publication records and every handler and worker that moves them |
| `MCLinkedInPublication` | its instances for TLC |
| `LinkedInPublicationProofs` | theorems about it, and about `ScheduleTime` and `Notifications` |
| `Notifications` | the worker that reminds of publications and tells their outcome, over records that others write |
| `PaidOperations` | the abstract promise of the ledger: an operation is held and sent only while every window it counts in has room, once for each time it is held, and is final after it was charged |
| `UsageLedger` | the reservations and quota windows and every path through them |
| `MCUsageLedger` | its instances for TLC |
| `UsageLedgerProofs` | theorems about it |
| `SignalGeneration` | the Signal's generation lease, the Generation stored under it, and everybody who competes with it |
| `MCSignalGeneration` | its instances for TLC |
| `SignalGenerationProofs` | theorems about it |
| `ContentWorkflow` | a workflow from its creation to the approved draft: worker, graph, reviews, approvals, cancellation |
| `MCContentWorkflow` | its instance for TLC on the deployed graph |
| `MCWorkers` | an instance of `ContentWorkflow` and `Notifications` for TLC |
| `ContentWorkflowProofs` | theorems about it |
| `RequestRuns` | the paid requests kept under a key: research briefs, draft reviews, topic plans |
| `MCRequestRuns` | its instance for TLC |
| `RequestRunsProofs` | theorems about it |
| `KnowledgeIndexing` | the indexing of a source, the job that outlives it, and what searches make of its points |
| `SourceIntake` | how the text of a source comes from GitHub or the profile, and is replaced |
| `MCKnowledgeSources` | an instance of `KnowledgeIndexing` and `SourceIntake` for TLC |
| `TextEmbedding` | how a source's text is cut into chunks, grouped into requests and embedded |
| `KnowledgeSourcesProofs` | theorems about the three |
| `AccountConnections` | how a LinkedIn or GitHub account is connected: OAuth states, callbacks, disconnection |
| `GithubActivities` | what is done with a connected account: synchronisation and conversion of activities; extends `AccountConnections` |
| `MCGithubActivities` | its instance for TLC |
| `GithubActivitiesProofs` | theorems about the connection and what is done with it |
| `ScheduleTime` | the local date and time of a scheduling request and the instant it is resolved to |
| `ApiRequest` | what a screen of the web application knows of the requests it has under way |
| `SourcesView` | the knowledge tab: list, details, edit form, indexing, deleting, refreshing and searching of sources |
| `NoteForm` | the form that makes a source, and the imports that fill it |
| `DraftWorkspace` | the create tab: Signals, their drafts, and what is done with them |
| `DraftLists` | the draft library and the calendar |
| `MCScreens` | the four screens side by side, for TLC |
| `ScreensProofs` | theorems about them |
| `MCCalculations` | an instance of `TextEmbedding` and `ScheduleTime` for TLC, with its zones |

### LinkedInPublication

*State.* `pub` maps an operation key to its record. `operationKey` hashes owner,
draft, content and `connectionGeneration`; for one owner and one variation it is
determined by the content and the generation, so `Keys` is their product. `draft`,
`flow` and `conn` are what publication reads of other components: the variation's text,
status and `updatedAt`, the completed workflow that approved a text, and the connection.
`updatedAt` values are a count of the writes (`stamps`): two writes never share a stamp,
although two writes in one millisecond would. `calls` and `posted` are LinkedIn:
how often an operation was sent, and whether the post exists.

*Processes.* A confirmation, a scheduling request or a worker is a process with a program
counter and the locals its handler keeps across awaits: `now` (read once at the start and
used in later filters, as in the code), `snap` (the key and revision it read) and `res`
(the provider's answer). `confirmLinkedInPublication` is `ConfirmStart` (recovery) →
`ConfirmRead` → `ConfirmValidate` → `ConfirmExpire`/`ConfirmReject`/`ConfirmClaim` →
`Authorize` → `Publish` → `ConfirmRecord`; the worker is `WorkerTick` (recovery) →
`WorkerClaim` → `WorkerValidate` → `WorkerBlock` or `Authorize` → `Publish` →
`WorkerRecord`. `Authorize` is the shared `authorizeLinkedInPublicationDispatch`.

*Merged steps.* The reads of draft, workflow and connection in one validation are one
action: the interleavings this hides are those in which the inputs change during
validation, which the code already allows after it. Cancelling and rescheduling read
the revision and compare it in the next call; the revision is supplied by the client and
the update decides alone, so both are one action with the current revision (a stale one
fails without effect). `createLinkedInPublicationPreview` is atomic because the unique
index on `operationKey` makes a second insert fail. The approval by a workflow is its
completing write only. Recovery takes any expired record, where the database takes the
first it finds.

*Left to nondeterminism.* LinkedIn's answer: accepted with an identifier, definitely
rejected, or uncertain with or without a post. The branch of the worker's catch that is
taken only for an `AppError` thrown after authorization (`WorkerRecord`'s handler, line
378) cannot be reached: decryption throws a plain `Error`. Error codes other than the two
a property reads are `""`.

*Failures.* `Crash`: the process dies, or an exception leaves the handler, at any await.
`WorkerCatch`: a database call inside the worker's `try` fails, with or without having
been applied, and the catch block runs.

### UsageLedger

*State.* `use` maps an operation to its reservation document (status, window, expiry,
dispatch started). `reserved` and `completed` are the two counters of each window, where
a window is a scope (an owner, or the application) and a day. `sent` is the history the
properties need: how many operations charged to a window were ever dispatched. A request
has a program counter and locals; `owe` is the set of scopes in which it has counted a
unit that no reservation owns yet, or has still to update after settling one.

*Actions.* `admitAiOperation` is `Admit` → `Recover` with `Refund` (each lapsed
reservation of the day, one at a time, whoever owns it) → `CheckActive` (only with an
`activeOperationKeyPrefix`) → `Find` → `Extend`, or `HoldOwner` → `HoldApp` →
`Create`/`Reopen`, with `Refund` on every losing branch. `markAiDispatched` is `Dispatch`
→ (`Lapse` → `Refund`). After `Call` the operation is settled by `Complete`,
`MarkUncertain` or `Release`, each followed by `Consume` (or `Refund`), which updates the
two windows in either order, because the code awaits both in one `Promise.all`.

*Refinement.* `Phase` reads an operation off its reservation: `new` without one, `held`
while reserved, `free` when released, `sent` when dispatched and `over` when completed or
uncertain. Under it the ledger implements `PaidOperations`, which knows no counters but
what was really sent: `Send` needs room for one more in both windows, and the day an
operation is charged to is chosen at its first hold, for good. Reopening is the hard step
of the mapping: the windows were counted up two awaits earlier, for a reservation that was
read before that.

*Merged steps.* The upsert that creates an empty window belongs to the hold that follows
it. `releaseAiOperation` tries `reserved` and then `dispatched`: after a dispatch the
first never matches, so the two are one action. A reservation's type, tokens, model and
price are data no property reads.

*Failures.* `Crash` loses the request and its `owe`; `CreateThrows` and `CompleteThrows`
are the failed calls some handler catches. `CreateAnswerLost`, an insert that is applied
although its answer is lost, is a step of `LossySpec` only (see the findings).

### SignalGeneration

*State.* `signal` is the Signal's `revision`, whether `generationId` is set, and its
`hold`: the three `generationLease*` fields (`phase` is `generationLeaseState`).
`generation` is the document the unique index on owner and Signal allows one of, with its
author and the revision it was drafted from. `op` and `opExpires` are the attempts' usage
operations, each under the key of its own lease. `inFlight` is the map each process keeps.
`pending` are inserts that were sent and may still be applied. A request has a program
counter, `snap` (the revision it reserved) and `now`.

*Actions.* `createGenerationForSignal` is `Start` → (`Reconcile`) or `Reserve` →
(`Lookup`) → `Admit` → `Create` → `Dispatch` → `Call` → `Complete`, `Refuse` or `Doubt` →
`Begin` → `Insert` → `Mark`, with `LookupAfter` and `Mark` again in the catch block and
`Release` in `finally`. `EditCheck` and `EditWrite` are `updateSignalForUser`;
`Reconciled` is the administrator's reconciliation; `FlowStart` and `FlowStore` are what a
content workflow does to this Signal, from its snapshot to its stored Generation.

*Merged steps.* The reads of an edit (Signal, then Generation) are one: the update checks
the Signal again. `Start`'s two reads are one: of the first it uses only that the Signal
exists. Of the ledger, only what decides whether an attempt may go on is here: the quotas
are a nondeterministic refusal in `Create`, and an expired reservation counts as released,
whether or not a recovery has written it. The checks of a reconciliation and its update are
one action; nothing the properties speak of depends on when the check was made. Which
error `Call` meets and whether validation and retrieval succeed is nondeterministic; by its
status (`GenerateErrors`, the client's, over `UpstreamErrors`, the AI service's) it is refused,
and the operation released, or uncertain (`shouldMarkAiOperationUncertain`).

*Failures.* A call is applied and its answer lost (`Goes`, or the `Fault` disjunct of a
step), fails without effect (`Fails`), or, for the insert, takes effect later (`Arrive`);
a process dies (`Crash`). Each leads to where the code's `catch` and `finally` lead.

### ContentWorkflow

*State.* Each workflow has its `status`, `lease`, `cancelled` (`cancellationRequested`),
whether `generationOutput`, `reviewOutput` and `generationId` are set (`wrote`, `judged`,
`mine`), the review bindings (`bound`) and the approved text. `generation` is the one
document the unique index on owner and Signal allows, with its author and its text now;
`review` are the DraftReview records, one per request id, where the id made by
`workflowReviewRequestId` is determined by the text. `graph` is the checkpoint the AI service
keeps for the run's thread. `op` and `sent` are the usage operations of the two provider
steps and the calls made. `inputs` is what `approveContentWorkflowForUser` and the worker
compare together everywhere: the Signal's revision and the versions of its sources.

*Actions.* The worker's pass is `Expire` and `Claim`, then `Research` → `Check` → `Send` →
`Call` → `Persist` for each step of the graph → `Store` → `Save` → `Finish`, with `Caught`
for an error and `Breaks` for a rejected call or a dead process. Nothing stops a second pass
from starting while the first runs, so each run has a worker of its own. Every write of the
worker goes through `IfHeld`: it happens if the run is still running under the lease that
was claimed, as the filter of `updateClaimedContentWorkflow` says, and the pass ends
otherwise. `ReviewStart` → `ReviewAsk` → `ReviewAnswer` → `ReviewBind` is the review a user
asks for; `Refresh` is a read of a review, which writes its staleness; `ApproveStart` →
`ApproveInputs` → (`ApproveStale`) → `ApproveReview` → `ApproveClaim` → `ApproveCall` →
`ApproveRecord` is an approval; `Cancel` reads and then overwrites.

*Merged steps.* A research brief is one step with three outcomes, a review one with two:
`RequestRuns` has what happens inside. `Pauses` is a parameter because the browser tests run
against another adapter than the deployed graph; the run `workers` has both.

### RequestRuns

*State.* One record (`run`) under one request key, with what identifies its request
(`print`), the versions it was made from, `stale`, and whether ten minutes have passed
(`old`); the usage operation of that key; the source, the Signal's revision and the draft's
text as they are now. A behaviour is of one `kind`: the three services have the same shape
and differ in what they read, compare and recover, which is a condition on `kind` in the
action concerned.

*Actions.* A call is `Begin` → `Find` → `Answer`, or `Expire` → `Sources` → `CreateRun` →
`Retrieve` → `Admit` → `Call` → `Check` → `Record`; it can be made again (`Again`). `Read`
refreshes the staleness of a brief or a review; `ApplyRead` → `ApplyEvidence` → `ApplyWrite`
replaces a draft by a reviewed text; `ConvertRead` → `ConvertSources` → `ConvertMake` →
`ConvertMark` makes a Signal from a suggestion.

*Merged steps.* A request that is refused by the ledger is left where the code leaves it:
the record stays running. Every change of a source is the same to a review. What the provider
is sent and the validation of its answer are two outcomes of `Check`. Which error a call meets
is nondeterministic among those its client throws (`RetrievalErrors`, `ClientErrors`); its
status decides what becomes of the operation.

### KnowledgeIndexing

*State.* The source (`ver` stands for its text, `indexed` for the indexed version and model);
`points`, for each model's collection and each version, the batches of at most 64 points
that were written; `op`, the usage operation of each version and day, since the key of the
operation is the version. An attempt is one call of `indexKnowledgeSourceForUser`; its job is
the AI service's request, which goes on when the API has given up waiting.

*Actions.* `Claim` → `Admit` → `Call` → `Finalize` → `Complete` → `Record`, which is also
the catch block's last write; `JobStep` writes one batch or fails. `Edit`, `Delete` and
`Claim` are the filters on the lease. `Deploy` is another embedding model, with a collection
of its own. `Answers` are the candidates of a search that `isCompatibleIndexedSource` keeps.

*Merged steps.* A search is a state function: candidates are found first and the source is
read afterwards, and since points are only added, what was found is still there then. The
ledger's refusals for quota are a choice in `Admit`.

### SourceIntake

*State.* A behaviour is of one origin: a file of a GitHub repository, or a section of the
profile. `upstream` is the sequence of what the file or the section has been; a commit, and a
profile's `revision`, is a place in it. A source (`note`) has its text, its `contentVersion`
and the hash that was stored with it; a hash is the text it is of. A text is its body and
whether blanks surround it, because mongoose trims the content it creates while the hash is
of the untrimmed one. `base` is history: the text a request last stored. A request keeps what
its owner was shown (`rev`, `saw`, `ver`) and what the handler has read.

*Actions.* `PreviewRepository` → `ImportFind` → `ImportCreate`; `CheckRefresh` →
`RefreshRead` → `RefreshHead` → `RefreshWrite`; `PreviewExport` → `ExportRead` →
`ExportFind` → `ExportCreate` or `ExportWrite`. `Changes` is a commit or a save of the
profile, `EditSource` and `DeleteSource` are the owner's other requests. `GivesUp` is a call
that throws, a preview that expires, or an owner who turns to something else.

*Merged steps.* The calls to GitHub of one request name one commit, so they are one read.
That a source is being indexed, which the filter of the updates excludes, is a choice in
`RefreshWrite` and `ExportWrite`: `KnowledgeIndexing` has the lease. Titles are left out.

### TextEmbedding

*State.* A text is a sequence of kinds of characters (`letter`, `space`, `newline`), its line
ends normalised; `chunks`, `batches` and `vectors` are what `chunk_text`, `_batches` and the
adapter have made of it so far. A vector is named by the chunk it is the embedding of.

*Actions.* `Cut` is one turn of the loop of `chunk_text`, `Group` one of `_batches` and
`Grouped` what follows it, `Embed` one batch through `embed_with_usage` of either adapter, and
`Build` the records of `SourceIndexingService.index`. The items of an OpenAI answer come in
any order, or with an index twice, and are put in place by index; Gemini's have none.

*Abstractions.* An input whose answer has another number of items or a vector of the wrong
width ends as the provider's failure. Code points are characters, of which only blanks and
line ends matter.

### AccountConnections and GithubActivities

*State.* `service` chooses what a behaviour is of: the connection of either provider, the
synchronisation of one owner, or the conversion of one activity. The four share code or
records only as the actions show, so one run covers them without multiplying their states.
`conn` is a connection's status, account and `connectionGeneration`; `state` the OAuth
states, with `pending` for `pendingInstallationId`; a callback keeps across its awaits the
account, the session and what `Lookup` read. `progress` is `sync.progress` of each
repository; `listed` is what GitHub would list, by the time that is compared.

*Actions.* A callback of LinkedIn is `LinkedInArrives` (which consumes the state) →
`Exchange` → `Lookup` → `Write`; one of GitHub is `GithubArrives` → `Verify` →
`SetInstallation`, and when it comes back with a code `GithubArrives` → `Consume` →
`Exchange` → `Lookup` → `Write`. `Write` goes over whatever the connection has become since
`Lookup`. `syncGithubActivities` is `Claim` → `NextRepo` → `Fetch` → `Check` → `Store` →
`Advance`, again for each page, → `Finish`; `WriterReads` and `WriterWrites` are a selection
or a callback during a pass. `convertGithubActivity` is `ConvertRead` → `ConvertFind` →
`ConvertClaim` → `ConvertMake` → `ConvertMark`, with `ConvertRecover` in the catch block.

*Abstractions.* A repository has one kind of activity, commits or releases, whose times
differ; pull requests are listed by another time than the one compared and are left out. A
conversion's activity is among the hundred it lists. A state's expiry is decided by the time
at which the callback started, as in the code. An owner has one session; a state that its
index of ten minutes removes during a callback ends it like a failed call. Tokens, their
refresh and their encryption are not modelled.

### Notifications

*State.* `publication` is what the worker reads of each record: its status, `scheduleRevision`
and `scheduledAt`. `reminder` is the `scheduled_reminder` of each publication and revision, with
the time it names; `notice` the notification of each outcome. `absent` means that no
notification has the `eventKey`, `obsolete` that `obsoleteAt` is set. `page`, `left`,
`passNow` and `cursor` are the worker's variables across its awaits.

*Actions.* A pass is `PassBegins` → `PassReads` → for each publication of the page
`RemindersLapse` → `NoteInserted`, and the end of the last one sets the cursor. `insertOnce` is
in `Remind` and `Tell`: an event that has its notification gets no second one, also when the
first is obsolete. `RecordFails` is the catch inside the loop, with the update that failed
applied or not; an insert that failed and was applied is `NoteInserted`. `PassFails` is the
catch of the worker, which keeps the cursor; `WorkerDies` loses it. `Changes` is a write of a
publication by others, one that `Succeeds` allows; `RecordsSucceed` proves that
`LinkedInPublication` makes no other.

*Abstractions.* `pending` stands for every status without a reminder and without a message.
The run has one outcome of the five. An owner reads notifications one at a time, a `updateMany`
of several being several steps. A call that is under way when the process dies has been
applied, or never will be. One worker runs, as in `src/docker-compose.app.yml`; with two, a pass over
older records could make a standing reminder obsolete, and the unique index would refuse a new
one.

### ScheduleTime

`resolveLocalDateTime` and the `localKey` it tries with every offset. A local time is an
integer, the instant it would be in UTC; `OffsetAt(z, t)` is a parameter, so the zones are
whatever a run or a theorem makes of them. The list `candidates` is kept as a set, since
the loop gives it an order that follows from its elements: by increasing offset, hence by
decreasing instant. The format of the value and the existence of the zone are checked
before (lines 91-95) and not modelled: no property is about them.
`LinkedInPublication` takes the resolved instant as given.

### The screens: SourcesView, NoteForm, DraftWorkspace, DraftLists

The web application (`src/apps/web/src`) is one page of React components. A handler runs to
its first `await`, and every click, effect and other answer may come before it goes on; what
it has read of the state it has closed over. A module has one action per handler up to its
request, one for what it does with the answer, one per effect, and the API as an environment
that answers, fails, times out or loses the answer of something done. `ApiRequest` has what
`lib/api/api-client.ts` makes of a request: an abort has an effect only until the response's
headers are there. A request knows whether it is still its counter's latest (`on`) and whether
it was aborted in time (`cut`); the requests are a bag, so equal ones count.

`SourcesView` keeps of each source its version and status, of a text where it was read from
and whether it was typed into; `NoteForm` has the texts "typed", "retyped" and "imported", and
whether the owner was asked; `DraftWorkspace` gives a Signal's three drafts one version;
`DraftLists` follows one of the two lists, with the page and filter of its data. A behaviour of
`MCScreens` uses one screen: they share no state but what is passed on with an answer
(`NoteSaved`, `NoteImported`, `ChangeDraft` stand for the other screen's part).

- `ScreensSettle`: a wait that is shown has a request that ends it; a list that is at rest
  shows the page and filter chosen and the changes known to have succeeded, whatever was
  refreshed with an older page in between.
- `ShownIsSelected`: the details and the drafts shown are those of what is selected, and after
  the session nothing is left. Answers that the code takes without looking are excepted by the
  ghosts `strayed` and `misplaced`; section "Findings" lists them.
- `EditsBuildOnWhatTheyReplace`: a save always names the version its text was taken from,
  through conflicts, lost answers, checks and reloads. It is also sent to the source its text
  was taken from, with one exception. A check ("Reload current source"), or a GitHub refresh,
  that is answered after another source was selected is put into the form or the details of
  that one, and a save may then send one source's text to the other. The API
  refuses it only if the two versions differ; if they are equal, the other source is
  overwritten. `strayed` marks that time: it begins with such an answer and ends when a source is
  selected, closed or saved. The way there takes 5 clicks, so in the run's instance of 4 the
  exception is never needed; with 5 clicks and 2 requests at once TLC shows that it is, and
  that it is the only one. The theorem covers any number.
- `TypedIsKept`: an import replaces what is in the form only if the owner was asked, and only
  in the tab it was begun in.
- `CheckedBeforeRetry`: a generation whose outcome is unknown is not asked for again before the
  Signal's drafts were looked up. Excepted is what follows an answer taken for another Signal
  than the selected one (`misplaced` again: the error of a generation, or a Signal that is saved
  and selects itself anew; the instance's 4 clicks are too few for it).

Left out: the other tabs, texts and their lengths, focus and layout, the cooldown after a rate
limit, the end of the session in the create tab (its page is left then), and the answers for a
Signal that is gone: the API deletes none.

## 3. What is checked

| run | instance | question |
|---|---|---|
| `race` | 2 confirmations, 1 scheduling request, 1 worker, 1 text, 2 connection generations | can competing requests send twice, early, or after a refusal? the refinement of `PublishOnce` |
| `live` | 1 of each, 1 fault, with fairness | every dispatch settles, every due job is resolved |
| `ledger` | 1 owner, a family of 2 attempts, 3 requests, 1 fault | is a unit counted twice, returned twice or lost, but for what a fault lost? one sender; the refinement of `PaidOperations`, which keeps the limits |
| `ledger_lossy` | 3 operations, 1 owner, a lost answer | a disagreement of documents and code |
| `signal` | 2 requests in 2 processes, 1 edit, workflows, 1 fault | may drafts be stored unprotected or outdated, and does the protection last as long as it must? |
| `workers` | 1 workflow on either graph, 2 approvals, 1 review, 1 cancellation, 1 fault; or 2 publications on pages of 1, 3 writes of them, 2 revisions, 1 fault | is a step replayed, an unreviewed text approved, a lost run written to, a claim kept for ever? is a standing reminder taken away, an outcome never told, an outdated reminder left? |
| `workflow_stalls` | 1 workflow on the deployed graph, nothing else | a flawless workflow that fails |
| `requests` | 2 calls with one key, 2 conversions, 1 application, 1 reader, 1 fault, each kind | is anything paid twice, answered with another request's run, converted twice, or left running? |
| `knowledge` | 2 attempts, 2 batches, 2 versions, a second day or model, 1 fault; or 1 source of either origin, 2 requests, 2 revisions of the origin, 4 versions | does an index that is recorded have all its points, and does a search answer with nothing else? is an edit lost unseen, or a text stored that was not shown? |
| `connections` | 3 callbacks, 2 states, 2 owners and accounts of either provider; 2 passes of up to 2 pages against 1 selection or callback; 2 conversions, 2 faults | is a code exchanged once, a connection to a confirmed account, a listed activity stored, a Signal made once and at last? |
| `screens` | 2 sources with 2 versions, 3 requests at once, 4 clicks; a note, 2 requests, 4 clicks; 2 Signals with 2 versions, 3 requests, 4 clicks; a list of 2 pages, 3 requests, 4 clicks | does a late, lost or aborted answer leave a screen waiting, showing the wrong thing, or overwriting what was typed or saved? |
| `calculations` | every text of up to 10 characters, chunks of 6 with an overlap of 1 and a look-back of 2, both adapters; 77 local times in every zone of 6 base offsets, 3 shifts and 9 pairs of transitions | is a word left out, do the parts' limits agree, does a chunk get its own vector? is a local time resolved to an instant that shows it? |

**Bounds.** `MaxTime` ends the clock after every expiry can have passed and been acted
on (lives and leases are 1 or 2 ticks); in the `live` run it is large enough never to be
reached, since `Tick` stops by itself when no deadline is left. `MaxRev` 2 or 3 allows a
schedule and one or two moves; `MaxStamp` bounds edits and approvals; `MaxGen` 2 allows one
disconnection; `MaxFaults` 1 allows one crash or failed call, wherever it falls.
Races in this code are between two actors and a third that recovers, which is why the
largest instances have three or four processes. Small quotas make the last unit contended:
in `ledger` the owner's limit is 2 and the application's 1, so that the application's
window refuses operations the owner's window has already counted, and requests halfway
between the two can fill the owner's. `DayLength` 2 and `MaxTime` 2 let a reservation be
made on one day and recovered or reopened on the next. In `signal` the requests run in
different processes, since within one the map stands between them; `LeaseLife` 1, `Ttl` 2
and `MaxTime` 2 let a lease end while its attempt runs, be taken by the other request, and
be followed by the end of a reservation; `MaxRev` 2 is one edit that succeeds, the one that
would matter. In `workers` one workflow is enough for its own properties: what another one of the
same Signal can do to it is to store the Generation first, which `Generate` does, and the
`Expire` of any worker's pass is enabled whatever its own run does; `MaxText` 2 and `MaxRev` 2
let the draft and the inputs change once after they were read; of two publications on pages
of one the second is reached only by the cursor, and three writes schedule one and move or
end it while a pass works from an earlier page. In `requests` two calls can
both miss the record, and each can come again after the other's outcome; the converters are
two because the plan is marked after the Signal is made. In `knowledge` two versions give a
job of the earlier one a chance to write late; `MaxTurns` 1 allows another day or another
model and not both, whose effects are independent: a day frees the usage key, a model empties
the collection; of a source's own requests two are enough for one to write between the other's
steps, and four versions let both write after an edit. In `connections` three
callbacks are one more than a GitHub connection needs, two states and two accounts let them
mix, `MaxGen` 2 allows a disconnection before or after a connection; pages of one activity and
three times let a page shift while a pass is between two pages. In `screens` three
requests are one that was overtaken, its successor and one of another kind; four clicks let a
save time out, be checked and be tried again after another tab's write, and a list be refreshed
with a page that was left; typing and closing do not count as clicks. In `calculations` a unit is half an hour, the smallest summer-time
shift in use; the base offsets include both ends of the range the loop tries, and the values
surround every transition by more than any shift.

**Symmetry** permutes processes of one kind (in the publication and ledger runs), and the
sources and Signals (in `screens`). No
property or initial state distinguishes them, and no symmetric run checks liveness.

**Fairness** (`FairSpec`, and the specifications of the MC modules that have two parts). A handler that has started runs on (the event loop always
returns to it), the scheduler's interval fires again, and time passes: weak fairness of
each handler's step, of each worker's step and of `Tick`. A provider call ends, by an
answer or by the HTTP client's own timeout. Users owe nothing: no request has to arrive.
For a workflow the interval keeps starting passes, and time ends its lease
(`LeaseRunsOut`). For a request's run and for an index nothing comes by itself: `PlansSettle`
and `IndexingEnds` are about a user who asks again, which is why their fairness includes the
request (`Work`); so does `ConversionRecovers`, where a refused user asks again and a claim
grows five minutes old. For `InboxCatchesUp` the notification worker's interval keeps firing and a
server that went down is started again. Failures are not fair, and a crashed process does nothing more; the interval starts the
worker anew.

**Deadlock.** It is checked for the publication model, where the scheduler never stops.
In the other runs it is off: a finite number of requests is answered and
nothing remains to be done.

### Findings

1. `ledger_lossy`: an insert applied with its answer lost is refunded by the catch block
   and again at its expiry; the second refund takes another operation's unit.
2. `workflow_stalls`: the deployed graph pauses after the draft and again after the review,
   and the worker's loop tests the run as it was claimed, so it asks for the review's usage
   operation a second time, is refused as a duplicate, and fails the run.

Behaviours the models have and no run is about, each met while modelling:

- A worker that found a job overdue writes `missed` on the lease alone
  (`repositories/linkedin.repository.ts:127`); a reschedule in between leaves the lease in
  place and is overwritten, although `src/README.md:128` says that claims are fenced.
- A confirmation writes `rejected` by `_id` (`services/linkedin-publication.service.ts:249`
  and 268), over the outcome another confirmation has recorded meanwhile.
- A release that fails in `finally` (`services/generation.service.ts:171`) skips the removal
  from the process's map, which then answers every later request with the old error.
- A workflow stores its Generation without the Signal's lease
  (`services/content-workflow.service.ts:542`), so an edit that has passed its check still
  succeeds afterwards, although `src/docs/demo-guide.md:99` says otherwise.
- The choice `earlier` of a repeated local time takes the first of candidates that run from
  the latest instant to the earliest (`services/linkedin-publication.service.ts:104`).
- The usage key of an indexing is the source's version: after a timeout, a crash or a change
  of model the operation of the day is a duplicate, and an explicit retry is refused until
  the next day, while `src/services/api/README.md:36` says expired leases can be retried.
- Points are never deleted: `delete_source` has no caller, although
  `src/docs/personal-rag-plan.md:276` says a retry deletes what is there; and a search takes
  its limit of points before versions are compared, so old ones can fill it.

- A refresh resolves the branch anew when it is confirmed
  (`services/github-import.service.ts:210`), so what replaces the source may be a later commit
  than the one the owner was shown, although the button says "Acknowledge and replace with
  reviewed upstream content" and `src/README.md:921` describes a review of the incoming text.
- An export of the profile that replaces a source leaves the hash of the first export
  (`services/professional-profile.service.ts:125`): an unedited source then needs an
  acknowledgment, and one edited back to its first text is replaced without. `EditsAreKept` is
  therefore about refreshes. The same hash of an untrimmed text makes an imported file that
  ends in a newline look edited for ever.
- Sources have no unique index on their origin: two imports of one file at once make two
  sources. A save of the profile gives every project a new id, so exporting a project again
  makes a second source.
- A callback that has looked its connection up writes over a disconnection that comes before
  its write, with the generation of that disconnection
  (`services/linkedin-connection.service.ts:253`, `services/github-account.service.ts:379`);
  two selections at once take one generation (`services/github-account.service.ts:435`).
- A pass of the synchronisation that is cut at its limit of pages keeps its next page and the
  cursor of its newest activity (`services/github-connection.service.ts:167`). The next pass asks
  for that page of what is newer than the cursor, and what was on the older pages is never
  fetched. Commits that are pushed later than their date, or whose second the cursor already
  has, are skipped as well. A process that dies in a pass leaves `syncing` for ever.

- In the web application (`src/apps/web/src/components/dashboard`), answers are taken for what is
  selected by then: a status check or a GitHub refresh of one source answered after another was
  selected (`knowledge-sources-view.tsx:785` and 168), which a save then overwrites with the
  first one's text if the versions are equal (`resetEditState`, line 403, does not advance
  `editRequestId`); a Signal saved, drafts generated, or a revision applied while another Signal
  is selected (`dashboard-workspace.tsx:338`, 822). What was found upstream for one source stays
  for the next one, whose refresh it offers. A generation that fails after another Signal was
  found from the library (`dashboard-workspace.tsx:362`) offers "Retry" for that one, also when
  the outcome of its own generation is not known: retrying then generates without a check.
- Waits that stay on: a search that a save overtakes (`knowledge-sources-view.tsx:694`), a list
  whose request a failed save or indexing has overtaken. And one that ends early: the `finally`
  of a status refresh (1024) ends the wait of a newer request.
- A save, an indexing or a deletion reloads the list of sources with the page of the click, and
  a GitHub import its first page: after paging, the list shows another page than is chosen,
  since unlike `DraftLists`' its effect does not run when the data changes.
- Saving a note does not block its form, and its success clears what was typed meanwhile
  (`knowledge-sources-view.tsx:491`); viewing a source again drops its edits unasked.
- The draft library, unlike the calendar, does not go back to its last page: when a draft that
  was alone on its page leaves the filter, "No drafts found" is shown without a pager.

## 4. What is proved

`LinkedInPublicationProofs` proves, for every number of confirmations, schedulers and
workers, all texts and all bounds, from the assumptions in `ProcAssumption` (the three
kinds of process are disjoint and none is `NoLease`) and `BoundAssumption` (the bounds are
natural numbers):

- `TypeCorrect`: `Spec => []TypeOK`.
- `Invariance`: `Spec => []IInv`. None of the safety properties is inductive. `DoorInv`
  says that `dispatchAuthorizedAt` is written once and never cleared, and what each status
  implies about it, which survives even the unconditional overwrites of a confirmation.
  `SenderInv` says that a handler about to call went through the door alone and has not
  called. `ClaimInv` says that a worker that still holds the current revision holds the
  current schedule, and that a confirmation that does is not looking at a scheduled job.
- `CalledAtMostOnce`, `RefusedNeverSent`, `PublishedPosted`: consequences of `IInv`.
- `NotEarly`: the action property, from `ClaimInv` and `now <= clock`.
- `PublishesOnce`: every step of the handlers is a step of `PublishOnce` or a stutter
  under the mapping `Phase`.

It also proves, of `ScheduleTime` and for any zones with offsets within the loop's bounds
(`ZoneAssumption`), that the loop finds exactly the instants that show the time
(`CandidatesAreInstants`), that both choices are among them (a nonempty bounded set of
integers has its ends, by well-foundedness of the naturals), and from the two that
`ShowsWhatWasAsked` is an invariant (`ResolvedShows`), and `RepeatedNeedsChoice` as well
(`RepeatedAsks`): a time is refused as ambiguous exactly if it is and no choice was made.

And of `Notifications`, for any publications, page size, lead and bounds, from
`InboxAssumption`, of `InboxSpec`:

- `InboxTypeCorrect`.
- `ReminderStands`: `StandingReminderStands` is invariant. It needs `PassInv`, which TLC checked
  first: what a pass has read is the record or an earlier one by its revision, no reminder is
  of a later revision than its record, and of a publication that the pass has still to do no
  reminder is of a later revision than what it has read, since only the pass itself
  inserts. So what a pass makes obsolete has been superseded, however old the page is.
- `RecordsSucceed`: `Succeeds`, which the environment of `Notifications` is made of, is an action
  property of `LinkedInPublication`'s records, by `MonoStep` from `IInv`: every write that
  sets a schedule raises the revision in the same update.

`UsageLedgerProofs` proves, for any owners, operations, requests, quotas and
bounds, from `LedgerAssumption`, of `Spec`:

- `TypeCorrect`: `Spec => []TypeOK`.
- `LedgerInvariant`: `Spec => []IInv`. The limit is a statement about two counters, several
  reservations and requests halfway between them, none of which alone stays put.
  `CoverInv` says that what a window has counted is at least what its reservations, the
  requests that still hold or owe a unit, and the operations already sent account for;
  `OweInv` says which requests may owe which units, so that no unit is returned twice;
  `SenderInv` says that a request at the provider has its reservation dispatched, which is
  what keeps a second one out (`OneSender`). The
  steps of the proof count sets that change by one element (`OneApart`, `HoldingStep`,
  `KeepingStep`, `CoverMove`): one lemma per kind of change, cited by the actions.
- `EveryUnitAccounted`: `UnitsAccounted` is invariant. No window has lost or gained a unit:
  what it has counted as reserved is at least what the open reservations charged to it
  (`Outstanding`) and the requests that hold or owe a unit of it (`Owing`) come to, and more
  by at most one for each fault. It is inductive next to `IInv`: every step moves the two
  counts as it moves the counter (`OwingStep`, `OutstandingStep`, `AccountMove`, and one
  lemma per kind of step), and a refund always finds the unit it owes (`OwedIsCounted`), so
  the `$gt: 0` of its filter never hides a loss. A crash takes one request out of the
  count, hence the unit it may cost.
- `PaysAsPromised`: `Spec => ImplementsPaidOperations`, step by step, from `IInv` and
  `ReopenInv` (whoever is about to reopen a reservation has that reservation's day, and it
  was not gone in between). That a dispatch has room is `CoverInv`
  again: the reservation it dispatches is one of those the counter covers and is not among
  those sent.
- `NeverOverLimit`, `DispatchedStaysCounted`, `SingleSender`: consequences of `IInv`.

They hold with every crash and every failed call some handler catches, but not of
`LossySpec`, whose extra step is finding 1.

`SignalGenerationProofs` proves, for any requests, editors, processes, workflows and
bounds, from `SignalAssumption` (requests, `None` and `Workflow` are distinct, the bounds
are naturals, every request has a process):

- `TypeCorrect`: `Spec => []TypeOK`.
- `Protected`: `Spec => []IInv`, where `IInv` is the three invariants below with
  `SnapshotInv`: while the Signal is persisting its holder's snapshot is the Signal's
  revision, and whoever is about to record a Generation has seen one. None of the three
  stands alone. That an insert is protected rests on no one taking a persisting lease; that
  the stored drafts are current rests on the holder's snapshot staying current while it
  persists; and that snapshot is taken at the reservation, long before, and compared only
  in `Begin`. The lemmas are one per way a step can touch the invariant: not at all
  (`QuietStep`), changing an unprotected Signal (`UnprotectedStep`), `RecordStep`,
  `StoreStep`, `BeginStep`, `EditStep`.
- `InsertsAreProtected`, `StoredStaysProtected`, `DraftsAreCurrent`: its consequences.
- `EndsInRecord`: the action property `ProtectionEndsInRecord`.

`KnowledgeSourcesProofs` proves, of `KnowledgeIndexing`, for any attempts, batches, versions,
models and days, from `IndexingAssumption`:

- `TypeCorrect`: `Spec => []TypeOK`.
- `SentOnceAtATime`: two attempts at the AI service have different usage operations. By
  itself this is not inductive: `HoldersDispatched` says that the operation of every attempt
  between its dispatch and its settlement is still dispatched, and `HoldersDiffer` that
  no two of them share one, so that settling one leaves the others' alone.
- `IndexIsComplete`: by `IndexInv`. A job has written the batches it counts (`JobsWrote`), in
  the collection of the deployed model, because a deployment ends every job; an attempt
  waits for the job of its own version (`CallsOwnJob`); so what is recorded is whole
  (`FinalIsWhole`), and no later attempt or job takes a point away.
- `SearchIsCurrent`: its consequence for every answer of a search.

And of `SourceIntake`, for any requests, sources, texts, edits and commits, from
`IntakeAssumption`, of `IntakeSpec`:

- `IntakeTypeCorrect` and `Invariance`. What a request was shown is compared once more before it
  writes, and with a version, not with the text; so the invariant says what the version
  stands for. `RefreshGood`: while a source still has the version a refresh was shown, it has the
  text that was shown, after the second read the hash that was read, and at the write either
  the owner's word or the text that was last stored. `ImportGood` and `ExportGood`: the commit
  or the revision that was shown is the one that is stored. `FileInv`: the hash of an imported
  file is that of its untrimmed text.
- `RefreshKeepsEdits` and `StoresWhatWasShown`: two action properties; `StoringStep` says which
  steps may store at all.

Of `TextEmbedding`, for any text, from `EmbeddingAssumption` (which the constants of the code
satisfy, with room to spare), of `TextSpec`:

- `TextTypeCorrect` and `TextInvariance`, whose invariant says what has been cut covers the
  text up to `start` (`TextIsIndexed` needs it for the text that is not cut yet), that what is
  grouped is the chunks in their order, and that the vectors are those of the batches that
  are no longer there.
- `TextIsIndexed`, `CutsAdvance`: its consequences.
- `PartsAgree`, by `FitInv`: every chunk is within its limit and has a word, `room` is the sum
  of the batch being filled, and every batch is one the adapters take. It reasons about `Sum`
  without induction: that its recursion has a solution, and that two solutions agree on their
  common part, follow from a least counterexample (`SumExists`, `SumAgrees`).

`GithubActivitiesProofs` proves, for any owners, accounts, states, callbacks, repositories,
times, page sizes, passes, converters and bounds, from `ConnectionAssumption` and
`ActivityAssumption`:

- `TypeCorrect`. A behaviour is of one service, so the invariant has three parts, and each step
  keeps one and leaves the others alone.
- `CallbacksAreBound`, `MemberStays`, by `LinkInv`: what a callback carries
  after each call it awaited (`GoodCallback`), that two callbacks that are to exchange have
  different states, and that whatever is pending in a state was verified for its owner. The
  unique index does the rest for a member.
- `NothingIsLeftOut`, by `SyncInv`: what a pass still has to bring and has not stored lies on
  the pages it has not read, however many activities appear between two of them. New ones only
  push the older to later pages: a page is defined by how many are listed before an
  activity (`UpTo`), and that number only grows.
- `OneSignalOfAnActivity`, by `ConvertInv`.

The run has one repository, because a second multiplies its states beyond use; the proof is for
any number, and its attempt found the model wrong for two: what the property expects of a pass
was carried over from one repository to the next. `NextRepo` now begins it anew.

`ContentWorkflowProofs` proves, for any workflows, reviews, approvals, cancellations, texts,
versions and faults, on either graph, from `WorkflowAssumption`:

- `TypeCorrect`, and `WfAlways`, the inductive invariant `WfInv`, which TLC checked first on
  two instances (two approvals; two reviews).
- `NeverSentTwice`, by `SendInv`. The ledger alone does not give it, since a released operation
  may be admitted again: the release is always the last thing its worker does, no run is
  claimed a second time, and a worker that sent a step after the cancellation finds at its
  next write that it no longer holds the run.
- `ApprovedStandsOnReview`, by `BoundInv`, `ReviewerInv`, `OneReviewer` and `ApproverInv`. An
  approval reads the run, the versions, the draft and the review one after the other. What it
  knows at each place has to survive everything else: a review keeps its text while its
  verdict goes stale and current again, a binding is never taken back, and the brief is
  never older than the version the run was created from, so that equal versions mean an equal
  brief.
- `HolderAdvances`: the action property, from the guards of the two writes.

`RequestRunsProofs` proves, for any callers, converters, appliers, readers, versions and
faults, of each of the three kinds, from `RequestAssumption`:

- `TypeCorrect`, and `Invariance`, in four parts. `OneOwner`: from the insert of the record to
  the write of its outcome one call owns the run, the run is of its request and has not
  succeeded; this is what makes the overwriting by `_id` harmless, an expired plan's excepted.
  `OwnerPays`: that call alone asks the provider. `Found`: who is answered has found the record.
  `AppliesSucceeded`: a review that was read as succeeded stays so until the draft is replaced.
- `PaidOnceAnsweredTruly`, `ConvertsOnce`, and the action property `ReplacesReviewed`.
  The ledger is not needed for the first: that a released operation may be admitted
  again does not matter, because the call that released it was the record's only owner.

`ScreensProofs` proves, of the four screens of `MCScreens` together, for any sources, any
Signals and any bounds, from the assumptions of the four modules (`None` is no page and no
filter, the bounds are naturals):

- `ScreensInvariant`: `Spec => []ScreensInv`, which is `SourceInv`, `NoteInv`, `DraftInv` and
  `ListInv`. Each has the same three parts. A flag of the screen is up only if a request that
  will take it down is under way and has not been overtaken: `SourceWaits`, `NoteWaits`,
  `DraftWaits`. A request under way fits the screen as it is now, not as it was when it was
  made: `SourceCall`, `DraftCall`, `DraftLoad`, `LoadCall`. And what is shown fits what is
  selected: `Own`, `Shown`, `AtRest`. None of them is inductive alone, since an answer may
  come after any number of clicks. TLC checked `SourceInv`, `DraftInv` and `ListInv` first.
- `WaitsEnd`, `SelectedIsShown` and `EditsFitTheirSource`: its consequences. The last one's
  version conjunct has no exception, and the one for its source is `strayed`; that ending the
  exception with a selection is sound rests on what is left then: no save, and no request
  whose answer is put under the selection (`Settles`).
- `ImportsAsk` and `RetriesLookFirst`: the action properties. The second rests on `Looked`:
  while the outcome of the selected Signal's generation is not known, its drafts are being
  looked up, or looking them up is what is offered. Its proof found that the property
  did not hold as it was stated: the error of one Signal's generation may be shown under
  another one, which then offers "Retry"; `misplaced` is that exception now.

The requests of a screen are a bag. The module `Bags` adds up with a recursion over subsets, so
what `Overtaken`, `Aborted` and the answers do to a bag is proved first: the recursion
has a solution on every finite set, by a least counterexample, and a sum of naturals is
positive exactly if one of its terms is. From there on a bag is only known by what it
holds (`Has`), what of it is wanted (`Wants`) and whether a kind is in it once
(`Alone`), and `Stay` and `LeftOf` say what each step leaves of these.

## 5. What is only model-checked

Liveness (`DispatchSettles`, `DueJobsResolve`, `ClaimsEnd`, `PlansSettle`, `IndexingEnds`,
`ConversionRecovers`, `InboxCatchesUp`) under fairness, which the prover cannot treat; and those the code
violates.

## 6. What is not modelled

Runs are few on purpose: one for each question.

Not modelled at all: accounts and sessions, analytics, the API's listings,
rate limits and validation, the other tabs of the web application, scripts and deployment. They keep single
documents or none and have no protocol of several steps. `PROJECT.json` gives the reason
for each component.
