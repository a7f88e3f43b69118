------------------------- MODULE LinkedInPublication -------------------------
(***************************************************************************)
(* LinkedIn publications: the records of linkedinPublications and the      *)
(* handlers that move them (services/linkedin-publication.service.ts over  *)
(* repositories/linkedin.repository.ts).                                   *)
(*                                                                         *)
(* One owner and one variation.  A record is identified by what its        *)
(* operationKey hashes: the draft's content and the connection generation. *)
(* A handler is a process; between two of its database calls anything else *)
(* may happen, so every awaited call is an action of its own.  A process   *)
(* keeps in snap, now and res what the handler keeps in local variables.   *)
(*                                                                         *)
(* Confirmers  requests to POST .../confirm  (publish now)                 *)
(* Schedulers  requests to POST .../schedule                               *)
(* Workers     instances of startLinkedInSchedulerWorker                   *)
(***************************************************************************)
EXTENDS Integers, FiniteSets

CONSTANTS
    Contents,       \* the texts the draft may hold
    Confirmers, Schedulers, Workers,
    NoLease,        \* leaseId: null
    PreviewLife,    \* previewLifetimeMs
    LeaseLife,      \* the 120 s of a claim
    LateWindow,     \* LINKEDIN_SCHEDULE_LATE_WINDOW_MINUTES
    MinLead,        \* the 5 minutes a schedule must lie ahead
    Horizon,        \* LINKEDIN_SCHEDULE_HORIZON_DAYS
    MaxTime,        \* bound on the clock
    MaxGen,         \* bound on connectionGeneration
    MaxStamp,       \* bound on the number of writes to generations and workflows
    MaxRev,         \* bound on scheduleRevision
    MaxFaults       \* bound on crashes and failed database calls

Procs == Confirmers \cup Schedulers \cup Workers
Keys == Contents \X (1..MaxGen)

ASSUME ProcAssumption ==
    /\ Confirmers \cap Schedulers = {}
    /\ Workers \cap (Confirmers \cup Schedulers) = {}
    /\ NoLease \notin Procs

ASSUME BoundAssumption ==
    /\ PreviewLife \in Nat \ {0} /\ LeaseLife \in Nat \ {0}
    /\ MinLead \in Nat \ {0} /\ Horizon \in Nat \ {0} /\ LateWindow \in Nat
    /\ MaxTime \in Nat /\ MaxStamp \in Nat /\ MaxRev \in Nat /\ MaxFaults \in Nat
    /\ MaxGen \in Nat \ {0}
    /\ Contents # {}

VARIABLES
    clock,   \* Date.now()
    stamps,  \* writes so far: each gives its document a fresh updatedAt
    draft,   \* the variation: content, approved, and its generation's updatedAt
    flow,    \* per text, updatedAt of the newest completed workflow approving it; 0: none
    conn,    \* the LinkedIn connection: usable for posting, connectionGeneration
    pub,     \* the publication record of each operation key
    pc, now, snap, res,      \* the handlers' program counters and locals
    calls,   \* provider calls made for each operation
    posted,  \* the operations with a post at LinkedIn
    faults   \* crashes and failed database calls so far

env == <<stamps, draft, flow, conn>>
locals == <<pc, now, snap, res>>
provider == <<calls, posted>>
vars == <<clock, env, pub, locals, provider, faults>>

Open == {"pending", "scheduled"}
Outcomes == {"published", "rejected", "uncertain"}
Statuses == {"none", "dispatching", "cancelled", "missed", "blocked"}
              \cup Open \cup Outcomes
Errors == {"", "PREVIEW_EXPIRED", "PUBLICATION_INPUT_CHANGED"}

\* Of dispatchAuthorizedAt and cancelledAt only whether they are set is ever read.
Stamped == {"null", "set"}

Absent == [status |-> "none", lease |-> NoLease, leaseExp |-> 0, rev |-> 0,
           at |-> 0, previewExp |-> 0, stamp |-> 0, authorizedAt |-> "null",
           cancelledAt |-> "null", error |-> ""]

\* What a process knows of the record it works on; at is the instant a
\* scheduling request asks for, or the scheduledAt a worker claimed.
NoSnap == [key |-> CHOOSE k \in Keys : TRUE, rev |-> 0, at |-> 0]

Init ==
    /\ clock = 0
    /\ stamps = 0
    /\ draft \in [content : Contents, status : {"draft"}, stamp : {0}]
    /\ flow = [c \in Contents |-> 0]
    /\ conn = [status |-> "connected", gen |-> 1]
    /\ pub = [k \in Keys |-> Absent]
    /\ pc = [p \in Procs |-> "idle"]
    /\ now = [p \in Procs |-> 0]
    /\ snap = [p \in Procs |-> NoSnap]
    /\ res = [p \in Procs |-> "uncertain"]
    /\ calls = [k \in Keys |-> 0]
    /\ posted = {}
    /\ faults = 0

-----------------------------------------------------------------------------
(* The draft, its workflow and the connection: what publication reads.     *)

\* resolveApprovedDraft: the variation is approved, or a completed workflow
\* approved exactly the text it holds now.
FlowApproves == flow[draft.content] # 0
Approved == draft.status = "approved" \/ FlowApproves
ApprovalFingerprint ==
    IF draft.status = "approved" THEN draft.stamp ELSE flow[draft.content]

\* requirePublishableConnection; with Approved, what the handlers throw without.
Publishable == Approved /\ conn.status = "connected"

\* The comparison of the resolved inputs with the record's snapshot.
InputsMatch(k) ==
    /\ k = <<draft.content, conn.gen>>
    /\ ApprovalFingerprint = pub[k].stamp

WriteStamp == stamps < MaxStamp /\ stamps' = stamps + 1

EditDraft(c) ==
    /\ WriteStamp
    /\ draft' = [content |-> c, status |-> "draft", stamp |-> stamps']
    /\ UNCHANGED <<clock, flow, conn, pub, locals, provider, faults>>

\* Every update of a variation refreshes its generation's updatedAt, an
\* approval included: approving again changes the fingerprint.
ApproveDraft ==
    /\ WriteStamp
    /\ draft' = [draft EXCEPT !.status = "approved", !.stamp = stamps']
    /\ UNCHANGED <<clock, flow, conn, pub, locals, provider, faults>>

\* A write that leaves this variation's content and approval alone: its
\* calendar date is set or cleared, or a sibling variation is edited.
TouchGeneration ==
    /\ WriteStamp
    /\ draft' = [draft EXCEPT !.stamp = stamps']
    /\ UNCHANGED <<clock, flow, conn, pub, locals, provider, faults>>

\* The approval names the text the draft held when it was claimed; the draft may
\* have been edited by the time the workflow completes.
CompleteWorkflow(c) ==
    /\ WriteStamp
    /\ flow' = [flow EXCEPT ![c] = stamps']
    /\ UNCHANGED <<clock, draft, conn, pub, locals, provider, faults>>

Disconnect ==
    /\ conn.gen < MaxGen
    /\ conn' = [status |-> "reconnect_required", gen |-> conn.gen + 1]
    /\ UNCHANGED <<clock, stamps, draft, flow, pub, locals, provider, faults>>

Reconnect ==
    /\ conn.gen < MaxGen
    /\ conn' = [status |-> "connected", gen |-> conn.gen + 1]
    /\ UNCHANGED <<clock, stamps, draft, flow, pub, locals, provider, faults>>

\* The access token reaches its expiresAt.
TokenExpires ==
    /\ conn.status = "connected"
    /\ conn' = [conn EXCEPT !.status = "expired"]
    /\ UNCHANGED <<clock, stamps, draft, flow, pub, locals, provider, faults>>

-----------------------------------------------------------------------------
(* Previews, cancellation and rescheduling: one conditional write each.    *)

CurrentKey == <<draft.content, conn.gen>>

\* createLinkedInPublicationPreview: the record it answers with for key k.
\* An existing record is returned as it is, whatever its status.
PreviewRecord(k) ==
    IF pub[k].status # "none"
    THEN pub[k]
    ELSE [Absent EXCEPT !.status = "pending",
                        !.previewExp = clock + PreviewLife,
                        !.stamp = ApprovalFingerprint]

CreatePreview ==
    /\ Publishable
    /\ pub[CurrentKey].status = "none"
    /\ pub' = [pub EXCEPT ![CurrentKey] = PreviewRecord(CurrentKey)]
    /\ UNCHANGED <<clock, env, locals, provider, faults>>

CanCancel(k) == pub[k].status = "scheduled"

Cancel(k) ==
    /\ CanCancel(k)
    /\ pub' = [pub EXCEPT ![k].status = "cancelled", ![k].cancelledAt = "set",
                          ![k].rev = @ + 1]
    /\ UNCHANGED <<clock, env, locals, provider, faults>>

\* The lease of a worker that has claimed the job is left in place: only the
\* revision tells the worker that its claim is void.
Reschedule(k, t) ==
    /\ pub[k].status = "scheduled"
    /\ pub[k].rev < MaxRev
    /\ t \in (clock + MinLead)..(clock + Horizon)
    /\ pub' = [pub EXCEPT ![k].at = t, ![k].rev = @ + 1]
    /\ UNCHANGED <<clock, env, locals, provider, faults>>

\* Mutant: only scheduled jobs are recovered.
RecoverableJob(k, t) ==
    pub[k].status = "dispatching" /\ pub[k].leaseExp <= t /\ pub[k].rev > 0

\* recoverExpiredLinkedInDispatch: at most one record per call.
Recoverable(k, t) == pub[k].status = "dispatching" /\ pub[k].leaseExp <= t

\* Mutant: an expired dispatch is put back for another attempt.
RecoveredToRetry(r) == [r EXCEPT !.status = "scheduled", !.lease = NoLease, !.leaseExp = 0]

Recovered(r) == [r EXCEPT !.status = "uncertain", !.lease = NoLease, !.leaseExp = 0]

RecoverOne(t) ==
    IF \E k \in Keys : Recoverable(k, t)
    THEN \E k \in Keys : Recoverable(k, t) /\ pub' = [pub EXCEPT ![k] = Recovered(@)]
    ELSE UNCHANGED pub

\* Reading the history recovers too.
ReadHistory ==
    /\ \E k \in Keys : Recoverable(k, clock)
    /\ RecoverOne(clock)
    /\ UNCHANGED <<clock, env, locals, provider, faults>>
-----------------------------------------------------------------------------
(* Steps of a handler.                                                     *)

Goto(p, label) == pc' = [pc EXCEPT ![p] = label]

\* A handler returns or throws: its locals are gone.  A request is over; a
\* worker waits for its next interval.
Finish(p) ==
    /\ Goto(p, IF p \in Workers THEN "idle" ELSE "done")
    /\ now' = [now EXCEPT ![p] = 0]
    /\ snap' = [snap EXCEPT ![p] = NoSnap]
    /\ res' = [res EXCEPT ![p] = "uncertain"]

Key(p) == snap[p].key
Record(p) == pub[Key(p)]

\* Mutant: the lease alone is the fence, the revision is not compared.
CanAuthorizeAnyRevision(p) ==
    /\ Record(p).status \in Open
    /\ Record(p).lease = p
    /\ Record(p).leaseExp > now[p]
    /\ Record(p).cancelledAt = "null"

\* authorizeLinkedInPublicationDispatch, the one door to a provider call.
\* The lease is compared with the time the handler started, not with the clock.
CanAuthorize(p) ==
    /\ Record(p).status \in Open
    /\ Record(p).lease = p
    /\ Record(p).leaseExp > now[p]
    /\ Record(p).cancelledAt = "null"
    /\ Record(p).rev = snap[p].rev

Authorize(p) ==
    /\ pc[p] = "authorize"
    /\ IF CanAuthorize(p)
       THEN /\ pub' = [pub EXCEPT ![Key(p)].status = "dispatching",
                                  ![Key(p)].authorizedAt = "set"]
            /\ Goto(p, "publish")
            /\ UNCHANGED <<now, snap, res>>
       ELSE Finish(p) /\ UNCHANGED pub
    /\ UNCHANGED <<clock, env, provider, faults>>

\* Mutant: an answer without an identifier counts as published.
AnswersOptimistic(outcome, created) == (outcome = "rejected") => ~created

\* publishTextPost: a 4xx is a rejection; a lost answer, a 5xx or an answer without
\* an identifier is uncertain, and the post may exist or not.
Answers(outcome, created) ==
    /\ (outcome = "published") => created
    /\ (outcome = "rejected") => ~created

Publish(p) ==
    /\ pc[p] = "publish"
    /\ calls' = [calls EXCEPT ![Key(p)] = @ + 1]
    /\ \E outcome \in Outcomes, created \in BOOLEAN :
          /\ Answers(outcome, created)
          /\ res' = [res EXCEPT ![p] = outcome]
          /\ posted' = IF created THEN posted \cup {Key(p)} ELSE posted
    /\ Goto(p, "record")
    /\ UNCHANGED <<clock, env, pub, now, snap, faults>>

-----------------------------------------------------------------------------
(* confirmLinkedInPublication.                                             *)

ConfirmStart(r, k) ==
    /\ pc[r] = "idle"
    /\ pub[k].status # "none"
    /\ RecoverOne(clock)
    /\ Goto(r, "read")
    /\ now' = [now EXCEPT ![r] = clock]
    /\ snap' = [snap EXCEPT ![r].key = k]
    /\ UNCHANGED <<clock, env, res, provider, faults>>

ConfirmRead(r) ==
    /\ pc[r] = "read"
    /\ \/ /\ Record(r).status # "pending"
          /\ Finish(r)
       \/ /\ Record(r).status = "pending"
          /\ Goto(r, IF Record(r).previewExp <= now[r] THEN "expire" ELSE "validate")
          /\ snap' = [snap EXCEPT ![r].rev = Record(r).rev]
          /\ UNCHANGED <<now, res>>
    /\ UNCHANGED <<clock, env, pub, provider, faults>>

ConfirmValidate(r) ==
    /\ pc[r] = "validate"
    /\ \/ ~Publishable /\ Finish(r)
       \/ /\ Publishable
          /\ Goto(r, IF InputsMatch(Key(r)) THEN "claim" ELSE "reject")
          /\ UNCHANGED <<now, snap, res>>
    /\ UNCHANGED <<clock, env, pub, provider, faults>>

\* updateLinkedInPublication: findByIdAndUpdate, whatever the record has
\* become since it was read.
Overwrite(r, status) == [r EXCEPT !.status = status]

ConfirmExpire(r) ==
    /\ pc[r] = "expire"
    /\ pub' = [pub EXCEPT ![Key(r)] =
                  [Overwrite(@, "rejected") EXCEPT !.error = "PREVIEW_EXPIRED"]]
    /\ Finish(r)
    /\ UNCHANGED <<clock, env, provider, faults>>

ConfirmReject(r) ==
    /\ pc[r] = "reject"
    /\ pub' = [pub EXCEPT ![Key(r)] =
                  [Overwrite(@, "rejected") EXCEPT !.error = "PUBLICATION_INPUT_CHANGED"]]
    /\ Finish(r)
    /\ UNCHANGED <<clock, env, provider, faults>>

CanClaim(r) == Record(r).status = "pending" /\ Record(r).previewExp > now[r]

ConfirmClaim(r) ==
    /\ pc[r] = "claim"
    /\ IF CanClaim(r)
       THEN /\ pub' = [pub EXCEPT ![Key(r)].lease = r,
                                  ![Key(r)].leaseExp = now[r] + LeaseLife]
            /\ Goto(r, "authorize")
            /\ UNCHANGED <<now, snap, res>>
       ELSE Finish(r) /\ UNCHANGED pub
    /\ UNCHANGED <<clock, env, provider, faults>>

ConfirmRecord(r) ==
    /\ pc[r] = "record"
    /\ pub' = [pub EXCEPT ![Key(r)] = [Overwrite(@, res[r]) EXCEPT !.error = ""]]
    /\ Finish(r)
    /\ UNCHANGED <<clock, env, provider, faults>>

ConfirmStep(r) ==
    \/ ConfirmRead(r) \/ ConfirmValidate(r) \/ ConfirmExpire(r) \/ ConfirmReject(r)
    \/ ConfirmClaim(r) \/ Authorize(r) \/ Publish(r) \/ ConfirmRecord(r)

-----------------------------------------------------------------------------
(* scheduleLinkedInPublication.                                            *)

ScheduleStart(s, k, t) ==
    /\ pc[s] = "idle"
    /\ pub[k].status = "pending"
    /\ pub[k].previewExp > clock
    /\ t \in (clock + MinLead)..(clock + Horizon)
    /\ Goto(s, "validate")
    /\ now' = [now EXCEPT ![s] = clock]
    /\ snap' = [snap EXCEPT ![s] = [key |-> k, rev |-> pub[k].rev, at |-> t]]
    /\ UNCHANGED <<clock, env, pub, res, provider, faults>>

ScheduleValidate(s) ==
    /\ pc[s] = "validate"
    /\ IF Publishable /\ InputsMatch(Key(s))
       THEN Goto(s, "store") /\ UNCHANGED <<now, snap, res>>
       ELSE Finish(s)
    /\ UNCHANGED <<clock, env, pub, provider, faults>>

CanSchedule(s) ==
    /\ Record(s).status = "pending"
    /\ Record(s).rev = snap[s].rev
    /\ Record(s).previewExp > clock

ScheduleStore(s) ==
    /\ pc[s] = "store"
    /\ pub' = IF CanSchedule(s)
              THEN [pub EXCEPT ![Key(s)].status = "scheduled", ![Key(s)].at = snap[s].at,
                               ![Key(s)].rev = @ + 1]
              ELSE pub
    /\ Finish(s)
    /\ UNCHANGED <<clock, env, provider, faults>>

ScheduleStep(s) == ScheduleValidate(s) \/ ScheduleStore(s)

-----------------------------------------------------------------------------
(* startLinkedInSchedulerWorker and dispatchClaimedLinkedInPublication.    *)

WorkerTick(w) ==
    /\ pc[w] = "idle"
    /\ RecoverOne(clock)
    /\ Goto(w, "claim")
    /\ now' = [now EXCEPT ![w] = clock]
    /\ UNCHANGED <<clock, env, snap, res, provider, faults>>

Due(k, t) == pub[k].status = "scheduled" /\ pub[k].at <= t

\* Mutant: only a job without a lease is claimed.
ClaimableUnleased(k, t) == Due(k, t) /\ pub[k].lease = NoLease

Claimable(k, t) == Due(k, t) /\ (pub[k].lease = NoLease \/ pub[k].leaseExp <= t)

\* The earliest scheduledAt first; overdue beyond the window, the job is missed.
WorkerClaim(w) ==
    /\ pc[w] = "claim"
    /\ LET claimable == {k \in Keys : Claimable(k, now[w])}
       IN  \/ /\ claimable = {}
              /\ Finish(w)
              /\ UNCHANGED pub
           \/ \E k \in claimable :
                /\ \A j \in claimable : pub[k].at <= pub[j].at
                /\ pub' = [pub EXCEPT ![k].lease = w, ![k].leaseExp = now[w] + LeaseLife]
                /\ snap' = [snap EXCEPT ![w] = [key |-> k, rev |-> pub[k].rev, at |-> pub[k].at]]
                /\ Goto(w, IF now[w] - pub[k].at > LateWindow THEN "miss" ELSE "validate")
                /\ UNCHANGED <<now, res>>
    /\ UNCHANGED <<clock, env, provider, faults>>

WorkerValidate(w) ==
    /\ pc[w] = "validate"
    /\ Goto(w, IF Publishable /\ InputsMatch(Key(w)) THEN "authorize" ELSE "block")
    /\ UNCHANGED <<clock, env, pub, now, snap, res, provider, faults>>

\* blockUnpublishedLinkedInPublication: neither the revision nor the schedule
\* of the claim is compared.
CanBlock(w) ==
    /\ Record(w).status = "scheduled"
    /\ Record(w).lease = w
    /\ Record(w).authorizedAt = "null"

WorkerBlock(w) ==
    /\ pc[w] \in {"miss", "block"}
    /\ pub' = IF CanBlock(w)
              THEN [pub EXCEPT ![Key(w)].status = IF pc[w] = "miss" THEN "missed" ELSE "blocked",
                               ![Key(w)].lease = NoLease, ![Key(w)].leaseExp = 0]
              ELSE pub
    /\ Finish(w)
    /\ UNCHANGED <<clock, env, provider, faults>>

\* The stored token cannot be decrypted: no call is made, and the catch block
\* records the attempt as uncertain.
WorkerCannotDecrypt(w) ==
    /\ pc[w] = "publish"
    /\ Goto(w, "salvage")
    /\ UNCHANGED <<clock, env, pub, now, snap, res, provider, faults>>

\* fenceLinkedInPublication.
CanFence(w) == Record(w).status = "dispatching" /\ Record(w).lease = w

WorkerRecord(w) ==
    /\ pc[w] \in {"record", "salvage"}
    /\ pub' = IF CanFence(w)
              THEN [pub EXCEPT ![Key(w)].status = IF pc[w] = "record" THEN res[w] ELSE "uncertain",
                               ![Key(w)].lease = NoLease, ![Key(w)].leaseExp = 0]
              ELSE pub
    /\ Finish(w)
    /\ UNCHANGED <<clock, env, provider, faults>>

WorkerStep(w) ==
    \/ WorkerTick(w) \/ WorkerClaim(w) \/ WorkerValidate(w) \/ WorkerBlock(w)
    \/ Authorize(w) \/ Publish(w) \/ WorkerCannotDecrypt(w) \/ WorkerRecord(w)

-----------------------------------------------------------------------------
(* Failures and time.                                                      *)

Fault == faults < MaxFaults /\ faults' = faults + 1

\* The process dies, or a call outside a try block throws: a confirm that
\* cannot decrypt the token or save the result ends here as well.
Crash(p) ==
    /\ Fault
    /\ pc[p] \notin {"idle", "done"}
    /\ Finish(p)
    /\ UNCHANGED <<clock, env, pub, provider>>

\* A database call inside the worker's try block throws: before the worker
\* knows itself authorized (the authorization may have been applied) the catch
\* block tries to block the job, after it to record it as uncertain.
WorkerCatch(w) ==
    /\ Fault
    /\ \/ pc[w] \in {"validate", "authorize", "publish"} /\ Goto(w, "block")
       \/ pc[w] = "record" /\ Goto(w, "salvage")
    /\ UNCHANGED <<clock, env, pub, now, snap, res, provider>>

\* The instants at which something may still change.
Deadlines ==
    {pub[k].previewExp : k \in {j \in Keys : pub[j].status = "pending"}}
      \cup {pub[k].leaseExp : k \in {j \in Keys : pub[j].lease # NoLease}}
      \cup {pub[k].at + LateWindow : k \in {j \in Keys : pub[j].status = "scheduled"}}

Tick ==
    /\ clock < MaxTime
    /\ \E d \in Deadlines : clock <= d
    /\ clock' = clock + 1
    /\ UNCHANGED <<env, pub, locals, provider, faults>>

UserStep ==
    \/ \E c \in Contents : EditDraft(c) \/ CompleteWorkflow(c)
    \/ ApproveDraft \/ TouchGeneration
    \/ Disconnect \/ Reconnect \/ TokenExpires
    \/ CreatePreview \/ ReadHistory
    \/ \E k \in Keys : Cancel(k)
    \/ \E k \in Keys, t \in 0..(MaxTime + Horizon) : Reschedule(k, t)
    \/ \E r \in Confirmers, k \in Keys : ConfirmStart(r, k)
    \/ \E s \in Schedulers, k \in Keys, t \in 0..(MaxTime + Horizon) : ScheduleStart(s, k, t)

Next ==
    \/ UserStep
    \/ \E r \in Confirmers : ConfirmStep(r)
    \/ \E s \in Schedulers : ScheduleStep(s)
    \/ \E w \in Workers : WorkerStep(w) \/ WorkerCatch(w)
    \/ \E p \in Procs : Crash(p)
    \/ Tick

Spec == Init /\ [][Next]_vars

\* What the runtime does by itself: handlers run on, the scheduler's interval
\* fires, time passes.  Users, failures and LinkedIn's answers owe nothing.
Fairness ==
    /\ \A r \in Confirmers : WF_vars(ConfirmStep(r))
    /\ \A s \in Schedulers : WF_vars(ScheduleStep(s))
    /\ \A w \in Workers : WF_vars(WorkerStep(w))
    /\ WF_vars(Tick)

FairSpec == Spec /\ Fairness
-----------------------------------------------------------------------------
(* Properties.                                                             *)

PubType == [status : Statuses, lease : Procs \cup {NoLease}, leaseExp : Nat,
            rev : Nat, at : Nat, previewExp : Nat, stamp : Nat,
            authorizedAt : Stamped, cancelledAt : Stamped, error : Errors]

Labels == {"idle", "read", "validate", "expire", "reject", "claim", "store", "miss",
           "block", "authorize", "publish", "record", "salvage", "done"}

\* Every variable holds a value of the kind its document or local holds.
TypeOK ==
    /\ clock \in Nat /\ stamps \in Nat /\ faults \in Nat
    /\ draft \in [content : Contents, status : {"draft", "approved"}, stamp : Nat]
    /\ flow \in [Contents -> Nat]
    /\ conn \in [status : {"connected", "reconnect_required", "expired"}, gen : 1..MaxGen]
    /\ pub \in [Keys -> PubType]
    /\ pc \in [Procs -> Labels]
    /\ now \in [Procs -> Nat]
    /\ snap \in [Procs -> [key : Keys, rev : Nat, at : Nat]]
    /\ res \in [Procs -> Outcomes]
    /\ calls \in [Keys -> Nat]
    /\ posted \in SUBSET Keys

\* However confirmations, schedules, workers, crashes and recoveries interleave,
\* LinkedIn is called at most once for an operation: an uncertain or interrupted
\* dispatch is never sent again.
AtMostOneCall == \A k \in Keys : calls[k] <= 1

\* What the user is told was not published (cancelled, missed, blocked) never
\* reached LinkedIn, before or after the record said so.
RefusedIsNeverSent ==
    \A k \in Keys :
        pub[k].cancelledAt = "set" \/ pub[k].status \in {"cancelled", "missed", "blocked"} => calls[k] = 0

\* What an operation is to the outside: whether it was ever authorized decides, not
\* what its status was overwritten with since.
Phase(k) ==
    IF pub[k].status = "none" THEN "absent"
    ELSE IF pub[k].authorizedAt = "set" THEN "dispatched"
    ELSE IF pub[k].status \in Open THEN "open" ELSE "refused"

Once == INSTANCE PublishOnce WITH phase <- [k \in Keys |-> Phase(k)], calls <- calls

\* The handlers, workers and failures together keep PublishOnce's promise.
ImplementsPublishOnce == Once!OnceSpec

\* A record says published only if the post exists.
PublishedIsPosted == \A k \in Keys : pub[k].status = "published" => k \in posted

\* A scheduled job is dispatched no earlier than the instant it is scheduled for
\* at that moment, even when it was claimed under an earlier schedule.
NeverEarly ==
    [][\A k \in Keys :
         pub[k].status = "scheduled" /\ pub'[k].status = "dispatching" => pub[k].at <= clock]_vars

\* While the scheduler runs, no dispatch stays open: it gets an outcome, or its
\* lease expires and it is recovered as uncertain.
DispatchSettles ==
    \A k \in Keys : pub[k].status = "dispatching" ~> pub[k].status # "dispatching"

\* While the scheduler runs, every due job is dispatched, missed or blocked, or
\* its user moves or cancels it; a worker that dies with a claim does not keep it.
DueJobsResolve ==
    \A k \in Keys : Due(k, clock) ~> ~Due(k, clock)

\* Why they hold.  Authorization is a door that opens once: an open record was never
\* authorized, one that was never authorized was never sent, and what was refused was
\* not authorized.
DoorInv ==
    \A k \in Keys :
        /\ pub[k].status \in Open \cup {"none"} => pub[k].authorizedAt = "null"
        /\ pub[k].status = "dispatching" => pub[k].authorizedAt = "set"
        /\ pub[k].authorizedAt = "null" => calls[k] = 0
        /\ pub[k].cancelledAt = "set" \/ pub[k].status \in {"cancelled", "missed", "blocked"}
             => pub[k].authorizedAt = "null"
        /\ pub[k].status = "published" => k \in posted
        /\ pub[k].status = "none" => pub[k].rev = 0
        /\ calls[k] <= 1

\* A handler about to call LinkedIn went through the door, alone, and has not called.
SenderInv ==
    /\ \A p \in Procs :
          /\ pc[p] \in {"publish", "record"} => Record(p).authorizedAt = "set"
          /\ pc[p] = "publish" => calls[Key(p)] = 0
    /\ \A p, q \in Procs :
          pc[p] = "publish" /\ pc[q] = "publish" /\ Key(p) = Key(q) => p = q
    /\ \A p \in Procs : pc[p] = "record" /\ res[p] = "published" => Key(p) \in posted

\* A confirmation works on a record that exists.  A worker that holds the current
\* revision holds the current schedule, and a confirmation that does is not looking at
\* a scheduled job.
ClaimInv ==
    /\ \A p \in Procs : now[p] <= clock
    /\ \A w \in Workers : pc[w] \in {"validate", "authorize"} =>
          /\ snap[w].at <= now[w]
          /\ snap[w].rev <= Record(w).rev
          /\ Record(w).status = "scheduled" /\ Record(w).rev = snap[w].rev
               => Record(w).at = snap[w].at
    /\ \A r \in Confirmers : pc[r] \notin {"idle", "done"} => Record(r).status # "none"
    /\ \A r \in Confirmers : pc[r] \in {"validate", "claim", "authorize"} =>
          /\ snap[r].rev <= Record(r).rev
          /\ Record(r).status = "scheduled" => Record(r).rev # snap[r].rev

IInv == DoorInv /\ SenderInv /\ ClaimInv
=============================================================================
