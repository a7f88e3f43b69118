---------------------------- MODULE Notifications ----------------------------
(***************************************************************************)
(* In-app notifications: startNotificationReconciliationWorker walks the   *)
(* publications page by page (services/notification.service.ts over        *)
(* repositories/notification.repository.ts), makes reminders of schedules  *)
(* it no longer finds obsolete, reminds of the one that is near, and tells *)
(* the owner how a publication ended.  The unique index on owner and       *)
(* eventKey allows one notification of an event, and nothing deletes one.  *)
(*                                                                         *)
(* The publications are others' records.  What the worker relies on is     *)
(* Succeeds, which the module LinkedInPublication has; of the statuses     *)
(* with neither a reminder nor a message, pending stands for all.          *)
(***************************************************************************)
EXTENDS Naturals, FiniteSets

CONSTANTS
    LastPublication,    \* bound on the publications
    Told,           \* the statuses the owner is told of: published, rejected, ...
    PageLimit,      \* 100
    ReminderLead,   \* reminderLeadMs
    LastDate, LastRevision,     \* bounds on the clock and on scheduleRevision
    MaxChanges, MaxFailures     \* bounds on others' writes, and on what fails

ASSUME InboxAssumption ==
    /\ LastPublication \in Nat
    /\ Told \cap {"none", "pending", "scheduled"} = {}
    /\ PageLimit \in Nat \ {0} /\ ReminderLead \in Nat
    /\ LastDate \in Nat /\ LastRevision \in Nat
    /\ MaxChanges \in Nat /\ MaxFailures \in Nat

VARIABLES
    date,           \* new Date()
    publication,    \* of each publication status, scheduleRevision and scheduledAt
    reminder,       \* of each publication and revision the scheduled_reminder
    notice,         \* of each publication and status the notification of that outcome
    passAt,         \* where the worker is; down: the process does not run
    passNow,        \* reconcileLinkedInNotifications' now
    page,           \* the publications as they were read
    left,           \* those of the page still to do
    cursor,         \* the _id the next pass starts after; 0: null
    changes, failures

notes == <<reminder, notice>>
working == <<passAt, passNow, page, left>>
inboxVars == <<date, publication, notes, working, cursor, changes, failures>>

\* Their _ids, in the order of creation.
Publications == 1..LastPublication

Revisions == 1..LastRevision
NoPublication == [status |-> "none", rev |-> 0, at |-> 0]
Records == [status : {"none", "pending", "scheduled"} \cup Told,
            rev : 0..LastRevision, at : 0..LastDate]

\* Whether an obsolete one had been read is never asked again.
Marks == {"absent", "unread", "read", "obsolete"}
Shown == {"unread", "read"}
NoReminder == [mark |-> "absent", says |-> 0]

InboxInit ==
    /\ date = 0
    /\ publication = [p \in Publications |-> NoPublication]
    /\ reminder = [p \in Publications |-> [v \in Revisions |-> NoReminder]]
    /\ notice = [p \in Publications |-> [s \in Told |-> "absent"]]
    /\ passAt = "down" /\ passNow = 0
    /\ page = publication /\ left = {} /\ cursor = 0
    /\ changes = 0 /\ failures = 0

-----------------------------------------------------------------------------
(* The others: time, the publications' handlers, the owner. *)

DatePasses ==
    /\ date < LastDate
    /\ date' = date + 1
    /\ UNCHANGED <<publication, notes, working, cursor, changes, failures>>

\* A schedule is set or moved together with scheduleRevision, which a cancellation raises
\* too, and is otherwise only ever set aside, for good.
Succeeds(r, s) ==
    /\ \/ s.rev = r.rev /\ s.at = r.at /\ (s.status = "scheduled" => r.status = "scheduled")
       \/ s.rev = r.rev + 1 /\ (s.status = "scheduled" \/ s.at = r.at)
       \/ r.status = "none" /\ s.status = "pending" /\ s.rev = r.rev /\ s.at = 0
    /\ r.status # "none" => s.status # "none"

Changes(p) ==
    /\ changes < MaxChanges /\ changes' = changes + 1
    /\ \E s \in Records :
          /\ s # publication[p] /\ Succeeds(publication[p], s)
          /\ publication' = [publication EXCEPT ![p] = s]
    /\ UNCHANGED <<date, notes, working, cursor, failures>>

\* markNotificationRead and markNotificationsRead, of one notification each: those that
\* are obsolete or read already are left alone.
Reads ==
    /\ \E p \in Publications :
          \/ /\ \E v \in Revisions : /\ reminder[p][v].mark = "unread"
                                     /\ reminder' = [reminder EXCEPT ![p][v].mark = "read"]
             /\ UNCHANGED notice
          \/ /\ \E s \in Told : /\ notice[p][s] = "unread"
                                /\ notice' = [notice EXCEPT ![p][s] = "read"]
             /\ UNCHANGED reminder
    /\ UNCHANGED <<date, publication, working, cursor, changes, failures>>

-----------------------------------------------------------------------------
(* A pass of the worker. *)

PageDone ==
    /\ passAt' = "idle" /\ passNow' = 0
    /\ page' = [p \in Publications |-> NoPublication] /\ left' = {}

\* The server starts, with a worker that runs at once and has no cursor.
WorkerStarts ==
    /\ passAt = "down" /\ passAt' = "idle"
    /\ UNCHANGED <<date, publication, notes, passNow, page, left, cursor, changes, failures>>

PassBegins ==
    /\ passAt = "idle"
    /\ passAt' = "list" /\ passNow' = date
    /\ UNCHANGED <<date, publication, notes, page, left, cursor, changes, failures>>

\* listLinkedInPublicationsPage: the first of those that are there, after the cursor.
PageAfter(c) ==
    LET later == {p \in Publications : p > c /\ publication[p].status # "none"}
    IN  {p \in later : Cardinality({q \in later : q < p}) < PageLimit}

\* Mutant: the cursor stays behind the last one.
NextCursor_Last(S) == IF S = {} THEN cursor ELSE CHOOSE p \in S : \A q \in S : q <= p

\* A page that is not full is the last one.
NextCursor(S) ==
    IF Cardinality(S) = PageLimit THEN CHOOSE p \in S : \A q \in S : q <= p ELSE 0

PassReads ==
    /\ passAt = "list"
    /\ LET S == PageAfter(cursor)
       IN  \/ S = {} /\ PageDone /\ cursor' = NextCursor(S)
           \/ /\ S # {}
              /\ passAt' = "obsolete" /\ left' = S
              /\ page' = [p \in Publications |-> IF p \in S THEN publication[p] ELSE NoPublication]
              /\ UNCHANGED <<passNow, cursor>>
    /\ UNCHANGED <<date, publication, notes, changes, failures>>

\* The publication the loop is at.
IsNext(p) == p \in left /\ \A q \in left : p <= q

NextRecord(p) ==
    IF left = {p}
    THEN PageDone /\ cursor' = NextCursor({q \in Publications : page[q].status # "none"})
    ELSE passAt' = "obsolete" /\ left' = left \ {p} /\ UNCHANGED <<passNow, page, cursor>>

\* Mutants: the revision is not compared; the reminders of what is no longer scheduled stay.
IsSuperseded_Any(p, v) == TRUE
IsSuperseded_Moved(p, v) == page[p].status = "scheduled" /\ v # page[p].rev

\* obsoleteScheduledReminders: all reminders but the one of the schedule that was read.
IsSuperseded(p, v) == page[p].status = "scheduled" => v # page[p].rev

Lapsed(p, v) ==
    IF reminder[p][v].mark \in Shown /\ IsSuperseded(p, v)
    THEN [reminder[p][v] EXCEPT !.mark = "obsolete"] ELSE reminder[p][v]

MakeObsolete(p) == reminder' = [reminder EXCEPT ![p] = [v \in Revisions |-> Lapsed(p, v)]]

RemindersLapse(p) ==
    /\ passAt = "obsolete" /\ IsNext(p)
    /\ MakeObsolete(p)
    /\ passAt' = "insert"
    /\ UNCHANGED <<date, publication, notice, passNow, page, left, cursor, changes, failures>>

IsNear(p) ==
    /\ page[p].status = "scheduled"
    /\ page[p].at > passNow /\ page[p].at <= passNow + ReminderLead

\* insertOnce: of an event that has its notification, the insert fails on the index.
Remind(p) ==
    LET v == page[p].rev
    IN  reminder' = IF reminder[p][v].mark = "absent"
                    THEN [reminder EXCEPT ![p][v] = [mark |-> "unread", says |-> page[p].at]]
                    ELSE reminder

Tell(p) ==
    LET s == page[p].status
    IN  notice' = IF notice[p][s] = "absent"
                  THEN [notice EXCEPT ![p][s] = "unread"] ELSE notice

NoteInserted(p) ==
    /\ passAt = "insert" /\ IsNext(p)
    /\ \/ IsNear(p) /\ Remind(p) /\ UNCHANGED notice
       \/ page[p].status \in Told /\ Tell(p) /\ UNCHANGED reminder
       \/ ~IsNear(p) /\ page[p].status \notin Told /\ UNCHANGED notes
    /\ NextRecord(p)
    /\ UNCHANGED <<date, publication, changes, failures>>

-----------------------------------------------------------------------------
(* Failures *)

Failure == failures < MaxFailures /\ failures' = failures + 1

\* The catch inside the loop: the rest of this record is left for a later pass.  The call
\* that failed may have been applied.
RecordFails(p) ==
    /\ Failure
    /\ passAt \in {"obsolete", "insert"} /\ IsNext(p)
    /\ UNCHANGED reminder \/ (passAt = "obsolete" /\ MakeObsolete(p))
    /\ NextRecord(p)
    /\ UNCHANGED <<date, publication, notice, changes>>

\* The page cannot be read: the worker's catch keeps the cursor.
PassFails ==
    /\ Failure
    /\ passAt = "list" /\ PageDone
    /\ UNCHANGED <<date, publication, notes, cursor, changes>>

\* The server is stopped or dies, and the cursor with it.
WorkerDies ==
    /\ Failure
    /\ passAt # "down"
    /\ passAt' = "down" /\ passNow' = 0 /\ left' = {} /\ cursor' = 0
    /\ page' = [p \in Publications |-> NoPublication]
    /\ UNCHANGED <<date, publication, notes, changes>>

-----------------------------------------------------------------------------

WorkerPasses ==
    \/ WorkerStarts \/ PassBegins \/ PassReads
    \/ \E p \in Publications : RemindersLapse(p) \/ NoteInserted(p)

InboxNext ==
    \/ DatePasses \/ Reads
    \/ \E p \in Publications : Changes(p)
    \/ WorkerPasses
    \/ \E p \in Publications : RecordFails(p)
    \/ PassFails \/ WorkerDies

InboxSpec == InboxInit /\ [][InboxNext]_inboxVars

-----------------------------------------------------------------------------
(* Properties *)

InboxTypeOK ==
    /\ date \in Nat /\ passNow \in Nat /\ cursor \in Nat
    /\ changes \in Nat /\ failures \in Nat
    /\ publication \in [Publications -> Records]
    /\ page \in [Publications -> Records]
    /\ reminder \in [Publications -> [Revisions -> [mark : Marks, says : 0..LastDate]]]
    /\ notice \in [Publications -> [Told -> Marks]]
    /\ passAt \in {"down", "idle", "list", "obsolete", "insert"}
    /\ left \in SUBSET Publications

\* The reminder of a schedule that stands is shown and names its time: a pass that works
\* from records read earlier never takes it from the owner, who would not get another one.
StandingReminderStands ==
    \A p \in Publications, v \in Revisions :
        /\ publication[p].status = "scheduled" /\ publication[p].rev = v
        /\ reminder[p][v].mark # "absent"
        => reminder[p][v].mark \in Shown /\ reminder[p][v].says = publication[p].at

Outstanding(p) ==
    \/ publication[p].status \in Told /\ notice[p][publication[p].status] = "absent"
    \/ \E v \in Revisions :
          /\ reminder[p][v].mark \in Shown
          /\ ~(publication[p].status = "scheduled" /\ publication[p].rev = v)

\* README: "older eligible jobs are eventually covered", "cancelled or superseded reminders
\* are excluded".  While the worker runs, whatever failed on the way and wherever its cursor
\* is, an owner is told how a publication ended and no outdated reminder stays.
InboxCatchesUp == \A p \in Publications : Outstanding(p) ~> ~Outstanding(p)

\* Why no reminder is taken away: what a pass has read can only be older than the record,
\* by its revision, and what the pass has still to do has no reminder that is newer than
\* what it has read.
PassInv ==
    \A p \in Publications :
        /\ page[p].status # "none" =>
              /\ page[p].rev <= publication[p].rev
              /\ publication[p].status = "scheduled" /\ publication[p].rev = page[p].rev
                   => page[p].status = "scheduled" /\ page[p].at = publication[p].at
        /\ \A v \in Revisions : reminder[p][v].mark # "absent" => v <= publication[p].rev
        /\ p \in left =>
              /\ page[p].status # "none"
              /\ \A v \in Revisions : reminder[p][v].mark # "absent" => v <= page[p].rev
=============================================================================
