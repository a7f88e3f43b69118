--------------------------- MODULE KnowledgeIndexing ---------------------------
(***************************************************************************)
(* The indexing of one knowledge source and what a search makes of it:      *)
(* services/knowledge-source-indexing.service.ts, the writes of             *)
(* repositories/knowledge-source.repository.ts, the AI service's            *)
(* services/source_indexing.py and repositories/qdrant_repository.py, and   *)
(* services/knowledge-source-retrieval.service.ts.                          *)
(*                                                                         *)
(* An attempt is one call of indexKnowledgeSourceForUser; its job is the    *)
(* AI service's work for it, which goes on when the attempt has given up.   *)
(* A version stands for the text it has, a batch for the at most 64 points  *)
(* of one upsert; a point is named by its version and batch, so a batch     *)
(* written twice is there once.  Each embedding model has its own           *)
(* collection.  Of the usage ledger there is the operation of each version  *)
(* and day.                                                                 *)
(***************************************************************************)
EXTENDS Integers

CONSTANTS
    Attempts,       \* calls of indexKnowledgeSourceForUser; each may be made again
    Nobody,         \* no attempt
    Batches,        \* batches 1..Batches of one version's points
    MaxVer,         \* bound on the versions of the source
    MaxModel,       \* models 1..MaxModel, the deployed one only ever changes to the next
    MaxDay,         \* bound on the days of the usage ledger
    MaxTurns,       \* bound on deployments and days together
    MaxFaults       \* bound on deaths, lost answers and attempts that outlive their lease

ASSUME IndexingAssumption ==
    /\ Nobody \notin Attempts
    /\ Batches \in Nat \ {0} /\ MaxVer \in Nat \ {0} /\ MaxModel \in Nat \ {0}
    /\ MaxDay \in Nat \ {0} /\ MaxTurns \in Nat /\ MaxFaults \in Nat

VARIABLES
    there, ver, status, attempt, lease, indexed,    \* the source
    points,         \* of each model and version, the batches in the collection
    op,             \* the usage operation of each version and day: free when there is none or
                    \* it was released, settled when it is completed or uncertain
    at,             \* where each attempt is
    claimed,        \* the version it has claimed, or 0
    on,             \* the day of its usage operation, or 0
    keep,           \* whether it keeps the lease when it fails
    jobFor, done,   \* the version its job is for, or 0, and the batches written
    model, day, faults

source == <<there, ver, status, attempt, lease, indexed>>
attempts == <<at, claimed, on, keep>>
jobs == <<jobFor, done>>
vars == <<source, points, op, attempts, jobs, model, day, faults>>

Versions == 1..MaxVer
ModelIds == 1..MaxModel
Days == 1..MaxDay
Places == {"idle", "admit", "call", "finalize", "complete", "record"}
NotIndexed == [ver |-> 0, model |-> 0]              \* the indexed fields are null

SourceOK ==
    /\ there \in BOOLEAN /\ ver \in Versions
    /\ status \in {"pending", "indexing", "indexed", "failed"}
    /\ attempt \in Attempts \cup {Nobody} /\ lease \in {"none", "live", "over"}
    /\ indexed \in [ver : 0..MaxVer, model : 0..MaxModel]

WorkOK ==
    /\ at \in [Attempts -> Places]
    /\ claimed \in [Attempts -> 0..MaxVer] /\ on \in [Attempts -> 0..MaxDay]
    /\ keep \in [Attempts -> BOOLEAN]
    /\ jobFor \in [Attempts -> 0..MaxVer] /\ done \in [Attempts -> 0..Batches]

PointsOK == points \in [ModelIds -> [Versions -> SUBSET (1..Batches)]]
OpOK == op \in [Versions \X Days -> {"free", "dispatched", "settled"}]
WorldOK == model \in ModelIds /\ day \in Days /\ faults \in 0..MaxFaults

TypeOK == SourceOK /\ WorkOK /\ PointsOK /\ OpOK /\ WorldOK

Init ==
    /\ there = TRUE /\ ver = 1 /\ status = "pending" /\ attempt = Nobody /\ lease = "none"
    /\ indexed = NotIndexed
    /\ points = [m \in ModelIds |-> [v \in Versions |-> {}]]
    /\ op = [k \in Versions \X Days |-> "free"]
    /\ at = [a \in Attempts |-> "idle"] /\ claimed = [a \in Attempts |-> 0]
    /\ on = [a \in Attempts |-> 0] /\ keep = [a \in Attempts |-> FALSE]
    /\ jobFor = [a \in Attempts |-> 0] /\ done = [a \in Attempts |-> 0]
    /\ model = 1 /\ day = 1 /\ faults = 0

Fault == faults < MaxFaults /\ faults' = faults + 1
Goes(a, place) == at' = [at EXCEPT ![a] = place]
Key(a) == <<claimed[a], on[a]>>
Running(a) == jobFor[a] # 0 /\ done[a] < Batches

\* The attempt ends; its job goes on if it is running.
Ends(a) ==
    /\ Goes(a, "idle") /\ claimed' = [claimed EXCEPT ![a] = 0] /\ on' = [on EXCEPT ![a] = 0]
    /\ keep' = [keep EXCEPT ![a] = FALSE]
    /\ IF Running(a) THEN UNCHANGED jobs
       ELSE jobFor' = [jobFor EXCEPT ![a] = 0] /\ done' = [done EXCEPT ![a] = 0]

-----------------------------------------------------------------------------
(* The owner, the clock and the deployment.                                *)

\* indexingLeaseExpiresAt is null or past: the source may be edited, deleted or claimed.
Available == lease # "live"

\* An edit, or a refresh from GitHub, that changes the title or the text.
Edit ==
    /\ there /\ Available /\ ver < MaxVer
    /\ ver' = ver + 1 /\ status' = "pending" /\ attempt' = Nobody /\ lease' = "none"
    /\ indexed' = NotIndexed
    /\ UNCHANGED <<there, points, op, attempts, jobs, model, day, faults>>

\* The points of a source are never deleted, neither here nor when it is edited.
Delete ==
    /\ there /\ Available
    /\ there' = FALSE /\ status' = "pending" /\ attempt' = Nobody /\ lease' = "none"
    /\ indexed' = NotIndexed
    /\ UNCHANGED <<ver, points, op, attempts, jobs, model, day, faults>>

\* The lease is 30 seconds longer than the AI client waits: that it ends on an attempt still
\* under way is a fault.
LeaseRunsOut ==
    /\ lease = "live" /\ lease' = "over"
    /\ IF \E a \in Attempts : a = attempt /\ at[a] # "idle" /\ status = "indexing"
       THEN Fault ELSE UNCHANGED faults
    /\ UNCHANGED <<there, ver, status, attempt, indexed, points, op, attempts, jobs, model, day>>

NextDay ==
    /\ day < MaxDay /\ day + model - 2 < MaxTurns /\ day' = day + 1
    /\ UNCHANGED <<source, points, op, attempts, jobs, model, faults>>

\* Another model and its collection are deployed: both services start anew.
Deploy ==
    /\ model < MaxModel /\ day + model - 2 < MaxTurns /\ model' = model + 1
    /\ at' = [a \in Attempts |-> "idle"] /\ claimed' = [a \in Attempts |-> 0]
    /\ on' = [a \in Attempts |-> 0] /\ keep' = [a \in Attempts |-> FALSE]
    /\ jobFor' = [a \in Attempts |-> 0] /\ done' = [a \in Attempts |-> 0]
    /\ UNCHANGED <<source, points, op, day, faults>>

-----------------------------------------------------------------------------
(* indexKnowledgeSourceForUser.                                            *)

\* Mutant: an indexing whose lease is over is not taken over.
ClaimableOnce == there /\ Available /\ (status \in {"pending", "failed"} \/ indexed.model # model)
                       /\ status # "indexing"

\* claimKnowledgeSourceIndexing, its filter.
Claimable ==
    /\ there
    /\ \/ status \in {"pending", "failed"} /\ Available
       \/ status = "indexing" /\ lease = "over"
       \/ status = "indexed" /\ indexed.model # model /\ Available

\* What is read first, that the version is indexed or an indexing under way, only refuses
\* sooner what the filter refuses too; the filter names the version that was read, so the one
\* that is claimed, with its text, is the one there is.
Claim(a) ==
    /\ at[a] = "idle" /\ ~Running(a)
    /\ Claimable
    /\ status' = "indexing" /\ attempt' = a /\ lease' = "live"
    /\ Goes(a, "admit") /\ claimed' = [claimed EXCEPT ![a] = ver]
    /\ UNCHANGED <<there, ver, indexed, points, op, on, keep, jobs, model, day, faults>>

\* Mutant: only a settled operation is a duplicate.
AdmitsUnfinished(key) == op[key] # "settled"

\* An operation of this version and day that was not released is a duplicate, whatever became
\* of it.
Admits(key) == op[key] = "free"

\* Admission and dispatch; the dispatch may be recorded and its answer lost.  The operation is
\* refused as a duplicate or for the quota.
Admit(a) ==
    /\ at[a] = "admit"
    /\ LET key == <<claimed[a], day>>
       IN \/ /\ Admits(key)
             /\ op' = [op EXCEPT ![key] = "dispatched"]
             /\ \/ /\ Goes(a, "call") /\ on' = [on EXCEPT ![a] = day]
                   /\ jobFor' = [jobFor EXCEPT ![a] = claimed[a]]
                   /\ done' = [done EXCEPT ![a] = 0]
                   /\ UNCHANGED faults
                \/ Goes(a, "record") /\ UNCHANGED <<on, jobs>> /\ Fault
          \/ Goes(a, "record") /\ UNCHANGED <<op, on, jobs, faults>>
    /\ UNCHANGED <<source, points, claimed, keep, model, day>>

Settle(a, to) == op' = IF op[Key(a)] = "dispatched" THEN [op EXCEPT ![Key(a)] = to] ELSE op

\* index returns when every batch is written.
Answered(a) == jobFor[a] # 0 /\ done[a] = Batches

\* The answer; or none in time, or none at all: the lease is kept, as the job may be running;
\* or an error of the job or an answer that is not valid.  The operation's outcome is unknown
\* (502, 504) or the operation is released.
Call(a) ==
    /\ at[a] = "call"
    /\ \/ Answered(a) /\ Goes(a, "finalize") /\ UNCHANGED <<op, keep>>
       \/ /\ \E to \in {"settled", "free"} : Settle(a, to)
          /\ Goes(a, "record")
          /\ \/ keep' = [keep EXCEPT ![a] = TRUE]
             \/ ~Running(a) /\ UNCHANGED keep
    /\ UNCHANGED <<source, points, claimed, on, jobs, model, day, faults>>

\* finalizeKnowledgeSourceIndexing, its filter.
Held(a) == there /\ ver = claimed[a] /\ status = "indexing" /\ attempt = a

\* The index is recorded, then the operation completed; or the write is rejected.
Finalize(a) ==
    /\ at[a] = "finalize"
    /\ \/ /\ IF Held(a)
             THEN /\ status' = "indexed" /\ attempt' = Nobody /\ lease' = "none"
                  /\ indexed' = [ver |-> claimed[a], model |-> model]
                  /\ UNCHANGED <<there, ver>>
             ELSE UNCHANGED source
          /\ Goes(a, "complete") /\ UNCHANGED <<op, faults>>
       \/ Fault /\ Settle(a, "free") /\ Goes(a, "record") /\ UNCHANGED source
    /\ UNCHANGED <<points, claimed, on, keep, jobs, model, day>>

\* When the index was not recorded the attempt fails as stale; to record that finds nothing.
Complete(a) ==
    /\ at[a] = "complete"
    /\ \/ Settle(a, "settled") /\ UNCHANGED faults
       \/ Fault /\ Settle(a, "free")
    /\ Goes(a, "record")
    /\ UNCHANGED <<source, points, claimed, on, keep, jobs, model, day>>

\* The catch's last write: failed, with the lease kept when the job may still be running.
Record(a) ==
    /\ at[a] = "record"
    /\ IF Held(a)
       THEN /\ status' = "failed"
            /\ IF keep[a] THEN UNCHANGED <<attempt, lease>> ELSE attempt' = Nobody /\ lease' = "none"
            /\ UNCHANGED <<there, ver, indexed>>
       ELSE UNCHANGED source
    /\ Ends(a)
    /\ UNCHANGED <<points, op, model, day, faults>>

\* The process dies, or a write of the catch is rejected.
Dies(a) ==
    /\ at[a] # "idle" /\ Fault
    /\ Ends(a)
    /\ UNCHANGED <<source, points, op, model, day>>

\* SourceIndexingService.index: one more batch is written, or the job ends in an error.
JobStep(a) ==
    /\ Running(a)
    /\ \/ /\ points' = [points EXCEPT ![model][jobFor[a]] = @ \cup {done[a] + 1}]
          /\ IF at[a] = "idle" /\ done[a] + 1 = Batches
             THEN jobFor' = [jobFor EXCEPT ![a] = 0] /\ done' = [done EXCEPT ![a] = 0]
             ELSE done' = [done EXCEPT ![a] = @ + 1] /\ UNCHANGED jobFor
       \/ /\ jobFor' = [jobFor EXCEPT ![a] = 0] /\ done' = [done EXCEPT ![a] = 0]
          /\ UNCHANGED points
    /\ UNCHANGED <<source, op, attempts, model, day, faults>>

-----------------------------------------------------------------------------
(* searchKnowledgeSourcesForUser.  The candidates are found first and the     *)
(* source is read then; as points are only ever added, what was found is    *)
(* still there when the source is read, and a search is what it would       *)
(* answer now.                                                              *)

\* Mutant: only the version of the text is compared.
CompatibleText(v, m) == there /\ ver = v

\* isCompatibleIndexedSource, for a candidate's version and model.
Compatible(v, m) ==
    there /\ status = "indexed" /\ ver = v /\ indexed = [ver |-> v, model |-> m]

\* Points of any version may be among the candidates: the search filters by owner alone.
Candidates == {v \in Versions : points[model][v] # {}}
Answers == {v \in Candidates : Compatible(v, model)}

-----------------------------------------------------------------------------
Work(a) == Claim(a) \/ Admit(a) \/ Call(a) \/ Finalize(a) \/ Complete(a) \/ Record(a)

Next ==
    \/ Edit \/ Delete \/ LeaseRunsOut \/ NextDay \/ Deploy
    \/ \E a \in Attempts : Work(a) \/ Dies(a) \/ JobStep(a)

Spec == Init /\ [][Next]_vars

-----------------------------------------------------------------------------
(* Properties.                                                              *)

Whole(m, v) == points[m][v] = 1..Batches

\* A source that says it is indexed is so at the version it has, and every point of that
\* version is in the collection of the model it names, whatever late attempts and jobs do.
IndexedIsComplete ==
    there /\ status = "indexed" => indexed.ver = ver /\ Whole(indexed.model, ver)

\* A search answers with nothing of a version half written, or of one that is not the
\* source's: the points of earlier versions, failed jobs and deleted sources stay in the
\* collection, and other points are written while it runs.
NothingHalfIndexed == \A v \in Answers : v = ver /\ Whole(model, v)

\* Both: what says it is indexed is, and a search answers with nothing else, though nothing
\* ever removes the points that attempts and jobs leave behind.
IndexIsWhole == IndexedIsComplete /\ NothingHalfIndexed

\* Two attempts never wait at once for the AI service to index one version on one day, though
\* the lease may run out under the first.
InFlightOnce ==
    \A a, b \in Attempts :
        a # b /\ at[a] = "call" /\ at[b] = "call" => Key(a) # Key(b)

\* For an owner who asks again, an indexing does not go on for ever.
IndexingEnds == (there /\ status = "indexing") ~> ~(there /\ status = "indexing")
=============================================================================
