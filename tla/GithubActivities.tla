--------------------------- MODULE GithubActivities ---------------------------
(***************************************************************************)
(* What is done with a connected GitHub account: synchronisation of the     *)
(* activities of its selected repositories, and the conversion of an        *)
(* activity into a Signal (services/github-connection.service.ts,           *)
(* github-sync-worker.ts), next to the connection itself                    *)
(* (AccountConnections).  A behaviour is of one service: "sync" of one      *)
(* owner, where the connection is written as AccountConnections and the     *)
(* selection write it; "conversion" of one activity; or one of the two of   *)
(* AccountConnections.  The conversion and the synchronisation write        *)
(* different fields of an activity.                                         *)
(*                                                                         *)
(* Commits and releases: GitHub lists them newest first by the time that    *)
(* is compared, and no two have the same.  Of the three kinds of activity of *)
(* a repository one is followed.                                            *)
(***************************************************************************)
EXTENDS AccountConnections

CONSTANTS
    Further,        \* \subseteq {"sync", "conversion"}
    Repos,
    Times,          \* when an activity may have occurred, a set of positive numbers
    PageSize,       \* 100
    MaxPages,       \* GITHUB_SYNC_MAX_PAGES_PER_PASS
    Passes,         \* calls of syncGithubActivities, by a user or a worker
    Writers,        \* selections, and callbacks that connect again
    Converters,     \* users who ask for the conversion, and ask again
    MaxFaults       \* bound on conversions that fail without cause

ASSUME ActivityAssumption ==
    /\ Further \subseteq {"sync", "conversion"}
    /\ Times \subseteq Nat \ {0} /\ IsFiniteSet(Times)
    /\ PageSize \in Nat \ {0} /\ MaxPages \in Nat \ {0} /\ MaxFaults \in Nat

VARIABLES
    link,           \* the owner's connection: status, generation, selected repositories
    writer,         \* who has read the connection and will write it
    sync,           \* sync.status, and whether nextEligibleAt is still to come
    progress,       \* sync.progress, of each repository
    listed,         \* what GitHub lists, of each repository
    stored,         \* the activities that are stored
    pass,           \* the running passes
    activity,       \* the activity to convert: its claim, and whether its Signal is marked
    signals,        \* how many Signals were made of it
    converter,      \* the conversions
    faults

syncing == <<link, writer, sync, progress, listed, stored, pass>>
converting == <<activity, signals, converter, faults>>
vars == <<service, linking, syncing, converting>>

Fresh == [cursor |-> 0, page |-> 1, complete |-> FALSE]
Kinds == {"commit", "release"}
AtRest == [at |-> "idle", kind |-> "commit", gen |-> 0, todo |-> {}, progress |-> [r \in Repos |-> Fresh],
           repo |-> None, since |-> 0, count |-> 0, page |-> {}, more |-> FALSE, expected |-> {}]

Init ==
    /\ LinkInit \/ (service \in Further /\ LinkIdle)
    /\ link = [status |-> "connected", gen |-> 1, repos |-> Repos]
    /\ writer = [w \in Writers |-> [at |-> "idle", gen |-> 0, repos |-> {}]]
    /\ sync = [status |-> "idle", limited |-> FALSE]
    /\ progress = [r \in Repos |-> Fresh]
    /\ listed = [r \in Repos |-> {}] /\ stored = {}
    /\ pass = [p \in Passes |-> AtRest]
    /\ activity = [claim |-> None, old |-> FALSE, marked |-> FALSE]
    /\ signals = 0 /\ converter = [c \in Converters |-> "idle"] /\ faults = 0

-----------------------------------------------------------------------------
(* The connection, as the other handlers write it.                          *)

\* saveGithubRepositorySelection reads a connected connection, a callback any.
WriterReads(w) ==
    /\ writer[w].at = "idle"
    /\ \/ link.status = "connected" /\ \E rs \in SUBSET Repos :
             writer' = [writer EXCEPT ![w] = [at |-> "select", gen |-> link.gen, repos |-> rs]]
       \/ writer' = [writer EXCEPT ![w] = [at |-> "connect", gen |-> link.gen, repos |-> link.repos]]
    /\ UNCHANGED <<link, sync, progress, listed, stored, pass>>

\* Both write over whatever the connection has become.
WriterWrites(w) ==
    /\ writer[w].at \in {"select", "connect"} /\ writer[w].gen < MaxGen
    /\ link' = [status |-> IF writer[w].at = "connect" THEN "connected" ELSE link.status,
                gen |-> writer[w].gen + 1, repos |-> writer[w].repos]
    /\ writer' = [writer EXCEPT ![w] = [at |-> "done", gen |-> 0, repos |-> {}]]
    /\ UNCHANGED <<sync, progress, listed, stored, pass>>

DisconnectGithub ==
    /\ link.gen < MaxGen
    /\ link' = [link EXCEPT !.status = "off", !.gen = @ + 1]
    /\ UNCHANGED <<writer, sync, progress, listed, stored, pass>>

\* An activity appears, not always as the newest: commits are pushed long after their date.
Appears ==
    /\ \E r \in Repos, t \in Times : listed' = [listed EXCEPT ![r] = @ \cup {t}]
    /\ UNCHANGED <<link, writer, sync, progress, stored, pass>>

-----------------------------------------------------------------------------
(* syncGithubActivities.                                                    *)

Moves(p, place) == pass' = [pass EXCEPT ![p].at = place]
PassEnds(p) == pass' = [pass EXCEPT ![p] = [AtRest EXCEPT !.at = "done"]]

\* The filter of claimGithubSync.
CanClaimSync == link.status = "connected" /\ sync.status # "syncing" /\ ~sync.limited

\* The connection is read and claimed: of the read, the claim repeats every condition.
Claim(p) ==
    /\ pass[p].at = "idle"
    /\ IF CanClaimSync
       THEN /\ sync' = [sync EXCEPT !.status = "syncing"]
            /\ \E kind \in Kinds :
                  pass' = [pass EXCEPT ![p] = [AtRest EXCEPT !.at = "repo", !.kind = kind, !.gen = link.gen,
                                                             !.todo = link.repos, !.progress = progress]]
       ELSE PassEnds(p) /\ UNCHANGED sync
    /\ UNCHANGED <<link, writer, progress, listed, stored>>

IsCurrent(p) == link.status = "connected" /\ link.gen = pass[p].gen

\* The next repository, if the connection is still the one that was claimed.  syncKind
\* starts at the first page, or at the one after the last pass's last page.
NextRepo(p) ==
    /\ pass[p].at = "repo" /\ pass[p].todo # {}
    /\ IF IsCurrent(p)
       THEN \E r \in pass[p].todo :
               LET last == pass[p].progress[r]
                   now == IF last.complete THEN [cursor |-> last.cursor, page |-> 1, complete |-> FALSE] ELSE last
               IN  pass' = [pass EXCEPT ![p] = [@ EXCEPT
                      !.at = "fetch", !.repo = r, !.since = last.cursor, !.count = 0, !.expected = {},
                      !.progress = [pass[p].progress EXCEPT ![r] = now], !.todo = pass[p].todo \ {r}]]
       ELSE Moves(p, "error")
    /\ UNCHANGED <<link, writer, sync, progress, listed, stored>>

\* What is after the cursor; `since' is a parameter of the request for commits only.
IsNew(p, t) == t > pass[p].since
Offered(p) == LET all == listed[pass[p].repo]
              IN  IF pass[p].kind = "commit" THEN {t \in all : t >= pass[p].since} ELSE all

\* Newest first, what comes before t, and t.
UpTo(p, t) == {u \in Offered(p) : u >= t}

\* One page of them, and whether a further one follows.
Page(p, n) ==
    [items |-> {t \in Offered(p) : /\ (n - 1) * PageSize < Cardinality(UpTo(p, t))
                                  /\ Cardinality(UpTo(p, t)) <= n * PageSize},
     more |-> n * PageSize < Cardinality(Offered(p))]

\* GitHub answers.  What the pass has to bring is what it listed at the first page.
Fetch(p) ==
    /\ pass[p].at = "fetch"
    /\ LET r == pass[p].repo
           n == pass[p].progress[r].page
           page == Page(p, n)
       IN  pass' = [pass EXCEPT ![p] = [@ EXCEPT !.at = "check", !.page = page.items, !.more = page.more,
                       !.expected = IF n = 1 THEN {t \in listed[r] : IsNew(p, t)} ELSE pass[p].expected]]
    /\ UNCHANGED <<link, writer, sync, progress, listed, stored>>

\* The connection is read again before anything of the page is stored.
Check(p) ==
    /\ pass[p].at = "check"
    /\ Moves(p, IF IsCurrent(p) THEN "store" ELSE "error")
    /\ UNCHANGED <<link, writer, sync, progress, listed, stored>>

\* The activities of the page are inserted, unless they are there.
Store(p) ==
    /\ pass[p].at = "store"
    /\ stored' = stored \cup {<<pass[p].repo, t>> : t \in {u \in pass[p].page : IsNew(p, u)}}
    /\ Moves(p, "advance")
    /\ UNCHANGED <<link, writer, sync, progress, listed>>

\* Mutant: the next page starts from the cursor the last one has moved.
NextSince_Cursor(p, cursor) == cursor

NextSince(p, cursor) == pass[p].since

\* Mutant: two pages are counted where one was read.
NextPage_Skips(p) == pass[p].progress[pass[p].repo].page + 2

NextPage(p) == pass[p].progress[pass[p].repo].page + 1

\* The progress of the repository is written, for all repositories the pass knows of.
Advance(p) ==
    /\ pass[p].at = "advance"
    /\ LET r == pass[p].repo
           moved == pass[p].page \cup {pass[p].progress[r].cursor}
           count == pass[p].count + 1
       IN  \E newest \in moved :
              LET now == [cursor |-> newest, page |-> IF pass[p].more THEN NextPage(p) ELSE 1,
                          complete |-> ~pass[p].more]
              IN  /\ \A u \in moved : u <= newest
                  /\ progress' = [pass[p].progress EXCEPT ![r] = now]
                  /\ pass' = [pass EXCEPT ![p] = [@ EXCEPT
                        !.progress = [pass[p].progress EXCEPT ![r] = now], !.count = count, !.page = {},
                        !.since = NextSince(p, newest),
                        !.at = IF count < MaxPages /\ pass[p].more THEN "fetch" ELSE "repo"]]
    /\ UNCHANGED <<link, writer, sync, listed, stored>>

\* A call throws: GitHub's limit is reached, or anything else has happened.
Throws(p) ==
    /\ pass[p].at \notin {"idle", "done", "error", "limit"}
    /\ Moves(p, "limit") \/ Moves(p, "error")
    /\ UNCHANGED <<link, writer, sync, progress, listed, stored>>

\* The last write: the pass has succeeded, was limited, or has failed.
Finish(p) ==
    /\ pass[p].at \in {"limit", "error"} \/ (pass[p].at = "repo" /\ pass[p].todo = {})
    /\ sync' = CASE pass[p].at = "repo"  -> [status |-> "idle", limited |-> FALSE]
                 [] pass[p].at = "limit" -> [status |-> "idle", limited |-> TRUE]
                 [] pass[p].at = "error" -> [sync EXCEPT !.status = "error"]
    /\ PassEnds(p)
    /\ UNCHANGED <<link, writer, progress, listed, stored>>

\* The process dies; nothing will ever end the status syncing.
PassDies(p) ==
    /\ pass[p].at \notin {"idle", "done"}
    /\ PassEnds(p)
    /\ UNCHANGED <<link, writer, sync, progress, listed, stored>>

\* nextEligibleAt is reached; the worker's next interval, or a user, starts again.
Later ==
    /\ \/ sync.limited /\ sync' = [sync EXCEPT !.limited = FALSE] /\ UNCHANGED pass
       \/ \E p \in Passes : pass[p].at = "done" /\ pass' = [pass EXCEPT ![p] = AtRest] /\ UNCHANGED sync
    /\ UNCHANGED <<link, writer, progress, listed, stored>>

SyncNext ==
    \/ DisconnectGithub \/ Appears \/ Later
    \/ \E w \in Writers : WriterReads(w) \/ WriterWrites(w)
    \/ \E p \in Passes : \/ Claim(p) \/ NextRepo(p) \/ Fetch(p) \/ Check(p) \/ Store(p) \/ Advance(p)
                         \/ Throws(p) \/ Finish(p) \/ PassDies(p)

-----------------------------------------------------------------------------
(* convertGithubActivity.                                                   *)

Goes(c, place) == converter' = [converter EXCEPT ![c] = place]

\* The activity is listed, and answered with if it is marked; the Signal is looked for.
ConvertRead(c) ==
    /\ converter[c] = "idle"
    /\ Goes(c, IF activity.marked THEN "answered" ELSE "find")
    /\ UNCHANGED <<activity, signals, faults>>

ConvertFind(c) ==
    /\ converter[c] = "find"
    /\ Goes(c, IF signals > 0 THEN "mark" ELSE "claim")
    /\ UNCHANGED <<activity, signals, faults>>

\* Mutant: a claim is for ever.
CanClaimActivity_Free == ~activity.marked /\ activity.claim = None

\* The filter of claimGithubActivityConversion: nobody's claim, or one of five minutes ago.
CanClaimActivity == ~activity.marked /\ (activity.claim = None \/ activity.old)

ConvertClaim(c) ==
    /\ converter[c] = "claim"
    /\ IF CanClaimActivity
       THEN activity' = [activity EXCEPT !.claim = c, !.old = FALSE] /\ Goes(c, "make")
       ELSE Goes(c, "recover") /\ UNCHANGED activity
    /\ UNCHANGED <<signals, faults>>

\* Mutant: no unique index on what a Signal was planned from.
CanMake_Any == TRUE

CanMake == signals = 0

\* The Signal is made, or its answer is lost, or the unique index refuses it.
ConvertMake(c) ==
    /\ converter[c] = "make"
    /\ IF CanMake THEN /\ signals' = signals + 1
                       /\ Goes(c, "mark") \/ Goes(c, "recover")
                  ELSE Goes(c, "recover") /\ UNCHANGED signals
    /\ UNCHANGED <<activity, faults>>

\* After a lost claim and in the catch block: a Signal that is there is the answer.
ConvertRecover(c) ==
    /\ converter[c] = "recover"
    /\ Goes(c, IF signals > 0 THEN "mark" ELSE "refused")
    /\ UNCHANGED <<activity, signals, faults>>

ConvertMark(c) ==
    /\ converter[c] = "mark"
    /\ activity' = IF activity.marked THEN activity ELSE [claim |-> None, old |-> FALSE, marked |-> TRUE]
    /\ Goes(c, "answered")
    /\ UNCHANGED <<signals, faults>>

\* A call throws, which the catch block sees if it was the insert, or the process dies.
ConvertBreaks(c) ==
    /\ converter[c] \in {"find", "claim", "make", "recover", "mark"} /\ faults < MaxFaults
    /\ Goes(c, "refused") \/ (converter[c] = "make" /\ Goes(c, "recover"))
    /\ faults' = faults + 1
    /\ UNCHANGED <<activity, signals>>

AsksAgain(c) == converter[c] = "refused" /\ Goes(c, "idle") /\ UNCHANGED <<activity, signals, faults>>

ClaimGrowsOld ==
    /\ activity.claim # None /\ ~activity.old /\ activity' = [activity EXCEPT !.old = TRUE]
    /\ UNCHANGED <<signals, converter, faults>>

ConvertStep(c) ==
    \/ ConvertRead(c) \/ ConvertFind(c) \/ ConvertClaim(c) \/ ConvertMake(c) \/ ConvertRecover(c)
    \/ ConvertMark(c) \/ AsksAgain(c)

ConversionNext == ClaimGrowsOld \/ \E c \in Converters : ConvertStep(c) \/ ConvertBreaks(c)

-----------------------------------------------------------------------------

Next ==
    /\ UNCHANGED service
    /\ \/ service \in Services /\ LinkNext /\ UNCHANGED <<syncing, converting>>
       \/ service = "sync" /\ SyncNext /\ UNCHANGED <<linking, converting>>
       \/ service = "conversion" /\ ConversionNext /\ UNCHANGED <<linking, syncing>>

Spec == Init /\ [][Next]_vars

\* Conversions go on, users who were refused ask again, and time passes.
Converting(A) == service = "conversion" /\ A /\ UNCHANGED <<service, linking, syncing>>
FairSpec ==
    /\ Spec
    /\ \A c \in Converters : WF_vars(Converting(ConvertStep(c)))
    /\ WF_vars(Converting(ClaimGrowsOld))

-----------------------------------------------------------------------------
(* Properties *)

TypeOK ==
    /\ service \in Services \cup Further
    /\ link \in [status : {"connected", "off"}, gen : 0..MaxGen, repos : SUBSET Repos]
    /\ sync \in [status : {"idle", "syncing", "error"}, limited : BOOLEAN]
    /\ progress \in [Repos -> [cursor : Times \cup {0}, page : Nat, complete : BOOLEAN]]
    /\ stored \in SUBSET (Repos \X Times)
    /\ activity \in [claim : Converters \cup {None}, old : BOOLEAN, marked : BOOLEAN]
    /\ signals \in 0..1

\* A pass that began with a first page and has read the last one has stored everything
\* GitHub listed at the first and that is newer than its cursor: pages that shift while
\* activities appear leave nothing out, and the cursor that moves with each page does not
\* cut off the next.
PassIsComplete ==
    \A p \in Passes :
        pass[p].at = "advance" /\ ~pass[p].more =>
            \A t \in pass[p].expected : <<pass[p].repo, t>> \in stored

\* README: "repeated or concurrent conversion returns the existing Signal".  There is at
\* most one, and an activity is marked, or a conversion answered, only if there is.
OneSignal ==
    /\ signals <= 1
    /\ activity.marked \/ (\E c \in Converters : converter[c] = "answered") => signals = 1

\* ... "or a recoverable conflict": who asks again after a refusal is answered at last,
\* although the one who had the claim may have died with it.
ConversionRecovers ==
    \A c \in Converters : service = "conversion" /\ converter[c] = "refused" ~> converter[c] = "answered"
=============================================================================
