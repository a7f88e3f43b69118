----------------------------- MODULE ScheduleTime -----------------------------
(***************************************************************************)
(* resolveLocalDateTime (services/linkedin-publication.service.ts): the    *)
(* instant at which the clocks of a zone show a local date and time.  The  *)
(* code tries every offset a zone may have.                                *)
(*                                                                         *)
(* Instants and local times are integers of one unit (a minute in the      *)
(* code); a local time is written as the instant it would be in UTC.       *)
(***************************************************************************)
EXTENDS Integers

CONSTANTS
    Zones,          \* the IANA zones
    OffsetAt(_, _), \* a zone's offset from UTC at an instant
    Values,         \* the local times asked for
    Instants,       \* the instants around them
    MaxOffset       \* 14 * 60

Offsets == -MaxOffset..MaxOffset

ASSUME ZoneAssumption ==
    /\ MaxOffset \in Nat
    /\ Values \subseteq Int /\ Instants \subseteq Int
    /\ \A z \in Zones, t \in Instants : OffsetAt(z, t) \in Offsets
    /\ \A v \in Values, o \in Offsets : v - o \in Instants

VARIABLES
    zone, value, choice,    \* a scheduling request's timezone, localDateTime, disambiguation
    answer, instant            \* "resolved" or an error code; the instant it was resolved to

asked == <<zone, value, choice>>
timeVars == <<asked, answer, instant>>

TimeInit ==
    /\ zone \in Zones /\ value \in Values
    /\ choice \in {"earlier", "later", "undefined"}
    /\ answer = "none" /\ instant = 0

-----------------------------------------------------------------------------
\* localKey: what the clocks of zone z show at instant t.
LocalKey(z, t) == t + OffsetAt(z, t)

\* Mutant: the loop stops before the largest offset.
CandidatesBelow(z, v) ==
    {v - o : o \in {o \in Offsets \ {MaxOffset} : LocalKey(z, v - o) = v}}

\* The loop over the offsets.
Candidates(z, v) == {v - o : o \in {o \in Offsets : LocalKey(z, v - o) = v}}

\* The list is built by increasing offset: its first element is the latest instant.
FirstCandidate(S) == CHOOSE t \in S : \A u \in S : u <= t
LastCandidate(S) == CHOOSE t \in S : \A u \in S : t <= u

\* A time that occurs more than once needs a choice.
MustAsk(S, c) == c = "undefined" /\ \E t, u \in S : t # u

Resolve ==
    /\ answer = "none"
    /\ LET found == Candidates(zone, value)
       IN  \/ /\ found = {}
              /\ answer' = "NONEXISTENT_LOCAL_TIME" /\ UNCHANGED instant
           \/ /\ found # {} /\ MustAsk(found, choice)
              /\ answer' = "AMBIGUOUS_LOCAL_TIME" /\ UNCHANGED instant
           \/ /\ found # {} /\ ~MustAsk(found, choice)
              /\ answer' = "resolved"
              /\ instant' = IF choice = "later" THEN LastCandidate(found) ELSE FirstCandidate(found)
    /\ UNCHANGED asked

TimeSpec == TimeInit /\ [][Resolve]_timeVars
-----------------------------------------------------------------------------
(* Properties.                                                             *)

\* The instants at which the clocks of zone z show v, by definition.
Showing(z, v) == {t \in Instants : LocalKey(z, t) = v}

\* A local time is refused as nonexistent only if no clock ever shows it, and what is
\* stored as scheduledAt is an instant at which the user's clock shows what was asked for,
\* also at the ends of the range of offsets and on both sides of a transition.
ShowsWhatWasAsked ==
    /\ answer = "NONEXISTENT_LOCAL_TIME" => Showing(zone, value) = {}
    /\ answer = "resolved" => instant \in Showing(zone, value)

\* README: "Repeated local times require an earlier/later choice": such a time is refused
\* exactly if the user has not chosen, wherever the transition lies.
RepeatedNeedsChoice ==
    answer # "none" =>
        (answer = "AMBIGUOUS_LOCAL_TIME"
           <=> choice = "undefined" /\ \E t, u \in Showing(zone, value) : t # u)
=============================================================================
