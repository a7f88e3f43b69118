----------------------------- MODULE SourceIntake -----------------------------
(***************************************************************************)
(* How the text of a knowledge source comes from elsewhere and is replaced: *)
(* imports and refreshes of a GitHub file (services/github-import.service.ts) *)
(* and exports of a section of the professional profile                     *)
(* (services/professional-profile.service.ts), next to the owner's edits    *)
(* (services/knowledge-source.service.ts).                                  *)
(*                                                                         *)
(* A behaviour is of one origin: a file of a GitHub repository, or a         *)
(* section of the profile.  Upstream is the sequence of what the file, or   *)
(* the section, has been; a commit, and a profile's revision, is a place in *)
(* it.  A text is its body and whether blanks surround it; a hash is the    *)
(* text it is of, and titles are left out.                                  *)
(***************************************************************************)
EXTENDS Naturals, Sequences

CONSTANTS
    Origins,        \* \subseteq {"github", "profile"}
    Bodies, NoBody,
    Ragged,         \* bodies that may come with blanks around them
    Notes, NoNote,
    Requests,       \* an owner's requests, each made again and again
    MaxEdits,       \* bound on contentVersion
    MaxRev          \* bound on the commits, or the profile's revisions

ASSUME IntakeAssumption ==
    /\ Origins \subseteq {"github", "profile"}
    /\ NoBody \notin Bodies /\ Ragged \subseteq Bodies /\ NoNote \notin Notes
    /\ MaxEdits \in Nat \ {0} /\ MaxRev \in Nat \ {0}

VARIABLES
    origin, upstream,
    note,           \* the sources: text, contentVersion, hash of what was imported; base is
                    \* the text a request last stored
    request         \* the requests, with what the owner was shown and what the handler keeps

intake == <<origin, upstream, note, request>>

Texts == [body : Bodies, tail : {FALSE}] \cup [body : Ragged, tail : {TRUE}]
Gone == [body |-> NoBody, tail |-> FALSE]           \* the file disappeared
NoText == Gone
Latest == Len(upstream)
Existing == {n \in Notes : note[n].is = "there"}
Trimmed(t) == [t EXCEPT !.tail = FALSE]

NoSource == [is |-> "none", text |-> NoText, ver |-> 0, hash |-> NoText, base |-> NoText]
NoRequest == [at |-> "idle", verb |-> "import", rev |-> 0, id |-> NoNote, ver |-> 0, saw |-> NoText,
              ack |-> FALSE, incoming |-> 0, text |-> NoText, hash |-> NoText]

IntakeOK ==
    /\ origin \in Origins /\ upstream \in Seq(Texts \cup {Gone}) /\ Latest <= MaxRev
    /\ note \in [Notes -> [is : {"none", "there", "gone"}, text : Texts \cup {NoText}, ver : 0..MaxEdits,
                           hash : Texts \cup {NoText}, base : Texts \cup {NoText}]]
    /\ request \in [Requests -> [at : {"idle", "shown", "head", "find", "create", "write"},
                                 verb : {"import", "refresh", "export"}, rev : 0..MaxRev,
                                 id : Notes \cup {NoNote}, ver : 0..MaxEdits, saw : Texts \cup {NoText},
                                 ack : BOOLEAN, incoming : 0..MaxRev, text : Texts \cup {NoText},
                                 hash : Texts \cup {NoText}]]

IntakeIdle ==
    /\ upstream = <<>>
    /\ note = [n \in Notes |-> NoSource]
    /\ request = [r \in Requests |-> NoRequest]

\* A file is there before its repository is looked at, and a profile is not.
IntakeInit ==
    \/ origin \in Origins \ {"github"} /\ IntakeIdle
    \/ /\ origin \in Origins \cap {"github"}
       /\ \E t \in Texts : upstream = <<t>>
       /\ note = [n \in Notes |-> NoSource] /\ request = [r \in Requests |-> NoRequest]

-----------------------------------------------------------------------------
(* The world and the owner's other requests.                                *)

\* A commit changes the file or removes it; a save gives the profile its next revision,
\* the first one as an upsert, and one with another expectedRevision is refused.
Changes ==
    /\ Latest < MaxRev
    /\ \E t \in IF origin = "github" THEN Texts \cup {Gone} ELSE Texts : upstream' = Append(upstream, t)
    /\ UNCHANGED <<origin, note, request>>

\* updateKnowledgeSourceForUser with another text, at the version the owner has read.
EditSource(n) ==
    /\ note[n].is = "there" /\ note[n].ver < MaxEdits
    /\ \E t \in {Trimmed(u) : u \in Texts} :
          /\ t # note[n].text
          /\ note' = [note EXCEPT ![n].text = t, ![n].ver = @ + 1]
    /\ UNCHANGED <<origin, upstream, request>>

\* deleteKnowledgeSourceForUser.
DeleteSource(n) ==
    /\ note[n].is = "there"
    /\ note' = [note EXCEPT ![n] = [NoSource EXCEPT !.is = "gone"]]
    /\ UNCHANGED <<origin, upstream, request>>

-----------------------------------------------------------------------------
Turns(r, place) == request' = [request EXCEPT ![r].at = place]
Finishes(r) == request' = [request EXCEPT ![r] = NoRequest]

\* The preview expires, a call throws, the process dies, or the owner turns to something else.
GivesUp(r) ==
    /\ request[r].at # "idle"
    /\ Finishes(r)
    /\ UNCHANGED <<origin, upstream, note>>

\* Mutant: the file is read from the branch.
TextOf_Head(r) == upstream[Latest]

\* The text of the commit that the preview pinned, or of the revision that was read.
TextOf(r) == upstream[request[r].incoming]

\* A source is created: mongoose trims its content, and the hash is of what was not trimmed.
Create(r) ==
    /\ request[r].at = "create"
    /\ \E n \in Notes :
          /\ note[n].is = "none"
          /\ LET t == TextOf(r)
             IN  note' = [note EXCEPT ![n] = [is |-> "there", text |-> Trimmed(t), ver |-> 1, hash |-> t,
                                              base |-> Trimmed(t)]]
    /\ Finishes(r)
    /\ UNCHANGED <<origin, upstream>>

\* Mutant: the version is not compared.
CanReplace_Any(r) == note[request[r].id].is = "there"

\* The filter of both conditional updates; that the source is not being indexed is a choice.
CanReplace(r) == note[request[r].id].is = "there" /\ note[request[r].id].ver = request[r].ver

\* Mutant: nothing needs an acknowledgment.
NeedsAcknowledgment_Never(text, hash) == FALSE

NeedsAcknowledgment(text, hash) == text # hash

-----------------------------------------------------------------------------
(* A GitHub file.                                                           *)

\* previewGithubRepository pins the branch's commit; the owner reads the file at it.
PreviewRepository(r) ==
    /\ origin = "github" /\ request[r].at = "idle" /\ upstream[Latest] # Gone
    /\ request' = [request EXCEPT ![r] = [NoRequest EXCEPT !.at = "shown", !.rev = Latest, !.incoming = Latest]]
    /\ UNCHANGED <<origin, upstream, note>>

\* importGithubFile reads the pinned blob and looks for a source of the file.
ImportFind(r) ==
    /\ request[r].at = "shown" /\ request[r].verb = "import"
    /\ IF Existing # {} THEN Finishes(r) ELSE Turns(r, "create")
    /\ UNCHANGED <<origin, upstream, note>>

ImportCreate(r) == request[r].verb = "import" /\ Create(r)

\* The check for upstream changes shows the source and the incoming text.
CheckRefresh(r) ==
    /\ origin = "github" /\ request[r].at = "idle"
    /\ \E n \in Notes :
          /\ note[n].is = "there" /\ upstream[Latest] \notin {Gone, note[n].hash}
          /\ request' = [request EXCEPT ![r] = [NoRequest EXCEPT !.at = "shown", !.verb = "refresh", !.rev = Latest,
                                                  !.id = n, !.ver = note[n].ver, !.saw = note[n].text]]
    /\ UNCHANGED <<origin, upstream, note>>

\* refreshGithubSource reads the source; ...
RefreshRead(r) ==
    /\ request[r].at = "shown" /\ request[r].verb = "refresh"
    /\ LET n == note[request[r].id]
       IN  IF n.is = "there"
           THEN \E ack \in BOOLEAN :
                   request' = [request EXCEPT ![r].at = "head", ![r].ack = ack, ![r].text = n.text,
                                              ![r].hash = n.hash]
           ELSE Finishes(r)
    /\ UNCHANGED <<origin, upstream, note>>

\* ... it resolves the branch again; ...
RefreshHead(r) ==
    /\ request[r].at = "head"
    /\ LET q == request[r]
       IN  IF \/ upstream[Latest] \in {Gone, q.hash}
              \/ ~q.ack /\ NeedsAcknowledgment(q.text, q.hash)
           THEN Finishes(r)
           ELSE request' = [request EXCEPT ![r].at = "write", ![r].incoming = Latest,
                                           ![r].text = NoText, ![r].hash = NoText]
    /\ UNCHANGED <<origin, upstream, note>>

\* Mutant: the hash stays that of the first import.
Provenance_Old(r) == note[request[r].id].hash

\* The hash that goes with the incoming text.
Provenance(r) == TextOf(r)

\* ... and replaces the text at the version the owner was shown.
RefreshWrite(r) ==
    /\ request[r].at = "write" /\ request[r].verb = "refresh" /\ request[r].ver < MaxEdits
    /\ LET t == Trimmed(TextOf(r))
       IN  \/ /\ CanReplace(r)
              /\ note' = [note EXCEPT ![request[r].id].text = t, ![request[r].id].base = t,
                                      ![request[r].id].hash = Provenance(r), ![request[r].id].ver = @ + 1]
           \/ UNCHANGED note
    /\ Finishes(r)
    /\ UNCHANGED <<origin, upstream>>

-----------------------------------------------------------------------------
(* A section of the profile.                                                *)

\* previewProfileKnowledge shows the section and the source there is.
PreviewExport(r) ==
    /\ origin # "github" /\ request[r].at = "idle" /\ upstream # <<>>
    /\ LET shown == [NoRequest EXCEPT !.at = "shown", !.verb = "export", !.rev = Latest]
       IN  IF Existing = {} THEN request' = [request EXCEPT ![r] = shown]
           ELSE \E n \in Existing :
                   request' = [request EXCEPT ![r] = [shown EXCEPT !.id = n, !.ver = note[n].ver,
                                                                   !.saw = note[n].text]]
    /\ UNCHANGED <<origin, upstream, note>>

\* Mutant: the revision is not compared.
IsReviewed_Any(r) == TRUE

IsReviewed(r) == request[r].rev = Latest

\* saveProfileKnowledge reads the profile, which must have the revision that was shown; ...
ExportRead(r) ==
    /\ request[r].at = "shown" /\ request[r].verb = "export"
    /\ IF IsReviewed(r)
       THEN \E ack \in BOOLEAN :
               request' = [request EXCEPT ![r].at = "find", ![r].ack = ack, ![r].incoming = Latest]
       ELSE Finishes(r)
    /\ UNCHANGED <<origin, upstream, note>>

\* ... it looks for the source of the section; ...
ExportFind(r) ==
    /\ request[r].at = "find"
    /\ LET q == request[r]
       IN  IF Existing = {} THEN Turns(r, "create")
           ELSE \E n \in Existing :
                   IF \/ q.id # n
                      \/ note[n].text = TextOf(r)
                      \/ ~q.ack /\ NeedsAcknowledgment(note[n].text, note[n].hash)
                   THEN Finishes(r) ELSE Turns(r, "write")
    /\ UNCHANGED <<origin, upstream, note>>

\* ... and creates it, ...
ExportCreate(r) == request[r].verb = "export" /\ Create(r)

\* ... or replaces its text; the hash is left as it was.
ExportWrite(r) ==
    /\ request[r].at = "write" /\ request[r].verb = "export" /\ request[r].ver < MaxEdits
    /\ \/ /\ CanReplace(r)
          /\ note' = [note EXCEPT ![request[r].id].text = TextOf(r), ![request[r].id].base = TextOf(r),
                                  ![request[r].id].ver = @ + 1]
       \/ UNCHANGED note
    /\ Finishes(r)
    /\ UNCHANGED <<origin, upstream>>

-----------------------------------------------------------------------------
IntakeNext ==
    \/ Changes
    \/ \E n \in Notes : EditSource(n) \/ DeleteSource(n)
    \/ \E r \in Requests :
          \/ GivesUp(r) \/ PreviewRepository(r) \/ ImportFind(r) \/ ImportCreate(r)
          \/ CheckRefresh(r) \/ RefreshRead(r) \/ RefreshHead(r) \/ RefreshWrite(r)
          \/ PreviewExport(r) \/ ExportRead(r) \/ ExportFind(r) \/ ExportCreate(r) \/ ExportWrite(r)

IntakeSpec == IntakeInit /\ [][IntakeNext]_intake

-----------------------------------------------------------------------------
(* Properties *)

Shown(r) == upstream[request[r].rev]

\* Request r stores a text in source n.
Stores(r, n) ==
    request[r].at \in {"create", "write"} /\ request'[r] # request[r] /\ note'[n].text # note[n].text

\* README: "Local edits require a separate acknowledgment, stale content versions ... are
\* rejected".  What a refresh replaces is what GitHub gave, or a text its owner was shown and
\* acknowledged to lose, whatever is edited while the branch is read.
EditsAreKept ==
    [][ \A r \in Requests, n \in Notes :
          request[r].verb = "refresh" /\ Stores(r, n) =>
              note[n].text = note[n].base \/ (request[r].ack /\ note[n].text = request[r].saw) ]_intake

\* What an import or an export stores is the text its owner was shown, but for the blanks
\* around it, although the branch moves and the profile is saved in between.
ShownIsSaved ==
    [][ \A r \in Requests, n \in Notes :
          request[r].verb # "refresh" /\ Stores(r, n) => Trimmed(note'[n].text) = Trimmed(Shown(r)) ]_intake
=============================================================================
