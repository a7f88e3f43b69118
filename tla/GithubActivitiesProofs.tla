------------------------ MODULE GithubActivitiesProofs ------------------------
(***************************************************************************)
(* For any owners, accounts, states, callbacks, repositories, times, pages, *)
(* passes and converters: what GithubActivities and AccountConnections      *)
(* promise of a connection, of a synchronisation and of a conversion.       *)
(*                                                                         *)
(* A behaviour is of one service, so the invariant is three, and each step  *)
(* keeps one and leaves the other two alone: LinkInv, what a callback knows *)
(* after each call it awaited; SyncInv, what a pass still has to bring;     *)
(* ConvertInv, what a mark stands on.                                       *)
(***************************************************************************)
EXTENDS GithubActivities, FiniteSetTheorems, TLAPS

USE ConnectionAssumption DEF ConnectionAssumption

-----------------------------------------------------------------------------
(* Connecting an account: what a callback has read.                         *)

UnderWay == {"verify", "set", "consume", "exchange", "lookup", "write"}

\* A callback that goes on has found a state that its own session asked for; it knows the
\* account, unless LinkedIn still has to name it.
Carries(x) == x.at \in UnderWay =>
    /\ x.state \in States /\ state[x.state].status \notin {"free", "issuing"}
    /\ x.session = state[x.state].owner
    /\ service = "github" \/ x.at # "exchange" => x.account \in Accounts

\* Who will exchange a code has used up the state, and no exchange was made with it.
Exchanges(x) == x.at = "exchange" =>
    state[x.state].status = "used" /\ \A o \in Owners : exchanged[x.state][o] = 0

\* The member of a LinkedIn connection stays, from before the comparison with it until the
\* write.
Compared(x) == service = "linkedin" /\ x.at = "write" /\ x.existing =>
    conn[state[x.state].owner].account = x.account

\* Only an installation that was verified for the owner gets past the comparison.
Confirmed(x) == service = "github" /\ x.at \in {"exchange", "lookup", "write"} =>
    <<state[x.state].owner, x.account>> \in verified

GoodCallback(x) == Carries(x) /\ Exchanges(x) /\ Compared(x) /\ Confirmed(x)

CallbacksInv ==
    /\ \A c \in Callbacks : GoodCallback(callback[c])
    /\ \A c, d \in Callbacks : callback[c].at = "exchange" /\ callback[d].at = "exchange"
                                  /\ callback[c].state = callback[d].state => c = d

\* A state has an owner from its issue; what was set in it was verified; an exchange was made
\* with a used one, for its owner.
StatesInv == \A s \in States :
    /\ state[s].status # "free" <=> state[s].owner \in Owners
    /\ state[s].pending # None => <<state[s].owner, state[s].pending>> \in verified
    /\ \A o \in Owners : exchanged[s][o] # 0 => state[s].status = "used" /\ state[s].owner = o

MembersInv == service = "linkedin" =>
    /\ \A o \in Owners : conn[o].status = "none" <=> conn[o].account = None
    /\ \A o, p \in Owners : conn[o].account = conn[p].account => o = p \/ conn[o].account = None

LinkInv == LinkTypeOK /\ CallbacksInv /\ StatesInv /\ MembersInv /\ ConnectedIsVerified

LEMMA IdleTyped == Idle \in CallbackRecords
BY DEF Idle, CallbackRecords

LEMMA LinkInitGood == LinkIdle => LinkInv
<1> SUFFICES ASSUME LinkIdle PROVE LinkInv
  OBVIOUS
<1>1. NoConnection \in Connections /\ NoState \in OauthStates /\ Idle \in CallbackRecords
  BY DEF NoConnection, NoState, Idle, Connections, OauthStates, CallbackRecords
<1>2. LinkTypeOK
  BY <1>1 DEF LinkIdle, LinkTypeOK
<1>3. CallbacksInv
  BY DEF LinkIdle, CallbacksInv, GoodCallback, Carries, Exchanges, Compared, Confirmed, Idle, UnderWay
<1>4. StatesInv
  BY DEF LinkIdle, StatesInv, NoState
<1>5. MembersInv /\ ConnectedIsVerified
  BY DEF LinkIdle, MembersInv, ConnectedIsVerified, NoConnection
<1> QED
  BY <1>2, <1>3, <1>4, <1>5 DEF LinkInv

\* The types of the state, one fact for each variable.
LEMMA LinkState ==
    ASSUME LinkInv
    PROVE  /\ \A c \in Callbacks : callback[c] \in CallbackRecords /\ GoodCallback(callback[c])
           /\ \A s \in States : state[s] \in OauthStates
           /\ \A o \in Owners : conn[o] \in Connections
           /\ callback \in [Callbacks -> CallbackRecords] /\ state \in [States -> OauthStates]
           /\ conn \in [Owners -> Connections] /\ exchanged \in [States -> [Owners -> 0..1]]
           /\ verified \in SUBSET (Owners \X Accounts)
BY DEF LinkInv, LinkTypeOK, CallbacksInv

\* States go on: they keep their owner, what is used stays so, and what is verified.
GoesOn(s) ==
    /\ state[s].status \notin {"free", "issuing"} =>
          state'[s].owner = state[s].owner /\ state'[s].status \notin {"free", "issuing"}
    /\ state[s].status = "used" => state'[s].status = "used"

\* Then a callback that was good still is.
LEMMA CallbackStays ==
    ASSUME NEW x, GoodCallback(x), \A s \in States : GoesOn(s), verified \subseteq verified',
           UNCHANGED <<service, conn, exchanged>>
    PROVE  GoodCallback(x)'
<1>1. Carries(x) /\ Exchanges(x) /\ Compared(x) /\ Confirmed(x)
  BY DEF GoodCallback
<1>2. x.at \in UnderWay => x.state \in States /\ GoesOn(x.state) /\ state'[x.state].owner = state[x.state].owner
  BY <1>1 DEF Carries, GoesOn
<1>3. Carries(x)'
  BY <1>1, <1>2 DEF Carries, GoesOn
<1>4. Exchanges(x)'
  BY <1>1, <1>2 DEF Exchanges, GoesOn, UnderWay
<1>5. Compared(x)'
  BY <1>1, <1>2 DEF Compared, UnderWay
<1>6. Confirmed(x)'
  BY <1>1, <1>2 DEF Confirmed, UnderWay
<1> QED
  BY <1>3, <1>4, <1>5, <1>6 DEF GoodCallback

LEMMA OneStays ==
    ASSUME NEW c \in Callbacks, GoodCallback(callback[c]), callback'[c] = callback[c],
           \A s \in States : GoesOn(s), verified \subseteq verified', UNCHANGED <<service, conn, exchanged>>
    PROVE  GoodCallback(callback[c])'
<1>1. PICK x : x = callback[c]
  OBVIOUS
<1>2. GoodCallback(x)'
  BY <1>1, CallbackStays
<1>3. callback'[c] = x
  BY <1>1
<1> QED
  BY <1>2, <1>3 DEF GoodCallback, Carries, Exchanges, Compared, Confirmed

\* One callback goes on, one state may: what has to be shown of the two.
LEMMA CallbackStep ==
    ASSUME LinkInv, NEW c \in Callbacks, NEW r \in CallbackRecords,
           callback' = [callback EXCEPT ![c] = r],
           \A s \in States : GoesOn(s), verified \subseteq verified', UNCHANGED <<service, conn, exchanged>>,
           GoodCallback(r)',
           r.at = "exchange" => state[r.state].status # "used",
           state' \in [States -> OauthStates], verified' \in SUBSET (Owners \X Accounts), StatesInv'
    PROVE  LinkInv'
<1>1. \A d \in Callbacks : callback'[d] = IF d = c THEN r ELSE callback[d]
  BY LinkState
<1>2. \A d \in Callbacks : GoodCallback(callback[d])
  BY LinkState
<1>3. ASSUME NEW d \in Callbacks PROVE GoodCallback(callback[d])'
  <2>1. CASE d = c
    <3>1. callback'[d] = r
      BY <2>1, <1>1
    <3> QED
      BY <3>1 DEF GoodCallback, Carries, Exchanges, Compared, Confirmed
  <2>2. CASE d # c
    BY <2>2, <1>1, <1>2, OneStays
  <2> QED
    BY <2>1, <2>2
<1>5. \A d \in Callbacks : callback[d].at = "exchange" => state[callback[d].state].status = "used"
  BY <1>2 DEF GoodCallback, Exchanges
<1>6. CallbacksInv'
  BY <1>1, <1>3, <1>5 DEF LinkInv, CallbacksInv
<1>7. LinkTypeOK'
  BY LinkState DEF LinkTypeOK
<1>8. MembersInv' /\ ConnectedIsVerified'
  BY DEF LinkInv, MembersInv, ConnectedIsVerified
<1> QED
  BY <1>6, <1>7, <1>8 DEF LinkInv

\* ... and only the callback does.
LEMMA QuietStep ==
    ASSUME LinkInv, NEW c \in Callbacks, NEW r \in CallbackRecords,
           callback' = [callback EXCEPT ![c] = r], UNCHANGED <<service, conn, state, exchanged, verified>>,
           r.at # "exchange", GoodCallback(r)
    PROVE  LinkInv'
<1>1. \A s \in States : GoesOn(s)
  BY DEF GoesOn
<1>2. GoodCallback(r)'
  BY <1>1, CallbackStays
<1>3. StatesInv'
  BY DEF LinkInv, StatesInv
<1> QED
  BY <1>1, <1>2, <1>3, CallbackStep, LinkState

LEMMA EndsKeeps ==
    ASSUME LinkInv, NEW c \in Callbacks, Ends(c), UNCHANGED <<service, conn, state, exchanged, verified>>
    PROVE  LinkInv'
<1> DEFINE r == [Idle EXCEPT !.at = "done"]
<1>1. r \in CallbackRecords /\ r.at = "done"
  BY IdleTyped DEF CallbackRecords
<1> HIDE DEF r
<1>2. GoodCallback(r)
  BY <1>1 DEF GoodCallback, Carries, Exchanges, Compared, Confirmed, UnderWay
<1>3. callback' = [callback EXCEPT ![c] = r]
  BY DEF Ends, r
<1> QED
  BY <1>1, <1>2, <1>3, QuietStep

\* One state goes on, and no callback does.
LEMMA StateStep ==
    ASSUME LinkInv, NEW s \in States, NEW x \in OauthStates, state' = [state EXCEPT ![s] = x],
           GoesOn(s), UNCHANGED <<service, conn, callback, exchanged, verified>>,
           x.status # "free", x.owner \in Owners, x.pending # None => <<x.owner, x.pending>> \in verified,
           state[s].status # "used"
    PROVE  LinkInv'
<1>1. \A u \in States : state'[u] = IF u = s THEN x ELSE state[u]
  BY LinkState
<1>2. \A u \in States : GoesOn(u)
  BY <1>1 DEF GoesOn
<1>3. ASSUME NEW d \in Callbacks PROVE GoodCallback(callback[d])'
  BY <1>2, OneStays, LinkState
<1>4. CallbacksInv'
  BY <1>3 DEF LinkInv, CallbacksInv
<1>5. StatesInv'
  <2> SUFFICES ASSUME NEW u \in States
               PROVE  /\ state'[u].status # "free" <=> state'[u].owner \in Owners
                      /\ state'[u].pending # None => <<state'[u].owner, state'[u].pending>> \in verified
                      /\ \A o \in Owners : exchanged[u][o] # 0 => state'[u].status = "used" /\ state'[u].owner = o
    BY DEF StatesInv
  <2>1. CASE u = s
    BY <1>1, <2>1 DEF LinkInv, StatesInv
  <2>2. CASE u # s
    BY <1>1, <2>2 DEF LinkInv, StatesInv
  <2> QED
    BY <2>1, <2>2
<1>6. LinkTypeOK'
  BY LinkState DEF LinkTypeOK
<1>7. MembersInv' /\ ConnectedIsVerified'
  BY DEF LinkInv, MembersInv, ConnectedIsVerified
<1> QED
  BY <1>4, <1>5, <1>6, <1>7 DEF LinkInv

LEMMA BeginReadKeeps == ASSUME LinkInv, UNCHANGED service, BeginRead PROVE LinkInv'
<1>1. PICK o \in Owners, s \in States :
        /\ state[s].status = "free"
        /\ state' = [state EXCEPT ![s] = [NoState EXCEPT !.owner = o, !.gen = conn[o].gen, !.status = "issuing"]]
        /\ UNCHANGED <<conn, callback, exchanged, verified>>
  BY DEF BeginRead
<1> DEFINE x == [NoState EXCEPT !.owner = o, !.gen = conn[o].gen, !.status = "issuing"]
<1>2. conn[o].gen \in 0..MaxGen
  BY LinkState DEF Connections
<1>3. x \in OauthStates /\ x.status = "issuing" /\ x.owner = o /\ x.pending = None
  BY <1>2 DEF NoState, OauthStates
<1>4. GoesOn(s)
  BY <1>1 DEF GoesOn
<1> HIDE DEF x
<1> QED
  BY <1>1, <1>3, <1>4, StateStep DEF x

LEMMA StateMoves ==
    ASSUME LinkInv, UNCHANGED <<service, conn, callback, exchanged, verified>>,
           NEW s \in States, NEW to \in {"open", "expired"}, state' = [state EXCEPT ![s].status = to],
           state[s].status \in {"issuing", "open"}
    PROVE  LinkInv'
<1> DEFINE x == [state[s] EXCEPT !.status = to]
<1>1. state[s] \in OauthStates
  BY LinkState
<1>2. x \in OauthStates /\ x.status = to /\ x.owner = state[s].owner /\ x.pending = state[s].pending
  BY <1>1 DEF OauthStates
<1>3. state' = [state EXCEPT ![s] = x]
  BY LinkState
<1>4. x.owner \in Owners /\ (x.pending # None => <<x.owner, x.pending>> \in verified)
  BY <1>2 DEF LinkInv, StatesInv
<1>5. state'[s] = x
  BY <1>3, LinkState
<1> HIDE DEF x
<1>6. GoesOn(s)
  BY <1>2, <1>5 DEF GoesOn
<1> QED
  BY <1>2, <1>3, <1>4, <1>6, StateStep

LEMMA StateActionsKeep == ASSUME LinkInv, UNCHANGED service, BeginStore \/ StateExpires PROVE LinkInv'
<1>1. CASE BeginStore
  BY <1>1, StateMoves DEF BeginStore
<1>2. CASE StateExpires
  BY <1>2, StateMoves DEF StateExpires
<1> QED
  BY <1>1, <1>2
LEMMA LinkedInArrivesKeeps ==
    ASSUME LinkInv, UNCHANGED service, NEW c \in Callbacks, LinkedInArrives(c) PROVE LinkInv'
<1>1. PICK s \in States, session \in Owners :
        IF IsOpen(s, session)
        THEN /\ state' = [state EXCEPT ![s].status = "used"]
             /\ \/ Ends(c)
                \/ callback' = [callback EXCEPT ![c] = [Idle EXCEPT !.at = "exchange", !.state = s,
                                                                    !.session = session]]
        ELSE Ends(c) /\ UNCHANGED state
  BY DEF LinkedInArrives
<1>2. UNCHANGED <<conn, exchanged, verified>> /\ service = "linkedin"
  BY DEF LinkedInArrives
<1>3. CASE ~IsOpen(s, session)
  BY <1>1, <1>2, <1>3, EndsKeeps
<1>4. CASE IsOpen(s, session)
  <2>1. state[s] \in OauthStates /\ state[s].status = "open" /\ state[s].owner = session
    BY <1>4, LinkState DEF IsOpen
  <2>2. \A u \in States : state'[u] = IF u = s THEN [state[s] EXCEPT !.status = "used"] ELSE state[u]
    BY <1>1, <1>4, LinkState
  <2>3. state'[s].status = "used" /\ state'[s].owner = session /\ state'[s].pending = state[s].pending
    BY <2>1, <2>2 DEF OauthStates
  <2>4. \A u \in States : GoesOn(u)
    BY <2>1, <2>2, <2>3 DEF GoesOn
  <2>5. StatesInv'
    BY <1>2, <2>1, <2>2, <2>3 DEF LinkInv, StatesInv
  <2>6. state' \in [States -> OauthStates]
    <3> DEFINE x == [state[s] EXCEPT !.status = "used"]
    <3>1. x \in OauthStates
      BY <2>1 DEF OauthStates
    <3>2. state' = [state EXCEPT ![s] = x]
      BY <1>1, <1>4, LinkState
    <3> QED
      BY <3>1, <3>2, LinkState
  <2>7. CASE Ends(c)
    <3> DEFINE r == [Idle EXCEPT !.at = "done"]
    <3>1. r \in CallbackRecords /\ r.at = "done"
      BY IdleTyped DEF CallbackRecords
    <3>2. callback' = [callback EXCEPT ![c] = r]
      BY <2>7 DEF Ends
    <3> HIDE DEF r
    <3>3. GoodCallback(r)'
      BY <3>1 DEF GoodCallback, Carries, Exchanges, Compared, Confirmed, UnderWay
    <3> QED
      BY <1>2, <2>4, <2>5, <2>6, <3>1, <3>2, <3>3, CallbackStep, LinkState
  <2>8. CASE ~Ends(c)
    <3> DEFINE r == [Idle EXCEPT !.at = "exchange", !.state = s, !.session = session]
    <3>1. r \in CallbackRecords /\ r.at = "exchange" /\ r.state = s /\ r.session = session
      BY IdleTyped DEF CallbackRecords
    <3>2. callback' = [callback EXCEPT ![c] = r]
      BY <1>1, <1>4, <2>8
    <3> HIDE DEF r
    <3>3. \A o \in Owners : exchanged[s][o] = 0
      BY <2>1 DEF LinkInv, StatesInv
    <3>4. GoodCallback(r)'
      BY <1>2, <2>3, <3>1, <3>3 DEF GoodCallback, Carries, Exchanges, Compared, Confirmed
    <3> QED
      BY <1>2, <2>1, <2>4, <2>5, <2>6, <3>1, <3>2, <3>4, CallbackStep, LinkState
  <2> QED
    BY <2>7, <2>8
<1> QED
  BY <1>3, <1>4

LEMMA GithubArrivesKeeps ==
    ASSUME LinkInv, UNCHANGED service, NEW c \in Callbacks, GithubArrives(c) PROVE LinkInv'
<1>1. PICK s \in States, session \in Owners, given \in Accounts \cup {None}, place \in {"verify", "consume"} :
        LET installation == IF given # None THEN given ELSE state[s].pending
        IN  IF IsOpen(s, session) /\ installation # None
            THEN callback' = [callback EXCEPT ![c] = [Idle EXCEPT !.at = place, !.state = s,
                                                     !.account = installation, !.session = session]]
            ELSE Ends(c)
  BY DEF GithubArrives
<1>2. UNCHANGED <<conn, state, exchanged, verified>> /\ service = "github"
  BY DEF GithubArrives
<1>3. CASE Ends(c)
  BY <1>2, <1>3, EndsKeeps
<1>4. CASE ~Ends(c)
  <2> DEFINE a == IF given # None THEN given ELSE state[s].pending
             r == [Idle EXCEPT !.at = place, !.state = s, !.account = a, !.session = session]
  <2>1. state[s].status = "open" /\ state[s].owner = session /\ a # None
    BY <1>1, <1>4 DEF IsOpen
  <2>2. a \in Accounts
    BY <2>1, LinkState DEF OauthStates
  <2>3. callback' = [callback EXCEPT ![c] = r]
    BY <1>1, <1>4
  <2> HIDE DEF a
  <2>4. r \in CallbackRecords /\ r.at \in {"verify", "consume"} /\ r.state = s /\ r.session = session /\ r.account = a
    BY <2>2, IdleTyped DEF CallbackRecords
  <2> HIDE DEF r
  <2>5. GoodCallback(r)
    BY <2>1, <2>2, <2>4 DEF GoodCallback, Carries, Exchanges, Compared, Confirmed
  <2> QED
    BY <1>2, <2>3, <2>4, <2>5, QuietStep
<1> QED
  BY <1>3, <1>4

\* A callback goes on with what it has to another step, which asks no more of it.
LEMMA MovesKeep ==
    ASSUME LinkInv, NEW c \in Callbacks, callback[c].at = "verify", At(c, "set"),
           UNCHANGED <<service, conn, state, exchanged, verified>>
    PROVE  LinkInv'
<1> DEFINE x == callback[c]
           r == [x EXCEPT !.at = "set"]
<1>1. x \in CallbackRecords /\ GoodCallback(x)
  BY LinkState
<1>2. callback' = [callback EXCEPT ![c] = r]
  BY LinkState DEF At
<1> HIDE DEF x
<1>3. r \in CallbackRecords /\ r.at = "set" /\ r.state = x.state /\ r.session = x.session /\ r.account = x.account
  BY <1>1 DEF CallbackRecords
<1>4. x.at = "verify"
  BY DEF x
<1> HIDE DEF r
<1>5. GoodCallback(r)
  BY <1>1, <1>3, <1>4 DEF GoodCallback, Carries, Exchanges, Compared, Confirmed, UnderWay
<1> QED
  BY <1>2, <1>3, <1>5, QuietStep

LEMMA VerifyKeeps ==
    ASSUME LinkInv, UNCHANGED service, NEW c \in Callbacks, Verify(c) \/ Breaks(c) PROVE LinkInv'
BY MovesKeep, EndsKeeps DEF Verify, Breaks
\* A callback ends, and the state it read goes on.
LEMMA LastStep ==
    ASSUME LinkInv, NEW c \in Callbacks, Ends(c), UNCHANGED <<service, conn, exchanged>>,
           \A s \in States : GoesOn(s), verified \subseteq verified',
           state' \in [States -> OauthStates], verified' \in SUBSET (Owners \X Accounts), StatesInv'
    PROVE  LinkInv'
<1> DEFINE r == [Idle EXCEPT !.at = "done"]
<1>1. r \in CallbackRecords /\ r.at = "done"
  BY IdleTyped DEF CallbackRecords
<1>2. callback' = [callback EXCEPT ![c] = r]
  BY DEF Ends
<1> HIDE DEF r
<1>3. GoodCallback(r)'
  BY <1>1 DEF GoodCallback, Carries, Exchanges, Compared, Confirmed, UnderWay
<1> QED
  BY <1>1, <1>2, <1>3, CallbackStep

LEMMA SetInstallationKeeps ==
    ASSUME LinkInv, UNCHANGED service, NEW c \in Callbacks, SetInstallation(c) PROVE LinkInv'
<1> DEFINE s == callback[c].state
           a == callback[c].account
<1>1. callback[c].at = "set" /\ Ends(c) /\ UNCHANGED <<conn, exchanged>>
  BY DEF SetInstallation
<1>2. CASE state[s].status = "used"
  BY <1>1, <1>2, EndsKeeps DEF SetInstallation
<1>3. CASE state[s].status # "used"
  <2>1. state' = [state EXCEPT ![s].pending = a] /\ verified' = verified \cup {<<state[s].owner, a>>}
    BY <1>3 DEF SetInstallation, OwnerOf
  <2>2. Carries(callback[c])
    BY LinkState DEF GoodCallback
  <2>3. s \in States /\ state[s].status \notin {"free", "issuing"}
    BY <1>1, <2>2 DEF Carries, UnderWay
  <2>4. a \in Accounts /\ a # None
    BY <1>1, <2>2 DEF Carries, UnderWay
  <2>5. state[s] \in OauthStates /\ state[s].owner \in Owners
    BY <2>3, LinkState DEF LinkInv, StatesInv
  <2> DEFINE x == [state[s] EXCEPT !.pending = a]
  <2>6. x \in OauthStates /\ x.pending = a /\ x.status = state[s].status /\ x.owner = state[s].owner
    BY <2>4, <2>5 DEF OauthStates
  <2>7. state' = [state EXCEPT ![s] = x]
    BY <2>1, LinkState
  <2> HIDE DEF x, s, a
  <2>8. \A u \in States : state'[u] = IF u = s THEN x ELSE state[u]
    BY <2>7, LinkState
  <2>9. \A u \in States : GoesOn(u)
    BY <2>6, <2>8 DEF GoesOn
  <2>10. state' \in [States -> OauthStates]
    BY <2>6, <2>7, LinkState
  <2>11. verified' \in SUBSET (Owners \X Accounts) /\ verified \subseteq verified' /\ <<x.owner, x.pending>> \in verified'
    BY <2>1, <2>4, <2>5, <2>6, LinkState
  <2>12. StatesInv'
    <3> SUFFICES ASSUME NEW u \in States
                 PROVE  /\ state'[u].status # "free" <=> state'[u].owner \in Owners
                        /\ state'[u].pending # None => <<state'[u].owner, state'[u].pending>> \in verified'
                        /\ \A o \in Owners : exchanged[u][o] # 0 => state'[u].status = "used" /\ state'[u].owner = o
      BY <1>1 DEF StatesInv
    <3>1. CASE u = s
      BY <2>6, <2>8, <2>11, <3>1 DEF LinkInv, StatesInv
    <3>2. CASE u # s
      BY <2>8, <2>11, <3>2 DEF LinkInv, StatesInv
    <3> QED
      BY <3>1, <3>2
  <2> QED
    BY <1>1, <2>9, <2>10, <2>11, <2>12, LastStep
<1> QED
  BY <1>2, <1>3

\* The state of a callback is used up: what holds of it then.
LEMMA UsesUp ==
    ASSUME LinkInv, NEW s \in States, state' = [state EXCEPT ![s].status = "used"],
           state[s].status \notin {"free", "issuing"}, UNCHANGED <<exchanged, verified>>
    PROVE  /\ \A u \in States : GoesOn(u)
           /\ state' \in [States -> OauthStates] /\ StatesInv'
           /\ state'[s].status = "used" /\ state'[s].owner = state[s].owner
<1> DEFINE x == [state[s] EXCEPT !.status = "used"]
<1>1. state[s] \in OauthStates
  BY LinkState
<1>2. x \in OauthStates /\ x.status = "used" /\ x.owner = state[s].owner /\ x.pending = state[s].pending
  BY <1>1 DEF OauthStates
<1>3. state' = [state EXCEPT ![s] = x]
  BY LinkState
<1> HIDE DEF x
<1>4. \A u \in States : state'[u] = IF u = s THEN x ELSE state[u]
  BY <1>3, LinkState
<1>5. \A u \in States : GoesOn(u)
  BY <1>2, <1>4 DEF GoesOn
<1>6. state' \in [States -> OauthStates]
  BY <1>2, <1>3, LinkState
<1>7. StatesInv'
  <2> SUFFICES ASSUME NEW u \in States
               PROVE  /\ state'[u].status # "free" <=> state'[u].owner \in Owners
                      /\ state'[u].pending # None => <<state'[u].owner, state'[u].pending>> \in verified
                      /\ \A o \in Owners : exchanged[u][o] # 0 => state'[u].status = "used" /\ state'[u].owner = o
    BY DEF StatesInv
  <2>1. CASE u = s
    BY <1>2, <1>4, <2>1 DEF LinkInv, StatesInv
  <2>2. CASE u # s
    BY <1>4, <2>2 DEF LinkInv, StatesInv
  <2> QED
    BY <2>1, <2>2
<1> QED
  BY <1>2, <1>4, <1>5, <1>6, <1>7

LEMMA ConsumeKeeps ==
    ASSUME LinkInv, UNCHANGED service, NEW c \in Callbacks, Consume(c) PROVE LinkInv'
<1> DEFINE y == callback[c]
           s == y.state
<1>1. y.at = "consume" /\ UNCHANGED <<conn, exchanged, verified>>
  BY DEF Consume
<1>2. y \in CallbackRecords /\ GoodCallback(y)
  BY LinkState
<1>3. s \in States /\ state[s].status \notin {"free", "issuing"} /\ y.session = state[s].owner /\ y.account \in Accounts
  BY <1>1, <1>2 DEF GoodCallback, Carries, UnderWay
<1>4. CASE ~CanConsume(s)
  BY <1>1, <1>4, EndsKeeps DEF Consume
<1>5. CASE CanConsume(s)
  <2>1. state' = [state EXCEPT ![s].status = "used"] /\ IF IsPending(c) THEN At(c, "exchange") ELSE Ends(c)
    BY <1>5 DEF Consume
  <2>2. /\ \A u \in States : GoesOn(u)
        /\ state' \in [States -> OauthStates] /\ StatesInv'
        /\ state'[s].status = "used" /\ state'[s].owner = state[s].owner
    BY <1>1, <1>3, <2>1, UsesUp
  <2>3. CASE ~IsPending(c)
    BY <1>1, <2>1, <2>2, <2>3, LastStep, LinkState
  <2>4. CASE IsPending(c)
    <3>1. [y EXCEPT !.at = "exchange"] \in CallbackRecords
      BY <1>2 DEF CallbackRecords
    <3>2. PICK r \in CallbackRecords : r = [y EXCEPT !.at = "exchange"]
      BY <3>1
    <3>3. callback' = [callback EXCEPT ![c] = r]
      BY <2>1, <2>4, <3>2, LinkState DEF At
    <3>4. PICK x : x = s
      OBVIOUS
    <3> HIDE DEF y
    <3>5. r.at = "exchange" /\ r.state = x /\ r.session = y.session /\ r.account = y.account
      BY <1>2, <3>2, <3>4 DEF CallbackRecords
    <3> HIDE DEF s
    <3>6. state[x].pending = y.account /\ y.account # None
      BY <1>3, <2>4, <3>4 DEF IsPending, y, s
    <3>7. <<state[x].owner, y.account>> \in verified
      BY <1>3, <3>4, <3>6 DEF LinkInv, StatesInv
    <3>8. state[x].status # "used"
      BY <1>5, <3>4 DEF CanConsume
    <3>9. \A o \in Owners : exchanged[x][o] = 0
      BY <1>3, <3>4, <3>8 DEF LinkInv, StatesInv
    <3>10. state'[x].status = "used" /\ state'[x].owner = state[x].owner /\ x \in States
      BY <1>3, <2>2, <3>4
    <3>11. r.session = state'[r.state].owner /\ r.account \in Accounts
      BY <1>3, <3>4, <3>5, <3>10
    <3>12. GoodCallback(r)'
      BY <1>1, <3>5, <3>6, <3>7, <3>9, <3>10, <3>11 DEF GoodCallback, Carries, Exchanges, Compared, Confirmed, UnderWay
    <3> QED
      BY <1>1, <2>2, <3>3, <3>5, <3>8, <3>12, CallbackStep, LinkState
  <2> QED
    BY <2>3, <2>4
<1> QED
  BY <1>4, <1>5
\* The code was not exchanged before; this is the one time.
LEMMA ExchangeKeeps ==
    ASSUME LinkInv, service \in Services, UNCHANGED service, NEW c \in Callbacks, Exchange(c)
    PROVE  LinkInv'
<1>1. PICK y \in CallbackRecords : y = callback[c] /\ GoodCallback(y)
  BY LinkState
<1>2. y.at = "exchange" /\ UNCHANGED <<conn, state, verified>>
  BY <1>1 DEF Exchange
<1>3. y.state \in States /\ y.session \in Owners /\ y.session = state[y.state].owner
      /\ state[y.state].status = "used" /\ exchanged[y.state][y.session] = 0
  <2>1. y.state \in States /\ y.session = state[y.state].owner /\ state[y.state].status = "used"
    BY <1>1, <1>2 DEF GoodCallback, Carries, Exchanges, UnderWay
  <2>2. y.session \in Owners
    BY <2>1 DEF LinkInv, StatesInv
  <2> QED
    BY <1>1, <1>2, <2>1, <2>2 DEF GoodCallback, Exchanges
<1>4. exchanged' = [exchanged EXCEPT ![y.state][y.session] = 1]
  <2>1. exchanged' = [exchanged EXCEPT ![y.state][y.session] = exchanged[y.state][y.session] + 1]
    BY <1>1 DEF Exchange
  <2> QED
    BY <1>3, <2>1
<1>5. exchanged' \in [States -> [Owners -> 0..1]]
  BY <1>3, <1>4, LinkState
<1>6. \A s \in States, o \in Owners :
         exchanged'[s][o] = IF s = y.state /\ o = y.session THEN 1 ELSE exchanged[s][o]
  BY <1>3, <1>4, LinkState
<1>7. \A r \in CallbackRecords : /\ GoodCallback(r)
                                 /\ r.at = "exchange" => r.state # y.state
                                 => GoodCallback(r)'
  BY <1>2, <1>6 DEF GoodCallback, Carries, Exchanges, Compared, Confirmed, UnderWay
<1>8. PICK r \in CallbackRecords : callback' = [callback EXCEPT ![c] = r] /\ r.at # "exchange" /\ GoodCallback(r)
  <2>1. CASE Ends(c)
    <3> DEFINE r == [Idle EXCEPT !.at = "done"]
    <3>1. r \in CallbackRecords /\ r.at = "done"
      BY IdleTyped DEF CallbackRecords
    <3>2. callback' = [callback EXCEPT ![c] = r]
      BY <2>1 DEF Ends
    <3> HIDE DEF r
    <3> QED
      BY <3>1, <3>2 DEF GoodCallback, Carries, Exchanges, Compared, Confirmed, UnderWay
  <2>2. CASE ~Ends(c)
    <3>1. PICK a \in IF service = "linkedin" THEN Accounts ELSE {y.account} :
             callback' = [callback EXCEPT ![c].at = "lookup", ![c].account = a]
      BY <1>1, <2>2 DEF Exchange, LinkedInIdentifies, GithubIdentifies
    <3>2. service = "github" => a = y.account
      BY <3>1
    <3>3. a \in Accounts
      BY <1>1, <1>2, <3>1, <3>2 DEF GoodCallback, Carries, UnderWay
    <3> DEFINE r == [y EXCEPT !.at = "lookup", !.account = a]
    <3>4. callback' = [callback EXCEPT ![c] = r]
      BY <1>1, <3>1, LinkState
    <3>5. r \in CallbackRecords /\ r.at = "lookup" /\ r.state = y.state /\ r.session = y.session /\ r.account = a
      BY <3>3 DEF CallbackRecords
    <3> HIDE DEF r
    <3>6. GoodCallback(r)
      BY <1>1, <1>2, <3>2, <3>3, <3>5 DEF GoodCallback, Carries, Exchanges, Compared, Confirmed, UnderWay
    <3> QED
      BY <3>4, <3>5, <3>6
  <2> QED
    BY <2>1, <2>2
<1>9. \A d \in Callbacks : callback'[d] = IF d = c THEN r ELSE callback[d]
  BY <1>8, LinkState
<1>10. \A d \in Callbacks \ {c} : callback[d].at = "exchange" => callback[d].state # y.state
  BY <1>1, <1>2 DEF LinkInv, CallbacksInv
<1>11. ASSUME NEW d \in Callbacks PROVE GoodCallback(callback[d])'
  <2>1. PICK x \in CallbackRecords : x = callback'[d] /\ GoodCallback(x) /\ (x.at = "exchange" => x.state # y.state)
    BY <1>8, <1>9, <1>10, LinkState
  <2>2. GoodCallback(x)'
    BY <1>7, <2>1
  <2> QED
    BY <2>1, <2>2 DEF GoodCallback, Carries, Exchanges, Compared, Confirmed
<1>12. CallbacksInv'
  BY <1>8, <1>9, <1>11 DEF LinkInv, CallbacksInv
<1>13. StatesInv'
  <2> SUFFICES ASSUME NEW s \in States
               PROVE  /\ state[s].status # "free" <=> state[s].owner \in Owners
                      /\ state[s].pending # None => <<state[s].owner, state[s].pending>> \in verified
                      /\ \A o \in Owners : exchanged'[s][o] # 0 => state[s].status = "used" /\ state[s].owner = o
    BY <1>2 DEF StatesInv
  <2> QED
    BY <1>3, <1>6 DEF LinkInv, StatesInv
<1>14. LinkTypeOK'
  BY <1>2, <1>5, <1>8, LinkState DEF LinkTypeOK
<1>15. MembersInv' /\ ConnectedIsVerified'
  BY <1>2 DEF LinkInv, MembersInv, ConnectedIsVerified
<1> QED
  BY <1>12, <1>13, <1>14, <1>15 DEF LinkInv

LEMMA LookupKeeps ==
    ASSUME LinkInv, UNCHANGED service, NEW c \in Callbacks, Lookup(c) PROVE LinkInv'
<1>1. PICK y \in CallbackRecords : y = callback[c] /\ GoodCallback(y)
  BY LinkState
<1>2. y.at = "lookup" /\ UNCHANGED <<conn, state, exchanged, verified>>
  BY <1>1 DEF Lookup
<1>3. CASE Ends(c)
  BY <1>2, <1>3, EndsKeeps
<1>4. CASE ~Ends(c)
  <2> DEFINE o == state[y.state].owner
             there == conn[o].status # "none"
             r == [y EXCEPT !.at = "write", !.existing = there, !.gen = conn[o].gen]
  <2>1. callback' = [callback EXCEPT ![c] = r] /\ (there /\ service = "linkedin" => conn[o].account = y.account)
    BY <1>1, <1>4, LinkState DEF Lookup, OwnerOf, IsSameMember
  <2>2. y.state \in States /\ o \in Owners
    BY <1>1, <1>2 DEF GoodCallback, Carries, UnderWay, LinkInv, StatesInv
  <2>3. conn[o].gen \in 0..MaxGen /\ there \in BOOLEAN
    BY <2>2, LinkState DEF Connections
  <2> HIDE DEF o, there
  <2>4. r \in CallbackRecords /\ r.at = "write" /\ r.state = y.state /\ r.session = y.session /\ r.account = y.account
        /\ r.existing = there
    BY <2>3 DEF CallbackRecords
  <2> HIDE DEF r
  <2>5. GoodCallback(r)
    BY <1>1, <1>2, <2>1, <2>4 DEF GoodCallback, Carries, Exchanges, Compared, Confirmed, UnderWay, o, there
  <2> QED
    BY <1>2, <2>1, <2>4, <2>5, QuietStep
<1> QED
  BY <1>3, <1>4

\* What a write makes of the connections: each has the account it had, but the one whose
\* callback writes the account it compared, or a new one.
LEMMA Written ==
    ASSUME LinkInv, NEW c \in Callbacks, Write(c), service \in Services
    PROVE  \/ UNCHANGED conn
           \/ /\ OwnerOf(c) \in Owners /\ callback[c].account \in Accounts
              /\ conn' = [conn EXCEPT ![OwnerOf(c)] = [status |-> "connected", account |-> callback[c].account,
                                                       gen |-> callback[c].gen + 1]]
              /\ callback[c].gen + 1 \in 0..MaxGen
              /\ service = "github" => <<OwnerOf(c), callback[c].account>> \in verified
              /\ service = "linkedin" =>
                    (conn[OwnerOf(c)].account = callback[c].account
                       \/ (conn[OwnerOf(c)].account = None /\ CanCreate(OwnerOf(c), callback[c].account)))
<1>1. PICK y \in CallbackRecords : y = callback[c] /\ GoodCallback(y)
  BY LinkState
<1>2. y.at = "write" /\ y.gen < MaxGen /\ y.gen \in 0..MaxGen
  BY <1>1 DEF Write, CallbackRecords
<1>3. OwnerOf(c) = state[y.state].owner /\ OwnerOf(c) \in Owners /\ y.account \in Accounts
  BY <1>1, <1>2 DEF GoodCallback, Carries, UnderWay, LinkInv, StatesInv, OwnerOf
<1>4. CASE UNCHANGED conn
  BY <1>4
<1>5. CASE ~UNCHANGED conn
  <2>1. (y.existing \/ CanCreate(OwnerOf(c), y.account))
        /\ conn' = [conn EXCEPT ![OwnerOf(c)] = [status |-> "connected", account |-> y.account, gen |-> y.gen + 1]]
    BY <1>1, <1>5 DEF Write
  <2>2. service = "github" => <<OwnerOf(c), y.account>> \in verified
    BY <1>1, <1>2, <1>3 DEF GoodCallback, Confirmed
  <2>3. service = "linkedin" /\ y.existing => conn[OwnerOf(c)].account = y.account
    BY <1>1, <1>2, <1>3 DEF GoodCallback, Compared
  <2>4. service = "linkedin" /\ CanCreate(OwnerOf(c), y.account) => conn[OwnerOf(c)].account = None
    BY <1>3 DEF CanCreate, LinkInv, MembersInv
  <2>5. y.gen + 1 \in 0..MaxGen
    BY <1>2
  <2> QED
    BY <1>1, <1>3, <2>1, <2>2, <2>3, <2>4, <2>5
<1> QED
  BY <1>4, <1>5

LEMMA WriteKeeps ==
    ASSUME LinkInv, service \in Services, UNCHANGED service, NEW c \in Callbacks, Write(c)
    PROVE  LinkInv'
<1>1. Ends(c) /\ UNCHANGED <<state, exchanged, verified>>
  BY DEF Write
<1>2. CASE UNCHANGED conn
  BY <1>1, <1>2, EndsKeeps
<1>3. CASE ~UNCHANGED conn
  <2>1. PICK o \in Owners, a \in Accounts, g \in 0..MaxGen :
           /\ conn' = [conn EXCEPT ![o] = [status |-> "connected", account |-> a, gen |-> g]]
           /\ service = "github" => <<o, a>> \in verified
           /\ service = "linkedin" => conn[o].account = a \/ (conn[o].account = None /\ CanCreate(o, a))
    BY <1>3, Written
  <2> DEFINE x == [status |-> "connected", account |-> a, gen |-> g]
  <2>2. x \in Connections /\ x.status = "connected" /\ x.account = a
    BY DEF Connections
  <2> HIDE DEF x
  <2>3. conn' = [conn EXCEPT ![o] = x]
    BY <2>1 DEF x
  <2>4. conn' \in [Owners -> Connections] /\ \A p \in Owners : conn'[p] = IF p = o THEN x ELSE conn[p]
    BY <2>2, <2>3, LinkState
  <2>5. MembersInv'
    BY <2>1, <2>2, <2>4 DEF LinkInv, MembersInv, CanCreate
  <2>6. ConnectedIsVerified'
    BY <1>1, <2>1, <2>2, <2>4 DEF LinkInv, ConnectedIsVerified
  <2>7. service = "linkedin" => \A p \in Owners : conn[p].account # None => conn'[p].account = conn[p].account
    BY <2>1, <2>2, <2>4
  <2>8. \A y \in CallbackRecords : GoodCallback(y) => GoodCallback(y)'
    <3> SUFFICES ASSUME NEW y \in CallbackRecords, GoodCallback(y) PROVE GoodCallback(y)'
      OBVIOUS
    <3>1. Carries(y)' /\ Exchanges(y)' /\ Confirmed(y)'
      BY <1>1 DEF GoodCallback, Carries, Exchanges, Confirmed
    <3>2. y.at = "write" => state[y.state].owner \in Owners /\ y.account \in Accounts
      BY DEF GoodCallback, Carries, UnderWay, LinkInv, StatesInv
    <3>3. Compared(y)'
      BY <1>1, <2>7, <3>2 DEF GoodCallback, Compared
    <3> QED
      BY <3>1, <3>3 DEF GoodCallback
  <2> DEFINE r == [Idle EXCEPT !.at = "done"]
  <2>9. r \in CallbackRecords /\ r.at = "done" /\ callback' = [callback EXCEPT ![c] = r]
    BY <1>1, IdleTyped DEF CallbackRecords, Ends
  <2> HIDE DEF r
  <2>10. GoodCallback(r)
    BY <2>9 DEF GoodCallback, Carries, Exchanges, Compared, Confirmed, UnderWay
  <2>11. \A d \in Callbacks : callback'[d] = IF d = c THEN r ELSE callback[d]
    BY <2>9, LinkState
  <2>12. ASSUME NEW d \in Callbacks PROVE GoodCallback(callback[d])'
    <3>1. PICK y \in CallbackRecords : y = callback'[d] /\ GoodCallback(y)
      BY <2>9, <2>10, <2>11, LinkState
    <3>2. GoodCallback(y)'
      BY <2>8, <3>1
    <3> QED
      BY <3>1, <3>2 DEF GoodCallback, Carries, Exchanges, Compared, Confirmed
  <2>13. CallbacksInv'
    BY <2>9, <2>11, <2>12 DEF LinkInv, CallbacksInv
  <2>14. StatesInv'
    BY <1>1 DEF LinkInv, StatesInv
  <2>15. LinkTypeOK'
    BY <1>1, <2>4, <2>9, LinkState DEF LinkTypeOK
  <2> QED
    BY <2>5, <2>6, <2>13, <2>14, <2>15 DEF LinkInv
<1> QED
  BY <1>2, <1>3

LEMMA DisconnectKeeps == ASSUME LinkInv, UNCHANGED service, Disconnect PROVE LinkInv'
<1>1. PICK o \in Owners :
        /\ conn[o].status # "none" /\ conn[o].gen < MaxGen
        /\ conn' = [conn EXCEPT ![o].status = "off", ![o].gen = @ + 1]
        /\ UNCHANGED <<state, callback, exchanged, verified>>
  BY DEF Disconnect
<1> DEFINE x == [conn[o] EXCEPT !.status = "off", !.gen = @ + 1]
<1>2. conn[o] \in Connections /\ conn[o].gen + 1 \in 0..MaxGen
  BY <1>1, LinkState DEF Connections
<1>3. x \in Connections /\ x.status = "off" /\ x.account = conn[o].account
  BY <1>2 DEF Connections
<1>4. conn' = [conn EXCEPT ![o] = x]
  BY <1>1, LinkState
<1> HIDE DEF x
<1>5. conn' \in [Owners -> Connections] /\ \A p \in Owners : conn'[p] = IF p = o THEN x ELSE conn[p]
  BY <1>3, <1>4, LinkState
<1>6. \A p \in Owners : conn'[p].account = conn[p].account /\ (conn'[p].status = "none" <=> conn[p].status = "none")
  BY <1>1, <1>3, <1>5
<1>7. ASSUME NEW d \in Callbacks PROVE GoodCallback(callback[d])'
  <2>1. PICK y \in CallbackRecords : y = callback[d] /\ GoodCallback(y)
    BY LinkState
  <2>2. Carries(y)' /\ Exchanges(y)' /\ Confirmed(y)'
    BY <1>1, <2>1 DEF GoodCallback, Carries, Exchanges, Confirmed
  <2>3. y.at = "write" => state[y.state].owner \in Owners
    BY <2>1 DEF GoodCallback, Carries, UnderWay, LinkInv, StatesInv
  <2>4. Compared(y)'
    BY <1>1, <1>6, <2>1, <2>3 DEF GoodCallback, Compared
  <2> QED
    BY <1>1, <2>1, <2>2, <2>4 DEF GoodCallback, Carries, Exchanges, Compared, Confirmed
<1>8. CallbacksInv'
  BY <1>1, <1>7 DEF LinkInv, CallbacksInv
<1>9. StatesInv'
  BY <1>1 DEF LinkInv, StatesInv
<1>10. MembersInv' /\ ConnectedIsVerified'
  <2>1. MembersInv'
    BY <1>6 DEF LinkInv, MembersInv
  <2>2. ConnectedIsVerified'
    BY <1>1, <1>6 DEF LinkInv, ConnectedIsVerified
  <2> QED
    BY <2>1, <2>2
<1>11. LinkTypeOK'
  BY <1>1, <1>5, LinkState DEF LinkTypeOK
<1> QED
  BY <1>8, <1>9, <1>10, <1>11 DEF LinkInv

\* Every step of connecting keeps the invariant.
LEMMA LinkStepKeeps == ASSUME LinkInv, service \in Services, UNCHANGED service, LinkNext PROVE LinkInv'
<1>1. CASE BeginRead \/ BeginStore \/ StateExpires \/ Disconnect
  BY <1>1, BeginReadKeeps, StateActionsKeep, DisconnectKeeps
<1>2. ASSUME NEW c \in Callbacks,
             \/ LinkedInArrives(c) \/ GithubArrives(c) \/ Verify(c) \/ SetInstallation(c) \/ Consume(c)
             \/ Exchange(c) \/ Lookup(c) \/ Write(c) \/ Breaks(c)
      PROVE  LinkInv'
  BY <1>2, LinkedInArrivesKeeps, GithubArrivesKeeps, VerifyKeeps, SetInstallationKeeps, ConsumeKeeps,
     ExchangeKeeps, LookupKeeps, WriteKeeps
<1> QED
  BY <1>1, <1>2 DEF LinkNext

\* A member is connected by one owner, and stays the owner's, in every step.
LEMMA MembersStay ==
    ASSUME LinkInv, service = "linkedin", service \in Services, UNCHANGED service, LinkNext
    PROVE  \A o \in Owners : conn[o].account # None => conn'[o].account = conn[o].account
<1>1. CASE Disconnect
  <2>1. PICK o \in Owners : conn' = [conn EXCEPT ![o].status = "off", ![o].gen = @ + 1]
    BY <1>1 DEF Disconnect
  <2>2. conn[o] \in Connections
    BY LinkState
  <2>3. [conn[o] EXCEPT !.status = "off", !.gen = @ + 1].account = conn[o].account
    BY <2>2 DEF Connections
  <2>4. conn' = [conn EXCEPT ![o] = [conn[o] EXCEPT !.status = "off", !.gen = @ + 1]]
    BY <2>1, LinkState
  <2>5. conn'[o].account = conn[o].account
    BY <2>3, <2>4, LinkState
  <2> QED
    BY <2>4, <2>5, LinkState
<1>2. ASSUME NEW c \in Callbacks, Write(c), ~UNCHANGED conn
      PROVE  \A o \in Owners : conn[o].account # None => conn'[o].account = conn[o].account
  <2>1. PICK o \in Owners, a \in Accounts, g \in 0..MaxGen :
           /\ conn' = [conn EXCEPT ![o] = [status |-> "connected", account |-> a, gen |-> g]]
           /\ conn[o].account = a \/ conn[o].account = None
    BY <1>2, Written
  <2> QED
    BY <2>1, LinkState
<1>3. ASSUME NEW c \in Callbacks,
             \/ LinkedInArrives(c) \/ GithubArrives(c) \/ Verify(c) \/ SetInstallation(c) \/ Consume(c)
             \/ Exchange(c) \/ Lookup(c) \/ Breaks(c)
      PROVE  UNCHANGED conn
  BY <1>3 DEF LinkedInArrives, GithubArrives, Verify, SetInstallation, Consume, Exchange, Lookup, Breaks
<1>4. BeginRead \/ BeginStore \/ StateExpires => UNCHANGED conn
  BY DEF BeginRead, BeginStore, StateExpires
<1> QED
  BY <1>1, <1>2, <1>3, <1>4 DEF LinkNext

-----------------------------------------------------------------------------
(* Synchronisation: what a pass has brought.                                *)

Cursors == Times \cup {0}
RepoProgress == [cursor : Cursors, page : Nat \ {0}, complete : BOOLEAN]
PassRecords == [at : {"idle", "repo", "fetch", "check", "store", "advance", "limit", "error", "done"},
                kind : Kinds, gen : 0..MaxGen, todo : SUBSET Repos, progress : [Repos -> RepoProgress],
                repo : Repos \cup {None}, since : Cursors, count : Nat, page : SUBSET Times,
                more : BOOLEAN, expected : SUBSET Times]
WriterRecords == [at : {"idle", "select", "connect", "done"}, gen : 0..MaxGen, repos : SUBSET Repos]

SyncOK ==
    /\ link \in [status : {"connected", "off"}, gen : 0..MaxGen, repos : SUBSET Repos]
    /\ writer \in [Writers -> WriterRecords]
    /\ sync \in [status : {"idle", "syncing", "error"}, limited : BOOLEAN]
    /\ progress \in [Repos -> RepoProgress]
    /\ listed \in [Repos -> SUBSET Times]
    /\ stored \in SUBSET (Repos \X Times)
    /\ pass \in [Passes -> PassRecords]

\* The page a pass has read, or reads next.
PageOf(p) == pass[p].progress[pass[p].repo].page
Stored(p, t) == <<pass[p].repo, t>> \in stored
\* It is still to come, on one of the pages after the first n.
ToCome(p, t, n) == n * PageSize < Cardinality(UpTo(p, t))

\* What is true of one pass: between two pages what has to be brought is stored or still to
\* come, however the listing has grown; while a page is in hand it may be on it.
Brought(p) ==
    /\ pass[p].at \in {"fetch", "check", "store", "advance"} =>
          /\ pass[p].repo \in Repos
          /\ \A t \in pass[p].expected : t \in listed[pass[p].repo] /\ IsNew(p, t)
    /\ pass[p].at = "fetch" => \A t \in pass[p].expected : Stored(p, t) \/ ToCome(p, t, PageOf(p) - 1)
    /\ pass[p].at \in {"check", "store"} =>
          \A t \in pass[p].expected :
             Stored(p, t) \/ t \in pass[p].page \/ (pass[p].more /\ ToCome(p, t, PageOf(p)))
    /\ pass[p].at = "advance" =>
          \A t \in pass[p].expected : Stored(p, t) \/ (pass[p].more /\ ToCome(p, t, PageOf(p)))

SyncInv == SyncOK /\ \A p \in Passes : Brought(p)

LEMMA SyncInitGood ==
    ASSUME link = [status |-> "connected", gen |-> 1, repos |-> Repos],
           writer = [w \in Writers |-> [at |-> "idle", gen |-> 0, repos |-> {}]],
           sync = [status |-> "idle", limited |-> FALSE], progress = [r \in Repos |-> Fresh],
           listed = [r \in Repos |-> {}], stored = {}, pass = [p \in Passes |-> AtRest]
    PROVE  SyncInv
<1>1. Fresh \in RepoProgress
  BY DEF Fresh, RepoProgress, Cursors
<1>2. AtRest \in PassRecords
  BY <1>1 DEF AtRest, PassRecords, Kinds, Cursors
<1>3. SyncOK
  BY <1>1, <1>2 DEF SyncOK, WriterRecords
<1>4. \A p \in Passes : Brought(p)
  BY DEF Brought, AtRest
<1> QED
  BY <1>3, <1>4 DEF SyncInv

LEMMA SyncState ==
    ASSUME SyncInv
    PROVE  /\ \A p \in Passes : pass[p] \in PassRecords
           /\ \A r \in Repos : progress[r] \in RepoProgress /\ listed[r] \in SUBSET Times
           /\ pass \in [Passes -> PassRecords] /\ progress \in [Repos -> RepoProgress]
           /\ listed \in [Repos -> SUBSET Times] /\ stored \in SUBSET (Repos \X Times)
           /\ writer \in [Writers -> WriterRecords]
           /\ link \in [status : {"connected", "off"}, gen : 0..MaxGen, repos : SUBSET Repos]
           /\ sync \in [status : {"idle", "syncing", "error"}, limited : BOOLEAN]
BY DEF SyncInv, SyncOK

\* A listing that grows puts nothing on an earlier page.
LEMMA Grows ==
    ASSUME NEW U \in SUBSET Times, NEW V \in SUBSET Times, U \subseteq V
    PROVE  /\ IsFiniteSet(U) /\ IsFiniteSet(V) /\ Cardinality(U) \in Nat /\ Cardinality(V) \in Nat
           /\ Cardinality(U) <= Cardinality(V)
BY ActivityAssumption, FS_Subset, FS_CardinalityType DEF ActivityAssumption

\* A pass that makes no step keeps what it knows, while listings and stored activities grow.
LEMMA OtherPass ==
    ASSUME SyncInv, NEW p \in Passes, pass'[p] = pass[p],
           listed' \in [Repos -> SUBSET Times], \A r \in Repos : listed[r] \subseteq listed'[r],
           stored \subseteq stored', Brought(p)
    PROVE  Brought(p)'
<1>1. pass[p] \in PassRecords
  BY SyncState
<1>2. pass[p].at \in {"fetch", "check", "store", "advance"} => pass[p].repo \in Repos
  BY DEF Brought
<1>3. CASE pass[p].at \in {"fetch", "check", "store", "advance"}
  <2>2. \A t : UpTo(p, t) \in SUBSET Times /\ UpTo(p, t)' \in SUBSET Times /\ UpTo(p, t) \subseteq UpTo(p, t)'
    BY <1>2, <1>3, SyncState DEF UpTo, Offered
  <2>3. PageOf(p)' = PageOf(p) /\ PageOf(p) \in Nat \ {0}
    BY <1>1, <1>2, <1>3 DEF PageOf, PassRecords, RepoProgress
  <2>4. \A t, n : n \in Nat /\ ToCome(p, t, n) => ToCome(p, t, n)'
    <3> SUFFICES ASSUME NEW t, NEW n \in Nat, ToCome(p, t, n) PROVE ToCome(p, t, n)'
      OBVIOUS
    <3>1. Cardinality(UpTo(p, t)) \in Nat /\ Cardinality(UpTo(p, t)') \in Nat
          /\ Cardinality(UpTo(p, t)) <= Cardinality(UpTo(p, t)')
      BY <2>2, Grows
    <3> QED
      BY <3>1, ActivityAssumption DEF ToCome, ActivityAssumption
  <2> QED
    BY <1>2, <1>3, <2>3, <2>4 DEF Brought, Stored, IsNew
<1>4. CASE pass[p].at \notin {"fetch", "check", "store", "advance"}
  BY <1>4 DEF Brought
<1> QED
  BY <1>3, <1>4

\* The steps of one pass: the others keep what they know.
LEMMA PassStep ==
    ASSUME SyncInv, NEW p \in Passes, NEW x \in PassRecords, pass' = [pass EXCEPT ![p] = x],
           UNCHANGED <<link, writer, listed>>,
           sync' \in [status : {"idle", "syncing", "error"}, limited : BOOLEAN],
           progress' \in [Repos -> RepoProgress], stored' \in SUBSET (Repos \X Times),
           stored \subseteq stored', Brought(p)'
    PROVE  SyncInv'
<1>1. SyncOK'
  BY SyncState DEF SyncOK
<1>2. ASSUME NEW q \in Passes PROVE Brought(q)'
  <2>1. CASE q = p
    BY <2>1
  <2>2. CASE q # p
    <3>1. pass'[q] = pass[q]
      BY <2>2, SyncState
    <3>2. Brought(q) /\ listed' = listed
      BY DEF SyncInv
    <3> QED
      BY <3>1, <3>2, OtherPass, SyncState
  <2> QED
    BY <2>1, <2>2
<1> QED
  BY <1>1, <1>2 DEF SyncInv

\* A pass that has nothing in hand.
LEMMA PassRests ==
    ASSUME SyncInv, NEW p \in Passes, NEW x \in PassRecords, pass' = [pass EXCEPT ![p] = x],
           x.at \notin {"fetch", "check", "store", "advance"},
           UNCHANGED <<link, writer, listed, progress, stored>>,
           sync' \in [status : {"idle", "syncing", "error"}, limited : BOOLEAN]
    PROVE  SyncInv'
<1>1. pass'[p] = x
  BY SyncState
<1>2. Brought(p)'
  BY <1>1 DEF Brought
<1> QED
  BY <1>2, PassStep, SyncState

LEMMA AtRestTyped == AtRest \in PassRecords /\ [AtRest EXCEPT !.at = "done"] \in PassRecords
<1>1. Fresh \in RepoProgress
  BY DEF Fresh, RepoProgress, Cursors
<1>2. AtRest \in PassRecords
  BY <1>1 DEF AtRest, PassRecords, Kinds, Cursors
<1> QED
  BY <1>2 DEF PassRecords

LEMMA MovesTyped ==
    ASSUME SyncInv, NEW p \in Passes,
           NEW place \in {"repo", "fetch", "check", "store", "advance", "limit", "error", "done"}
    PROVE  [pass[p] EXCEPT !.at = place] \in PassRecords
<1>1. pass[p] \in PassRecords
  BY SyncState
<1> QED
  BY <1>1 DEF PassRecords

LEMMA WritersKeep ==
    ASSUME SyncInv, NEW w \in Writers, WriterReads(w) \/ WriterWrites(w)
    PROVE  SyncInv'
<1>1. writer[w] \in WriterRecords /\ link.gen \in 0..MaxGen /\ link.repos \in SUBSET Repos
  BY SyncState
<1>2. /\ writer' \in [Writers -> WriterRecords]
      /\ link' \in [status : {"connected", "off"}, gen : 0..MaxGen, repos : SUBSET Repos]
  <2>1. CASE WriterReads(w)
    <3>1. CASE \E rs \in SUBSET Repos :
                 writer' = [writer EXCEPT ![w] = [at |-> "select", gen |-> link.gen, repos |-> rs]]
      <4>1. PICK rs \in SUBSET Repos :
                 writer' = [writer EXCEPT ![w] = [at |-> "select", gen |-> link.gen, repos |-> rs]]
        BY <3>1
      <4>2. [at |-> "select", gen |-> link.gen, repos |-> rs] \in WriterRecords
        BY <1>1 DEF WriterRecords
      <4> QED
        BY <2>1, <4>1, <4>2, SyncState DEF WriterReads
    <3>2. CASE writer' = [writer EXCEPT ![w] = [at |-> "connect", gen |-> link.gen, repos |-> link.repos]]
      <4>2. [at |-> "connect", gen |-> link.gen, repos |-> link.repos] \in WriterRecords
        BY <1>1 DEF WriterRecords
      <4> QED
        BY <2>1, <3>2, <4>2, SyncState DEF WriterReads
    <3> QED
      BY <2>1, <3>1, <3>2 DEF WriterReads
  <2>2. CASE WriterWrites(w)
    <3>1. [at |-> "done", gen |-> 0, repos |-> {}] \in WriterRecords
      BY DEF WriterRecords
    <3>2. writer[w].gen + 1 \in 0..MaxGen /\ writer[w].repos \in SUBSET Repos
      BY <1>1, <2>2 DEF WriterWrites, WriterRecords
    <3> QED
      BY <2>2, <3>1, <3>2, SyncState DEF WriterWrites
  <2> QED
    BY <2>1, <2>2
<1>3. UNCHANGED <<sync, progress, listed, stored, pass>>
  BY DEF WriterReads, WriterWrites
<1>4. SyncOK'
  BY <1>2, <1>3, SyncState DEF SyncOK
<1>5. \A q \in Passes : Brought(q)'
  BY <1>3, OtherPass, SyncState DEF SyncInv
<1> QED
  BY <1>4, <1>5 DEF SyncInv

LEMMA WorldKeeps ==
    ASSUME SyncInv, DisconnectGithub \/ Appears
    PROVE  SyncInv'
<1>1. UNCHANGED <<writer, sync, progress, stored, pass>>
  BY DEF DisconnectGithub, Appears
<1>2. link' \in [status : {"connected", "off"}, gen : 0..MaxGen, repos : SUBSET Repos]
  <2>1. CASE DisconnectGithub
    <3>1. link.gen + 1 \in 0..MaxGen /\ link \in [status : {"connected", "off"}, gen : 0..MaxGen, repos : SUBSET Repos]
      BY <2>1, SyncState DEF DisconnectGithub
    <3>2. link' = [link EXCEPT !.status = "off", !.gen = link.gen + 1]
      BY <2>1 DEF DisconnectGithub
    <3> QED
      BY <3>1, <3>2
  <2>2. CASE Appears
    BY <2>2, SyncState DEF Appears
  <2> QED
    BY <2>1, <2>2
<1>3. listed' \in [Repos -> SUBSET Times] /\ \A r \in Repos : listed[r] \subseteq listed'[r]
  <2>1. CASE DisconnectGithub
    BY <2>1, SyncState DEF DisconnectGithub
  <2>2. CASE Appears
    BY <2>2, SyncState DEF Appears
  <2> QED
    BY <2>1, <2>2
<1>4. SyncOK'
  BY <1>1, <1>2, <1>3, SyncState DEF SyncOK
<1>5. \A q \in Passes : Brought(q)'
  BY <1>1, <1>3, OtherPass, SyncState DEF SyncInv
<1> QED
  BY <1>4, <1>5 DEF SyncInv

LEMMA LaterKeeps ==
    ASSUME SyncInv, Later
    PROVE  SyncInv'
<1>1. UNCHANGED <<link, writer, progress, listed, stored>>
  BY DEF Later
<1>2. CASE sync.limited /\ sync' = [sync EXCEPT !.limited = FALSE] /\ UNCHANGED pass
  <2>1. SyncOK'
    BY <1>1, <1>2, SyncState DEF SyncOK
  <2>2. \A q \in Passes : Brought(q)'
    BY <1>1, <1>2, OtherPass, SyncState DEF SyncInv
  <2> QED
    BY <2>1, <2>2 DEF SyncInv
<1>3. CASE \E p \in Passes : pass[p].at = "done" /\ pass' = [pass EXCEPT ![p] = AtRest] /\ UNCHANGED sync
  <2>1. PICK p \in Passes : pass' = [pass EXCEPT ![p] = AtRest] /\ UNCHANGED sync
    BY <1>3
  <2>2. AtRest.at = "idle"
    BY DEF AtRest
  <2> QED
    BY <1>1, <2>1, <2>2, PassRests, AtRestTyped, SyncState
<1> QED
  BY <1>2, <1>3 DEF Later

LEMMA EndsRest ==
    ASSUME SyncInv, NEW p \in Passes, PassEnds(p), UNCHANGED <<link, writer, listed, progress, stored>>,
           sync' \in [status : {"idle", "syncing", "error"}, limited : BOOLEAN]
    PROVE  SyncInv'
<1>1. [AtRest EXCEPT !.at = "done"].at = "done"
  BY DEF AtRest
<1> QED
  BY <1>1, PassRests, AtRestTyped DEF PassEnds

LEMMA MovesRest ==
    ASSUME SyncInv, NEW p \in Passes, NEW place \in {"limit", "error"}, Moves(p, place),
           UNCHANGED <<link, writer, listed, progress, stored, sync>>
    PROVE  SyncInv'
<1> DEFINE x == [pass[p] EXCEPT !.at = place]
<1>1. x \in PassRecords
  BY MovesTyped
<1>2. x.at = place
  BY SyncState DEF PassRecords
<1>3. pass' = [pass EXCEPT ![p] = x]
  BY SyncState DEF Moves
<1> HIDE DEF x
<1> QED
  BY <1>1, <1>2, <1>3, PassRests, SyncState

LEMMA ClaimKeeps ==
    ASSUME SyncInv, NEW p \in Passes, Claim(p)
    PROVE  SyncInv'
<1>1. UNCHANGED <<link, writer, progress, listed, stored>>
  BY DEF Claim
<1>2. CASE CanClaimSync
  <2>1. PICK kind \in Kinds : pass' = [pass EXCEPT ![p] = [AtRest EXCEPT !.at = "repo", !.kind = kind,
                !.gen = link.gen, !.todo = link.repos, !.progress = progress]]
    BY <1>2 DEF Claim
  <2> DEFINE x == [AtRest EXCEPT !.at = "repo", !.kind = kind,
                !.gen = link.gen, !.todo = link.repos, !.progress = progress]
  <2>2. link.gen \in 0..MaxGen /\ link.repos \in SUBSET Repos /\ progress \in [Repos -> RepoProgress]
    BY SyncState
  <2>3. x \in PassRecords
    BY <2>2, AtRestTyped DEF PassRecords
  <2>4. x.at = "repo"
    BY DEF AtRest
  <2>5. sync' \in [status : {"idle", "syncing", "error"}, limited : BOOLEAN]
    BY <1>2, SyncState DEF Claim
  <2> HIDE DEF x
  <2> QED
    BY <1>1, <2>1, <2>3, <2>4, <2>5, PassRests DEF x
<1>3. CASE ~CanClaimSync
  BY <1>1, <1>3, EndsRest, SyncState DEF Claim
<1> QED
  BY <1>2, <1>3

LEMMA NextRepoKeeps ==
    ASSUME SyncInv, NEW p \in Passes, NextRepo(p)
    PROVE  SyncInv'
<1>1. UNCHANGED <<link, writer, sync, progress, listed, stored>>
  BY DEF NextRepo
<1>2. pass[p] \in PassRecords
  BY SyncState
<1>3. CASE IsCurrent(p)
  <2> DEFINE now(r) == LET last == pass[p].progress[r]
                       IN  IF last.complete THEN [cursor |-> last.cursor, page |-> 1, complete |-> FALSE] ELSE last
  <2>1. PICK r \in pass[p].todo :
             pass' = [pass EXCEPT ![p] = [@ EXCEPT
                !.at = "fetch", !.repo = r, !.since = pass[p].progress[r].cursor, !.count = 0,
                !.expected = {}, !.progress = [pass[p].progress EXCEPT ![r] = now(r)], !.todo = pass[p].todo \ {r}]]
    BY <1>3 DEF NextRepo
  <2> DEFINE x == [pass[p] EXCEPT !.at = "fetch", !.repo = r, !.since = pass[p].progress[r].cursor,
                                  !.count = 0, !.expected = {},
                                  !.progress = [pass[p].progress EXCEPT ![r] = now(r)], !.todo = pass[p].todo \ {r}]
  <2>2. r \in Repos /\ pass[p].progress \in [Repos -> RepoProgress] /\ pass[p].progress[r] \in RepoProgress
    BY <1>2 DEF PassRecords
  <2>3. now(r) \in RepoProgress
    BY <2>2 DEF RepoProgress
  <2>4. pass[p].progress[r].cursor \in Cursors
    BY <2>2 DEF RepoProgress
  <2>5. [pass[p].progress EXCEPT ![r] = now(r)] \in [Repos -> RepoProgress]
    BY <2>2, <2>3
  <2> HIDE DEF now
  <2>6. pass' = [pass EXCEPT ![p] = x]
    BY <2>1
  <2>7. x \in PassRecords
    <3>1. pass[p].todo \ {r} \in SUBSET Repos
      BY <1>2 DEF PassRecords
    <3>2. PICK c \in Cursors : c = pass[p].progress[r].cursor
      BY <2>4
    <3>3. PICK todo \in SUBSET Repos : todo = pass[p].todo \ {r}
      BY <3>1
    <3>4. PICK f \in [Repos -> RepoProgress] : f = [pass[p].progress EXCEPT ![r] = now(r)]
      BY <2>5
    <3>5. PICK q \in PassRecords : q = pass[p]
      BY <1>2
    <3>6. [q EXCEPT !.at = "fetch", !.repo = r, !.since = c, !.count = 0, !.expected = {}, !.progress = f,
                    !.todo = todo] \in PassRecords
      BY <2>2 DEF PassRecords
    <3> QED
      BY <3>2, <3>3, <3>4, <3>5, <3>6
  <2>8. x.repo = r /\ x.expected = {} /\ x.at = "fetch"
    BY <1>2 DEF PassRecords
  <2> HIDE DEF x
  <2>9. pass'[p] = x
    BY <2>6, SyncState
  <2>10. Brought(p)'
    BY <2>2, <2>8, <2>9 DEF Brought
  <2> QED
    BY <1>1, <2>6, <2>7, <2>10, PassStep, SyncState
<1>4. CASE ~IsCurrent(p)
  BY <1>1, <1>4, MovesRest DEF NextRepo
<1> QED
  BY <1>3, <1>4

\* The pages cut the listing in the order of the ranks: what comes after the first n - 1
\* pages is on the n-th, or a further page follows.
LEMMA OnThePage ==
    ASSUME SyncInv, NEW p \in Passes, pass[p].repo \in Repos, NEW n \in Nat \ {0}, NEW t \in Offered(p),
           ToCome(p, t, n - 1)
    PROVE  t \in Page(p, n).items \/ (Page(p, n).more /\ ToCome(p, t, n))
<1>1. Offered(p) \in SUBSET Times /\ UpTo(p, t) \in SUBSET Times /\ UpTo(p, t) \subseteq Offered(p)
  BY SyncState DEF UpTo, Offered
<1>2. /\ Cardinality(UpTo(p, t)) \in Nat /\ Cardinality(Offered(p)) \in Nat
      /\ Cardinality(UpTo(p, t)) <= Cardinality(Offered(p))
  BY <1>1, Grows
<1>3. n * PageSize \in Nat
  BY ActivityAssumption DEF ActivityAssumption
<1>4. PICK m \in Nat : m = n * PageSize
  BY <1>3
<1>5. CASE Cardinality(UpTo(p, t)) <= m
  BY <1>4, <1>5 DEF Page, ToCome
<1>6. CASE m < Cardinality(UpTo(p, t))
  <2>1. m < Cardinality(Offered(p))
    BY <1>2, <1>6
  <2> QED
    BY <1>4, <1>6, <2>1 DEF Page, ToCome
<1> QED
  BY <1>2, <1>5, <1>6

\* What is new is offered, and has a rank.
LEMMA NewIsOffered ==
    ASSUME SyncInv, NEW p \in Passes, pass[p].repo \in Repos, NEW t \in listed[pass[p].repo], IsNew(p, t)
    PROVE  t \in Offered(p) /\ ToCome(p, t, 0)
<1>1. t \in Times /\ t \in Nat /\ pass[p].since \in Nat
  <2>1. pass[p] \in PassRecords /\ t \in Times
    BY SyncState
  <2>2. pass[p].since \in Cursors
    BY <2>1 DEF PassRecords
  <2>3. t \in Nat /\ Cursors \subseteq Nat
    BY <2>1, ActivityAssumption DEF Cursors, ActivityAssumption
  <2> QED
    BY <2>1, <2>2, <2>3
<1>2. t \in Offered(p) /\ t \in UpTo(p, t)
  BY <1>1 DEF IsNew, Offered, UpTo
<1>3. UpTo(p, t) \in SUBSET Times
  BY SyncState DEF UpTo, Offered
<1>4. {t} \in SUBSET Times /\ {t} \subseteq UpTo(p, t)
  BY <1>1, <1>2
<1>5. Cardinality({t}) = 1
  BY FS_Singleton
<1>6. Cardinality(UpTo(p, t)) \in Nat /\ 1 <= Cardinality(UpTo(p, t))
  BY <1>3, <1>4, <1>5, Grows
<1>7. 0 * PageSize = 0
  BY ActivityAssumption DEF ActivityAssumption
<1> QED
  BY <1>2, <1>6, <1>7 DEF ToCome

LEMMA FetchKeeps ==
    ASSUME SyncInv, NEW p \in Passes, Fetch(p)
    PROVE  SyncInv'
<1> DEFINE r == pass[p].repo
           n == pass[p].progress[pass[p].repo].page
           e == IF n = 1 THEN {t \in listed[r] : IsNew(p, t)} ELSE pass[p].expected
           x == [pass[p] EXCEPT !.at = "check", !.page = Page(p, n).items, !.more = Page(p, n).more,
                                !.expected = e]
<1>1. pass[p] \in PassRecords /\ Brought(p) /\ pass[p].at = "fetch"
  BY SyncState DEF SyncInv, Fetch
<1>2. r \in Repos /\ listed[r] \in SUBSET Times
  BY <1>1, SyncState DEF Brought
<1>3. n \in Nat \ {0}
  BY <1>1, <1>2 DEF PageOf, PassRecords, RepoProgress
<1>4. pass' = [pass EXCEPT ![p] = x]
  BY DEF Fetch
<1>5. Page(p, n).items \in SUBSET Times /\ Page(p, n).more \in BOOLEAN
  BY <1>2 DEF Page, Offered
<1>6. e \in SUBSET Times /\ \A t \in e : t \in listed[r] /\ IsNew(p, t)
  BY <1>1, <1>2 DEF PassRecords, Brought
<1>7. \A t \in e : Stored(p, t) \/ ToCome(p, t, n - 1)
  <2>1. CASE n = 1
    BY <1>2, <1>6, <2>1, NewIsOffered
  <2>2. CASE n # 1
    BY <1>1, <2>2 DEF Brought, PageOf
  <2> QED
    BY <2>1, <2>2
<1>8. \A t \in e : Stored(p, t) \/ t \in Page(p, n).items \/ (Page(p, n).more /\ ToCome(p, t, n))
  BY <1>2, <1>3, <1>6, <1>7, OnThePage, NewIsOffered
<1> HIDE DEF e
<1>9. x \in PassRecords /\ x.at = "check" /\ x.page = Page(p, n).items /\ x.more = Page(p, n).more
      /\ x.expected = e /\ x.repo = r /\ x.since = pass[p].since /\ x.progress = pass[p].progress
      /\ x.kind = pass[p].kind
  <2>1. PICK q \in PassRecords : q = pass[p]
    BY <1>1
  <2>2. PICK items \in SUBSET Times, more \in BOOLEAN, ex \in SUBSET Times :
              items = Page(p, n).items /\ more = Page(p, n).more /\ ex = e
    BY <1>5, <1>6
  <2> DEFINE y == [q EXCEPT !.at = "check", !.page = items, !.more = more, !.expected = ex]
  <2>3. y \in PassRecords
    BY DEF PassRecords
  <2>4. y.at = "check" /\ y.page = items /\ y.more = more /\ y.expected = ex
        /\ y.repo = q.repo /\ y.since = q.since /\ y.progress = q.progress /\ y.kind = q.kind
    BY DEF PassRecords
  <2> QED
    BY <2>1, <2>2, <2>3, <2>4
<1> HIDE DEF x
<1>10. pass'[p] = x /\ UNCHANGED <<link, writer, sync, progress, listed, stored>>
  BY <1>4, SyncState DEF Fetch
<1>11. PICK m \in Nat \ {0} : m = n
  BY <1>3
<1>12. \A t : ToCome(p, t, m)' = ToCome(p, t, m)
  BY <1>9, <1>10 DEF ToCome, UpTo, Offered
<1>13. Brought(p)'
  <2>1. PageOf(p)' = m
    BY <1>9, <1>10, <1>11 DEF PageOf
  <2>2. \A t : Stored(p, t)' = Stored(p, t) /\ IsNew(p, t)' = IsNew(p, t)
    BY <1>9, <1>10 DEF Stored, IsNew
  <2>3. \A t \in e : Stored(p, t)' \/ t \in x.page \/ (x.more /\ ToCome(p, t, m)')
    BY <1>8, <1>9, <1>11, <1>12, <2>2
  <2> HIDE DEF n
  <2>4. \A t \in pass'[p].expected :
           Stored(p, t)' \/ t \in pass'[p].page \/ (pass'[p].more /\ ToCome(p, t, PageOf(p))')
    BY <1>9, <1>10, <2>1, <2>3
  <2> QED
    BY <1>2, <1>6, <1>9, <1>10, <2>2, <2>4 DEF Brought
<1> QED
  BY <1>4, <1>9, <1>10, <1>13, PassStep, SyncState

\* A pass that goes on with the page in hand.
LEMMA InHand ==
    ASSUME SyncInv, NEW p \in Passes, NEW place \in {"store", "advance"}, pass[p].at \in {"check", "store"},
           Moves(p, place), UNCHANGED <<link, writer, sync, progress, listed>>,
           stored \subseteq stored', stored' \in SUBSET (Repos \X Times),
           place = "advance" => \A t \in pass[p].expected : t \in pass[p].page => <<pass[p].repo, t>> \in stored'
    PROVE  SyncInv'
<1> DEFINE x == [pass[p] EXCEPT !.at = place]
<1>1. pass[p] \in PassRecords /\ Brought(p)
  BY SyncState DEF SyncInv
<1>2. x \in PassRecords
  BY MovesTyped
<1>3. /\ x.at = place /\ x.page = pass[p].page /\ x.more = pass[p].more /\ x.expected = pass[p].expected
      /\ x.repo = pass[p].repo /\ x.since = pass[p].since /\ x.progress = pass[p].progress
      /\ x.kind = pass[p].kind
  BY <1>1 DEF PassRecords
<1>4. pass' = [pass EXCEPT ![p] = x]
  BY SyncState DEF Moves
<1> HIDE DEF x
<1>5. pass'[p] = x
  BY <1>4, SyncState
<1>6. \A t, n : ToCome(p, t, n)' = ToCome(p, t, n)
  BY <1>3, <1>5 DEF ToCome, UpTo, Offered
<1>7. PageOf(p)' = PageOf(p) /\ \A t : IsNew(p, t)' = IsNew(p, t) /\ (Stored(p, t) => Stored(p, t)')
  BY <1>3, <1>5 DEF PageOf, IsNew, Stored
<1>8. place = "advance" => \A t \in pass[p].expected : t \in pass[p].page => Stored(p, t)'
  BY <1>3, <1>5 DEF Stored
<1>9. Brought(p)'
  BY <1>1, <1>3, <1>5, <1>6, <1>7, <1>8 DEF Brought
<1> QED
  BY <1>2, <1>4, <1>9, PassStep, SyncState

LEMMA CheckKeeps ==
    ASSUME SyncInv, NEW p \in Passes, Check(p)
    PROVE  SyncInv'
<1>1. UNCHANGED <<link, writer, sync, progress, listed, stored>> /\ pass[p].at = "check"
  BY DEF Check
<1>2. CASE IsCurrent(p)
  BY <1>1, <1>2, InHand, SyncState DEF Check
<1>3. CASE ~IsCurrent(p)
  BY <1>1, <1>3, MovesRest DEF Check
<1> QED
  BY <1>2, <1>3

LEMMA StoreKeeps ==
    ASSUME SyncInv, NEW p \in Passes, Store(p)
    PROVE  SyncInv'
<1>1. pass[p] \in PassRecords /\ Brought(p) /\ pass[p].at = "store"
  BY SyncState DEF SyncInv, Store
<1>2. pass[p].repo \in Repos /\ pass[p].page \in SUBSET Times
  BY <1>1 DEF Brought, PassRecords
<1>3. stored' = stored \cup {<<pass[p].repo, t>> : t \in {u \in pass[p].page : IsNew(p, u)}}
  BY DEF Store
<1>4. stored \subseteq stored' /\ stored' \in SUBSET (Repos \X Times)
  BY <1>2, <1>3, SyncState
<1>5. \A t \in pass[p].expected : t \in pass[p].page => <<pass[p].repo, t>> \in stored'
  BY <1>1, <1>3 DEF Brought
<1> QED
  BY <1>1, <1>4, <1>5, InHand DEF Store

LEMMA AdvanceKeeps ==
    ASSUME SyncInv, NEW p \in Passes, Advance(p)
    PROVE  SyncInv'
<1> DEFINE r == pass[p].repo
           more == pass[p].more
           count == pass[p].count + 1
           place == IF count < MaxPages /\ more THEN "fetch" ELSE "repo"
<1>1. pass[p] \in PassRecords /\ Brought(p) /\ pass[p].at = "advance"
  BY SyncState DEF SyncInv, Advance
<1>2. /\ r \in Repos /\ pass[p].progress \in [Repos -> RepoProgress] /\ pass[p].progress[r] \in RepoProgress
      /\ count \in Nat /\ more \in BOOLEAN /\ pass[p].since \in Cursors /\ pass[p].page \in SUBSET Times
  BY <1>1 DEF Brought, PassRecords
<1>3. PICK newest \in pass[p].page \cup {pass[p].progress[r].cursor} :
         LET now == [cursor |-> newest, page |-> IF more THEN NextPage(p) ELSE 1, complete |-> ~more]
         IN  /\ progress' = [pass[p].progress EXCEPT ![r] = now]
             /\ pass' = [pass EXCEPT ![p] = [@ EXCEPT
                        !.progress = [pass[p].progress EXCEPT ![r] = now], !.count = count, !.page = {},
                        !.since = NextSince(p, newest), !.at = place]]
  BY DEF Advance
<1> DEFINE now == [cursor |-> newest, page |-> IF more THEN NextPage(p) ELSE 1, complete |-> ~more]
           f == [pass[p].progress EXCEPT ![r] = now]
           x == [pass[p] EXCEPT !.progress = f, !.count = count, !.page = {}, !.since = pass[p].since,
                                !.at = place]
<1>4. now \in RepoProgress
  BY <1>2 DEF RepoProgress, Cursors, NextPage
<1>5. pass' = [pass EXCEPT ![p] = x] /\ progress' = f
  BY <1>3 DEF NextSince
<1>6. now.page = IF more THEN PageOf(p) + 1 ELSE 1
  BY DEF NextPage, PageOf
<1> HIDE DEF now
<1>7. f \in [Repos -> RepoProgress] /\ f[r] = now
  BY <1>2, <1>4
<1> HIDE DEF f
<1>8. place \in {"fetch", "repo"}
  OBVIOUS
<1>9. x \in PassRecords /\ x.at = place /\ x.expected = pass[p].expected /\ x.repo = r
      /\ x.since = pass[p].since /\ x.progress = f /\ x.kind = pass[p].kind
  <2>1. PICK q \in PassRecords : q = pass[p]
    BY <1>1
  <2>2. PICK g \in [Repos -> RepoProgress], c \in Nat, s \in Cursors, w \in {"fetch", "repo"} :
              g = f /\ c = count /\ s = pass[p].since /\ w = place
    BY <1>2, <1>7, <1>8
  <2> DEFINE y == [q EXCEPT !.progress = g, !.count = c, !.page = {}, !.since = s, !.at = w]
  <2>3. y \in PassRecords
    BY DEF PassRecords
  <2>4. /\ y.at = w /\ y.expected = q.expected /\ y.repo = q.repo /\ y.since = s /\ y.progress = g
        /\ y.kind = q.kind
    BY DEF PassRecords
  <2> QED
    BY <2>1, <2>2, <2>3, <2>4
<1> HIDE DEF x
<1>10. pass'[p] = x /\ UNCHANGED <<link, writer, sync, listed, stored>>
  BY <1>5, SyncState DEF Advance
<1>11. Brought(p)'
  <2>1. CASE place = "repo"
    BY <1>9, <1>10, <2>1 DEF Brought
  <2>2. CASE place = "fetch"
    <3>1. more
      BY <2>2
    <3>2. PICK n \in Nat \ {0} : n = PageOf(p)
      BY <1>2 DEF PageOf, RepoProgress
    <3>3. PageOf(p)' - 1 = n
      BY <1>6, <1>7, <1>9, <1>10, <3>1, <3>2 DEF PageOf
    <3>4. \A t : ToCome(p, t, n)' = ToCome(p, t, n)
      BY <1>9, <1>10 DEF ToCome, UpTo, Offered
    <3>5. \A t : Stored(p, t)' = Stored(p, t) /\ IsNew(p, t)' = IsNew(p, t)
      BY <1>9, <1>10 DEF Stored, IsNew
    <3>6. \A t \in pass[p].expected : Stored(p, t) \/ ToCome(p, t, n)
      BY <1>1, <3>2 DEF Brought
    <3>7. \A t \in pass'[p].expected : Stored(p, t)' \/ ToCome(p, t, PageOf(p) - 1)'
      BY <1>9, <1>10, <3>3, <3>4, <3>5, <3>6
    <3> QED
      BY <1>1, <1>2, <1>9, <1>10, <2>2, <3>5, <3>7 DEF Brought
  <2> QED
    BY <1>8, <2>1, <2>2
<1> QED
  BY <1>5, <1>7, <1>9, <1>10, <1>11, PassStep, SyncState

LEMMA FinishKeeps ==
    ASSUME SyncInv, NEW p \in Passes, Finish(p)
    PROVE  SyncInv'
<1>1. sync' \in [status : {"idle", "syncing", "error"}, limited : BOOLEAN]
  BY SyncState DEF Finish
<1> QED
  BY <1>1, EndsRest DEF Finish

\* Every step of a synchronisation keeps it.
LEMMA SyncStepKeeps ==
    ASSUME SyncInv, SyncNext
    PROVE  SyncInv'
<1>1. ASSUME NEW p \in Passes, Throws(p) PROVE SyncInv'
  BY <1>1, MovesRest DEF Throws
<1>2. ASSUME NEW p \in Passes, PassDies(p) PROVE SyncInv'
  BY <1>2, EndsRest, SyncState DEF PassDies
<1> QED
  BY <1>1, <1>2, WorldKeeps, LaterKeeps, WritersKeep, ClaimKeeps, NextRepoKeeps, FetchKeeps, CheckKeeps,
     StoreKeeps, AdvanceKeeps, FinishKeeps DEF SyncNext

\* What the invariant says of the last page.
LEMMA BroughtIsComplete ==
    ASSUME SyncInv
    PROVE  PassIsComplete
BY DEF SyncInv, Brought, PassIsComplete, Stored

-----------------------------------------------------------------------------
(* Conversion: what a mark stands on.                                       *)

ConvertInv ==
    /\ activity \in [claim : Converters \cup {None}, old : BOOLEAN, marked : BOOLEAN]
    /\ signals \in 0..1
    /\ converter \in [Converters -> {"idle", "find", "claim", "make", "recover", "mark", "answered", "refused"}]
    /\ activity.marked \/ (\E c \in Converters : converter[c] \in {"mark", "answered"}) => signals = 1

\* Only the one who found or made the Signal goes on to mark the activity.
LEMMA ConvertStepKeeps ==
    ASSUME ConvertInv, ConversionNext
    PROVE  ConvertInv'
<1>1. CASE ClaimGrowsOld
  <2>1. activity' \in [claim : Converters \cup {None}, old : BOOLEAN, marked : BOOLEAN]
        /\ activity'.marked = activity.marked
    BY <1>1 DEF ClaimGrowsOld, ConvertInv
  <2>2. UNCHANGED <<signals, converter>>
    BY <1>1 DEF ClaimGrowsOld
  <2> QED
    BY <2>1, <2>2 DEF ConvertInv
<1>2. ASSUME NEW c \in Converters, ConvertRead(c) \/ ConvertFind(c) \/ ConvertRecover(c) \/ AsksAgain(c)
             \/ ConvertBreaks(c)
      PROVE  ConvertInv'
  <2>1. PICK place \in {"idle", "find", "claim", "recover", "mark", "answered", "refused"} :
           /\ Goes(c, place)
           /\ place = "answered" => activity.marked
           /\ place = "mark" => signals > 0
    BY <1>2 DEF ConvertRead, ConvertFind, ConvertRecover, AsksAgain, ConvertBreaks
  <2>2. UNCHANGED <<activity, signals>>
    BY <1>2 DEF ConvertRead, ConvertFind, ConvertRecover, AsksAgain, ConvertBreaks
  <2>3. /\ converter' \in [Converters -> {"idle", "find", "claim", "make", "recover", "mark", "answered", "refused"}]
        /\ \A d \in Converters : converter'[d] = IF d = c THEN place ELSE converter[d]
    BY <2>1 DEF Goes, ConvertInv
  <2>4. signals > 0 => signals = 1
    BY DEF ConvertInv
  <2> QED
    BY <2>1, <2>2, <2>3, <2>4 DEF ConvertInv
<1>3. ASSUME NEW c \in Converters, ConvertClaim(c)
      PROVE  ConvertInv'
  <2>1. PICK place \in {"make", "recover"} : Goes(c, place)
    BY <1>3 DEF ConvertClaim
  <2>2. activity' \in [claim : Converters \cup {None}, old : BOOLEAN, marked : BOOLEAN]
        /\ activity'.marked = activity.marked /\ UNCHANGED signals
    <3>1. activity \in [claim : Converters \cup {None}, old : BOOLEAN, marked : BOOLEAN]
      BY DEF ConvertInv
    <3>2. activity' = activity \/ activity' = [activity EXCEPT !.claim = c, !.old = FALSE]
      BY <1>3 DEF ConvertClaim
    <3> QED
      BY <1>3, <3>1, <3>2 DEF ConvertClaim
  <2>3. /\ converter' \in [Converters -> {"idle", "find", "claim", "make", "recover", "mark", "answered", "refused"}]
        /\ \A d \in Converters : converter'[d] = IF d = c THEN place ELSE converter[d]
    BY <2>1 DEF Goes, ConvertInv
  <2> QED
    BY <2>1, <2>2, <2>3 DEF ConvertInv
<1>4. ASSUME NEW c \in Converters, ConvertMake(c)
      PROVE  ConvertInv'
  <2>1. PICK place \in {"mark", "recover"} : Goes(c, place) /\ (place = "mark" => CanMake)
    BY <1>4 DEF ConvertMake
  <2>2. /\ converter' \in [Converters -> {"idle", "find", "claim", "make", "recover", "mark", "answered", "refused"}]
        /\ \A d \in Converters : converter'[d] = IF d = c THEN place ELSE converter[d]
    BY <2>1 DEF Goes, ConvertInv
  <2>3. CASE CanMake
    BY <1>4, <2>2, <2>3 DEF ConvertMake, CanMake, ConvertInv
  <2>4. CASE ~CanMake
    <3>1. place = "recover" /\ UNCHANGED <<activity, signals>>
      BY <1>4, <2>1, <2>4 DEF ConvertMake
    <3> QED
      BY <2>2, <3>1 DEF ConvertInv
  <2> QED
    BY <2>3, <2>4
<1>5. ASSUME NEW c \in Converters, ConvertMark(c)
      PROVE  ConvertInv'
  <2>1. signals = 1 /\ UNCHANGED signals /\ Goes(c, "answered")
    BY <1>5 DEF ConvertMark, ConvertInv
  <2>2. activity' \in [claim : Converters \cup {None}, old : BOOLEAN, marked : BOOLEAN]
    BY <1>5 DEF ConvertMark, ConvertInv
  <2>3. converter' \in [Converters -> {"idle", "find", "claim", "make", "recover", "mark", "answered", "refused"}]
    BY <2>1 DEF Goes, ConvertInv
  <2> QED
    BY <2>1, <2>2, <2>3 DEF ConvertInv
<1> QED
  BY <1>1, <1>2, <1>3, <1>4, <1>5 DEF ConversionNext, ConvertStep

-----------------------------------------------------------------------------
(* The three together.                                                      *)

GithubInv == service \in Services \cup Further /\ LinkInv /\ SyncInv /\ ConvertInv

LEMMA LinkRests == ASSUME LinkInv, UNCHANGED <<service, linking>> PROVE LinkInv'
<1>1. LinkTypeOK'
  BY DEF LinkInv, LinkTypeOK, linking
<1>2. CallbacksInv'
  BY DEF LinkInv, CallbacksInv, GoodCallback, Carries, Exchanges, Compared, Confirmed, linking
<1>3. StatesInv' /\ MembersInv' /\ ConnectedIsVerified'
  BY DEF LinkInv, StatesInv, MembersInv, ConnectedIsVerified, linking
<1> QED
  BY <1>1, <1>2, <1>3 DEF LinkInv

LEMMA SyncRests == ASSUME SyncInv, UNCHANGED syncing PROVE SyncInv'
<1>1. SyncOK'
  BY SyncState DEF SyncOK, syncing
<1>2. \A p \in Passes : Brought(p)'
  BY OtherPass, SyncState DEF SyncInv, syncing
<1> QED
  BY <1>1, <1>2 DEF SyncInv

LEMMA ConvertRests == ASSUME ConvertInv, UNCHANGED converting PROVE ConvertInv'
BY DEF ConvertInv, converting

LEMMA GithubInitGood == Init => GithubInv
<1> SUFFICES ASSUME Init PROVE GithubInv
  OBVIOUS
<1>1. service \in Services \cup Further /\ LinkInv
  BY LinkInitGood DEF Init, LinkInit
<1>2. SyncInv
  BY SyncInitGood DEF Init
<1>3. ConvertInv
  BY DEF Init, ConvertInv
<1> QED
  BY <1>1, <1>2, <1>3 DEF GithubInv

LEMMA GithubStepKeeps == GithubInv /\ [Next]_vars => GithubInv'
<1> SUFFICES ASSUME GithubInv, [Next]_vars PROVE GithubInv'
  OBVIOUS
<1>1. UNCHANGED service
  BY DEF Next, vars
<1>2. CASE service \in Services /\ LinkNext /\ UNCHANGED <<syncing, converting>>
  BY <1>1, <1>2, LinkStepKeeps, SyncRests, ConvertRests DEF GithubInv
<1>3. CASE SyncNext /\ UNCHANGED <<linking, converting>>
  BY <1>1, <1>3, LinkRests, SyncStepKeeps, ConvertRests DEF GithubInv
<1>4. CASE ConversionNext /\ UNCHANGED <<linking, syncing>>
  BY <1>1, <1>4, LinkRests, SyncRests, ConvertStepKeeps DEF GithubInv
<1>5. CASE UNCHANGED vars
  BY <1>5, LinkRests, SyncRests, ConvertRests DEF GithubInv, vars
<1> QED
  BY <1>2, <1>3, <1>4, <1>5 DEF Next

LEMMA GithubInvariance == Spec => []GithubInv
BY GithubInitGood, GithubStepKeeps, PTL DEF Spec

\* The state of the synchronisation and of the conversion has its type.
THEOREM TypeCorrect == Spec => []TypeOK
<1>1. GithubInv => TypeOK
  BY DEF GithubInv, SyncInv, SyncOK, RepoProgress, Cursors, ConvertInv, TypeOK
<1> QED
  BY <1>1, GithubInvariance, PTL

\* The code of an OAuth state is exchanged once, by the session that asked for the state,
\* however many callbacks read it as open before one of them uses it; and an owner is
\* connected only to an installation that GitHub confirmed for them.
THEOREM CallbacksAreBound == Spec => []StatesBindCallbacks
<1>1. GithubInv => ExchangedOnce
  <2> SUFFICES ASSUME GithubInv, NEW s \in States, NEW o \in Owners
               PROVE  exchanged[s][o] <= IF state[s].owner = o THEN 1 ELSE 0
    BY DEF ExchangedOnce
  <2>1. exchanged[s][o] \in 0..1
    BY DEF GithubInv, LinkInv, LinkTypeOK
  <2>2. exchanged[s][o] # 0 => state[s].owner = o
    BY DEF GithubInv, LinkInv, StatesInv
  <2> QED
    BY <2>1, <2>2
<1>2. GithubInv => ConnectedIsVerified
  BY DEF GithubInv, LinkInv
<1>3. GithubInv => StatesBindCallbacks
  BY <1>1, <1>2 DEF StatesBindCallbacks
<1> QED
  BY <1>3, GithubInvariance, PTL

\* A LinkedIn member is one owner's, and an owner's member is never exchanged for another.
THEOREM MemberStays == Spec => OneMemberPerOwner
<1>1. GithubInv /\ GithubInv' /\ [Next]_vars =>
        [ service = "linkedin" =>
            /\ \A o, p \in Owners : conn'[o].account = conn'[p].account => o = p \/ conn'[o].account = None
            /\ \A o \in Owners : conn[o].account # None => conn'[o].account = conn[o].account ]_conn
  <2> SUFFICES ASSUME GithubInv, GithubInv', [Next]_vars, service = "linkedin", ~UNCHANGED conn
               PROVE  /\ \A o, p \in Owners : conn'[o].account = conn'[p].account
                                                 => o = p \/ conn'[o].account = None
                      /\ \A o \in Owners : conn[o].account # None => conn'[o].account = conn[o].account
    OBVIOUS
  <2>1. service \in Services /\ LinkNext /\ UNCHANGED service
    BY DEF Next, vars, linking
  <2>2. \A o, p \in Owners : conn'[o].account = conn'[p].account => o = p \/ conn'[o].account = None
    BY <2>1 DEF GithubInv, LinkInv, MembersInv
  <2> QED
    BY <2>1, <2>2, MembersStay DEF GithubInv
<1> QED
  BY <1>1, GithubInvariance, PTL DEF Spec, OneMemberPerOwner

\* A pass that read the first page and then the last one has stored all that it had to bring,
\* in any repository, whatever the page size and however the listing grew in between.
THEOREM NothingIsLeftOut == Spec => []PassIsComplete
<1>1. GithubInv => PassIsComplete
  BY BroughtIsComplete DEF GithubInv
<1> QED
  BY <1>1, GithubInvariance, PTL

\* An activity makes at most one Signal, and none is marked or answered with before it is made.
THEOREM OneSignalOfAnActivity == Spec => []OneSignal
<1>1. GithubInv => OneSignal
  BY DEF GithubInv, ConvertInv, OneSignal
<1> QED
  BY <1>1, GithubInvariance, PTL
=============================================================================
