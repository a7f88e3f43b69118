-------------------------- MODULE AccountConnections --------------------------
(***************************************************************************)
(* How an owner's LinkedIn or GitHub account is connected: the single-use   *)
(* OAuth states, the callbacks that follow them, and disconnection          *)
(* (services/linkedin-connection.service.ts, github-account.service.ts).    *)
(* The two services have one shape and share no record; a behaviour is of   *)
(* one of them.  An account is a LinkedIn member, or an installation of the *)
(* GitHub App.  Every owner has one session.                                *)
(***************************************************************************)
EXTENDS Naturals, FiniteSets

CONSTANTS
    Services,       \* \subseteq {"linkedin", "github"}
    Owners,
    Accounts,
    States,         \* OAuth states that may be issued
    Callbacks,      \* requests to the callback routes
    None,
    MaxGen          \* bound on the generations of a connection

ASSUME ConnectionAssumption ==
    /\ Services \subseteq {"linkedin", "github"}
    /\ None \notin Owners /\ None \notin Accounts /\ None \notin States
    /\ MaxGen \in Nat \ {0}

VARIABLES
    service,
    conn,           \* of each owner: status, account, connectionGeneration
    state,          \* the OAuth states: owner, generation, status, pendingInstallationId
    callback,       \* the callbacks, with what they keep across awaits
    exchanged,      \* by which owners' sessions the code of a state was exchanged, and how often
    verified        \* installations GitHub knew when they were set in a state of the owner

linking == <<conn, state, callback, exchanged, verified>>

NoConnection == [status |-> "none", account |-> None, gen |-> 0]
NoState == [owner |-> None, gen |-> 0, status |-> "free", pending |-> None]
Idle == [at |-> "idle", state |-> None, account |-> None, session |-> None, existing |-> FALSE, gen |-> 0]

Connections == [status : {"none", "connected", "off"}, account : Accounts \cup {None}, gen : 0..MaxGen]
OauthStates == [owner : Owners \cup {None}, gen : 0..MaxGen,
                status : {"free", "issuing", "open", "expired", "used"}, pending : Accounts \cup {None}]
CallbackRecords == [at : {"idle", "verify", "set", "consume", "exchange", "lookup", "write", "done"},
                    state : States \cup {None}, account : Accounts \cup {None},
                    session : Owners \cup {None}, existing : BOOLEAN, gen : 0..MaxGen]

LinkTypeOK ==
    /\ conn \in [Owners -> Connections]
    /\ state \in [States -> OauthStates]
    /\ callback \in [Callbacks -> CallbackRecords]
    /\ exchanged \in [States -> [Owners -> 0..1]]
    /\ verified \in SUBSET (Owners \X Accounts)

LinkIdle ==
    /\ conn = [o \in Owners |-> NoConnection]
    /\ state = [s \in States |-> NoState]
    /\ callback = [c \in Callbacks |-> Idle]
    /\ exchanged = [s \in States |-> [o \in Owners |-> 0]]
    /\ verified = {}

LinkInit == service \in Services /\ LinkIdle

-----------------------------------------------------------------------------
(* Starting.                                                                *)

\* The generation is read, then the state is stored.
BeginRead ==
    \E o \in Owners, s \in States :
        /\ state[s].status = "free"
        /\ state' = [state EXCEPT ![s] = [NoState EXCEPT !.owner = o, !.gen = conn[o].gen, !.status = "issuing"]]
        /\ UNCHANGED <<conn, callback, exchanged, verified>>

BeginStore ==
    \E s \in States :
        /\ state[s].status = "issuing"
        /\ state' = [state EXCEPT ![s].status = "open"]
        /\ UNCHANGED <<conn, callback, exchanged, verified>>

\* Ten minutes pass.
StateExpires ==
    \E s \in States :
        /\ state[s].status = "open"
        /\ state' = [state EXCEPT ![s].status = "expired"]
        /\ UNCHANGED <<conn, callback, exchanged, verified>>

-----------------------------------------------------------------------------
(* The callback.                                                            *)

OwnerOf(c) == state[callback[c].state].owner
At(c, place) == callback' = [callback EXCEPT ![c].at = place]
\* The callback answers with a redirect; of what it has read nothing matters any more.
Ends(c) == callback' = [callback EXCEPT ![c] = [Idle EXCEPT !.at = "done"]]

\* Mutant: any session may use a state.
IsOpen_Anyone(s, session) == state[s].status = "open"

\* The filter of findGithubOauthState and, at this time, of the consuming updates.
IsOpen(s, session) == state[s].status = "open" /\ state[s].owner = session

\* completeLinkedInConnection up to the consent: a state is consumed before anything else,
\* also when LinkedIn was refused.
LinkedInArrives(c) ==
    /\ service = "linkedin" /\ callback[c].at = "idle"
    /\ \E s \in States, session \in Owners :
          IF IsOpen(s, session)
          THEN /\ state' = [state EXCEPT ![s].status = "used"]
               /\ \/ Ends(c)
                  \/ callback' = [callback EXCEPT ![c] = [Idle EXCEPT !.at = "exchange", !.state = s,
                                                                      !.session = session]]
          ELSE Ends(c) /\ UNCHANGED state
    /\ UNCHANGED <<conn, exchanged, verified>>

\* completeGithubAccountConnection: the state is found; the installation is the one of the
\* address or the one set before; without a code it is verified, with one it is connected.
GithubArrives(c) ==
    /\ service = "github" /\ callback[c].at = "idle"
    /\ \E s \in States, session \in Owners, given \in Accounts \cup {None}, place \in {"verify", "consume"} :
          LET installation == IF given # None THEN given ELSE state[s].pending
          IN  IF IsOpen(s, session) /\ installation # None
              THEN callback' = [callback EXCEPT ![c] = [Idle EXCEPT !.at = place, !.state = s,
                                                       !.account = installation, !.session = session]]
              ELSE Ends(c)
    /\ UNCHANGED <<conn, state, exchanged, verified>>

\* GitHub is asked for the installation: it is one of the App, or not.
Verify(c) ==
    /\ callback[c].at = "verify"
    /\ At(c, "set") \/ Ends(c)
    /\ UNCHANGED <<conn, state, exchanged, verified>>

\* setGithubOauthInstallation and the redirect to the authorization.  That the state had not
\* expired was decided by the time the callback started at.
SetInstallation(c) ==
    /\ callback[c].at = "set"
    /\ LET s == callback[c].state
       IN  IF state[s].status = "used" THEN UNCHANGED <<state, verified>>
           ELSE /\ state' = [state EXCEPT ![s].pending = callback[c].account]
                /\ verified' = verified \cup {<<OwnerOf(c), callback[c].account>>}
    /\ Ends(c)
    /\ UNCHANGED <<conn, exchanged>>

\* Mutant: what was set in the state is not compared.
IsPending_Any(c) == TRUE

IsPending(c) == state[callback[c].state].pending = callback[c].account

\* Mutant: a state that was read as open may be used again.
CanConsume_Again(s) == TRUE

CanConsume(s) == state[s].status # "used"

\* consumeGithubOauthState, and the comparison with what was set in the state.
Consume(c) ==
    /\ callback[c].at = "consume"
    /\ LET s == callback[c].state
       IN  IF CanConsume(s)
           THEN /\ state' = [state EXCEPT ![s].status = "used"]
                /\ IF IsPending(c) THEN At(c, "exchange") ELSE Ends(c)
           ELSE Ends(c) /\ UNCHANGED state
    /\ UNCHANGED <<conn, exchanged, verified>>

\* exchangeCode and getMemberIdentity: LinkedIn names a member, or the client throws.
LinkedInIdentifies == Accounts \cup {None}

\* exchangeUserCode, the user and the user's installations: without the installation asked for
\* the callback fails.
GithubIdentifies(c) == {callback[c].account, None}

\* The code is exchanged, and the provider asked whose it is.
Exchange(c) ==
    /\ callback[c].at = "exchange"
    /\ exchanged' = [exchanged EXCEPT ![callback[c].state][callback[c].session] = @ + 1]
    /\ \E a \in IF service = "linkedin" THEN LinkedInIdentifies ELSE GithubIdentifies(c) :
          IF a = None THEN Ends(c)
          ELSE callback' = [callback EXCEPT ![c].at = "lookup", ![c].account = a]
    /\ UNCHANGED <<conn, state, verified>>

\* Mutant: a member may be exchanged for another.
IsSameMember_Any(o, a) == TRUE

IsSameMember(o, a) == service = "linkedin" => conn[o].account = a

\* The connection is read: a state of an earlier generation is stale, and the member of a
\* LinkedIn connection stays.
Lookup(c) ==
    /\ callback[c].at = "lookup"
    /\ LET o == OwnerOf(c)
           existing == conn[o].status # "none"
       IN  IF existing => /\ conn[o].gen = state[callback[c].state].gen
                          /\ IsSameMember(o, callback[c].account)
           THEN \/ Ends(c)
                \/ callback' = [callback EXCEPT ![c].at = "write", ![c].existing = existing, ![c].gen = conn[o].gen]
           ELSE Ends(c)
    /\ UNCHANGED <<conn, state, exchanged, verified>>

\* Mutant: no index on the member.
CanCreate_AnyMember(o, a) == conn[o].status = "none"

\* The unique indexes: one connection of an owner and, for LinkedIn, one of a member.
CanCreate(o, a) ==
    /\ conn[o].status = "none"
    /\ service = "linkedin" => \A p \in Owners : conn[p].account # a

\* The connection is written: over whatever it has become since the lookup, or created.
\* The member of a LinkedIn connection is immutable, and the one compared.
Write(c) ==
    /\ callback[c].at = "write" /\ callback[c].gen < MaxGen
    /\ LET o == OwnerOf(c)
           a == callback[c].account
       IN  IF callback[c].existing \/ CanCreate(o, a)
           THEN conn' = [conn EXCEPT ![o] = [status |-> "connected", account |-> a, gen |-> callback[c].gen + 1]]
           ELSE UNCHANGED conn
    /\ Ends(c)
    /\ UNCHANGED <<state, exchanged, verified>>

\* The process dies, or a call to the database or the provider throws.
Breaks(c) ==
    /\ callback[c].at \notin {"idle", "done"}
    /\ Ends(c)
    /\ UNCHANGED <<conn, state, exchanged, verified>>

\* disconnectLinkedInConnection, disconnectGithubConnection.
Disconnect ==
    \E o \in Owners :
        /\ conn[o].status # "none" /\ conn[o].gen < MaxGen
        /\ conn' = [conn EXCEPT ![o].status = "off", ![o].gen = @ + 1]
        /\ UNCHANGED <<state, callback, exchanged, verified>>

LinkNext ==
    \/ BeginRead \/ BeginStore \/ StateExpires \/ Disconnect
    \/ \E c \in Callbacks :
          \/ LinkedInArrives(c) \/ GithubArrives(c) \/ Verify(c) \/ SetInstallation(c) \/ Consume(c)
          \/ Exchange(c) \/ Lookup(c) \/ Write(c) \/ Breaks(c)

-----------------------------------------------------------------------------
(* Properties *)

\* A LinkedIn member is connected by one owner, and an owner's connection never passes to
\* another member, whoever's callbacks overlap.
OneMemberPerOwner ==
    [][ service = "linkedin" =>
          /\ \A o, p \in Owners : conn'[o].account = conn'[p].account => o = p \/ conn'[o].account = None
          /\ \A o \in Owners : conn[o].account # None => conn'[o].account = conn[o].account ]_conn

\* A state's code is exchanged at most once, and by no other owner.
ExchangedOnce ==
    \A s \in States, o \in Owners : exchanged[s][o] <= IF state[s].owner = o THEN 1 ELSE 0

\* An owner's installation was verified for that owner.
ConnectedIsVerified ==
    service = "github" => \A o \in Owners : conn[o].account # None => <<o, conn[o].account>> \in verified

\* A state pays for one exchange, made by the session that asked for it, although GitHub's
\* callback reads the state, asks GitHub and only then consumes it; and the installation an
\* owner is connected to is one that GitHub confirmed and that was set in a state of theirs,
\* although the address of the second callback may name any other, and a third may set
\* another in between.
StatesBindCallbacks == ExchangedOnce /\ ConnectedIsVerified
=============================================================================
