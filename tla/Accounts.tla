------------------------------- MODULE Accounts -------------------------------
(***************************************************************************)
(* Accounts: a login that registers (auth.go, login, loginOrRegister), the *)
(* master's own listing (masters.go, ensureMasterDirectoryEntry), and what *)
(* a starting server does with the profiles it finds (main.go,             *)
(* ensureDemoUsers).                                                       *)
(* Together they implement the account directory of module Directory.      *)
(*                                                                         *)
(* An account is a users row, UNIQUE(phone_norm, role), that names a       *)
(* profile.  Registration inserts the profile, for a master the listing,   *)
(* and then the user, with no transaction around them: each statement may  *)
(* interleave with others, fail, or be the last one before a crash.        *)
(* A server may start after a crash or, in a deployment, beside a serving  *)
(* one.                                                                    *)
(***************************************************************************)
EXTENDS Integers, Sequences, FiniteSets

CONSTANTS Keys,        \* pairs of a phone and a role
          MasterKeys,  \* those whose role is master
          Requests,    \* requests of clients, sent again until they succeed
          Workloads,   \* what they may ask: a [kind, key, named] for each request
          MaxFaults,   \* bound: failed statements and crashes
          MaxStarts    \* bound: deployments

Calls == [kind : {"login", "listing"}, key : Keys, named : BOOLEAN]

ASSUME AccountsAssumption ==
    /\ MasterKeys \subseteq Keys
    /\ Workloads \subseteq [Requests -> Calls]
    /\ \A w \in Workloads, r \in Requests : w[r].kind = "listing" => w[r].key \in MasterKeys
    /\ {MaxFaults, MaxStarts} \subseteq Nat

VARIABLES owner,     \* profiles: the phone and role of each, by id
          listings,  \* profiles with a row in masters, UNIQUE(profile_id)
          users,     \* the profile of each account, 0 before there is one
          up,        \* a server answers requests
          boot,      \* a server is starting
          todo,      \* profiles it still has to upsert
          pc,        \* the next statement of each request
          op,        \* what it asks
          held,      \* the profile it works on
          answer,    \* what the client was told
          given,     \* the profile of the session it was given
          faults, starts,  \* counters for the bounds
          troubled,  \* history: accounts with a failed or overlapping login
          adopted,   \* history: accounts written by a starting server
          moved      \* history: accounts that changed their profile

tables == <<owner, listings, users>>
server == <<up, boot, todo>>
request == <<pc, op, held, answer, given>>
history == <<faults, starts, troubled, adopted, moved>>
vars == <<tables, server, request, history>>

Ids == 1..Len(owner)
Key(r) == op[r].key
Running(r) == pc[r] \notin {"idle", "done"}

Goto(r, next) == pc' = [pc EXCEPT ![r] = next] /\ UNCHANGED answer

Finish(r, outcome) ==
    /\ pc' = [pc EXCEPT ![r] = "done"]
    /\ answer' = [answer EXCEPT ![r] = outcome]
-----------------------------------------------------------------------------
Init ==
    /\ owner = <<>>
    /\ listings = {}
    /\ users = [k \in Keys |-> 0]
    /\ up = TRUE /\ boot = "idle" /\ todo = {}
    /\ pc = [r \in Requests |-> "idle"]
    /\ op \in Workloads
    /\ held = [r \in Requests |-> 0]
    /\ answer = [r \in Requests |-> "none"]
    /\ given = [r \in Requests |-> 0]
    /\ faults = 0 /\ starts = 0
    /\ troubled = {} /\ adopted = {} /\ moved = {}

\* The client sends its request; one about a listing needs an account.
Send(r) ==
    /\ pc[r] = "idle"
    /\ up
    /\ op[r].kind = "listing" => users[Key(r)] # 0
    /\ Goto(r, IF op[r].kind = "login" THEN "lookup" ELSE "resolve")
    /\ troubled' = IF \E o \in Requests \ {r} : Running(o) /\ Key(o) = Key(r)
                                                /\ op[o].kind = "login"
                   THEN troubled \cup {Key(r)} ELSE troubled
    /\ UNCHANGED <<tables, server, op, held, given, faults, starts, adopted, moved>>

\* It is tried again after an error, or when no answer came.
Retry(r) ==
    /\ pc[r] = "done"
    /\ answer[r] \in {"error", "lost"}
    /\ Goto(r, "idle")
    /\ UNCHANGED <<tables, server, op, held, given, history>>

\* userByPhoneRole, where an error counts as "no such user".
UnknownAsksAgain(r) == Finish(r, "registrationRequired")
Unknown(r) ==
    IF op[r].named THEN Goto(r, "profile") ELSE Finish(r, "registrationRequired")

KnownNever(r) == FALSE
Known(r) == users[Key(r)] # 0

Lookup(r) ==
    /\ pc[r] = "lookup"
    /\ IF Known(r)
       THEN Goto(r, "issue") /\ held' = [held EXCEPT ![r] = users[Key(r)]]
       ELSE Unknown(r) /\ UNCHANGED held
    /\ UNCHANGED <<tables, server, op, given, history>>

LookupFails(r) ==
    /\ pc[r] = "lookup"
    /\ faults < MaxFaults
    /\ faults' = faults + 1
    /\ troubled' = troubled \cup {Key(r)}
    /\ Unknown(r)
    /\ UNCHANGED <<tables, server, op, held, given, starts, adopted, moved>>

\* createProfileForNewUser; masters go on to their listing.
NewIdOfPrevious == Len(owner)
NewId == Len(owner) + 1

AfterProfileUser(r) == "user"
AfterProfile(r) == IF Key(r) \in MasterKeys THEN "find" ELSE "user"

InsertProfile(r) ==
    /\ pc[r] = "profile"
    /\ owner' = Append(owner, Key(r))
    /\ held' = [held EXCEPT ![r] = NewId]
    /\ Goto(r, AfterProfile(r))
    /\ UNCHANGED <<listings, users, server, op, given, history>>

\* A request about the own listing: currentUserProfile.
Resolve(r) ==
    /\ pc[r] = "resolve"
    /\ held' = [held EXCEPT ![r] = users[Key(r)]]
    /\ Goto(r, "find")
    /\ UNCHANGED <<tables, server, op, given, history>>

\* ensureMasterDirectoryEntry: look the listing up ...
AfterListingSession(r) == IF op[r].kind = "login" THEN "issue" ELSE "show"
AfterListing(r) == IF op[r].kind = "login" THEN "user" ELSE "show"

FindListing(r) ==
    /\ pc[r] = "find"
    /\ Goto(r, IF held[r] \in listings THEN AfterListing(r) ELSE "entry")
    /\ UNCHANGED <<tables, server, op, held, given, history>>

\* ... and insert it, which fails if it is there by now.
InsertListing(r) ==
    /\ pc[r] = "entry"
    /\ IF held[r] \in listings
       THEN Finish(r, "error") /\ UNCHANGED listings
       ELSE Goto(r, AfterListing(r)) /\ listings' = listings \cup {held[r]}
    /\ UNCHANGED <<owner, users, server, op, held, given, history>>

\* INSERT INTO users meets the unique index if the account exists by now.
TakenNever(r) == FALSE
Taken(r) == users[Key(r)] # 0

InsertUser(r) ==
    /\ pc[r] = "user"
    /\ IF Taken(r)
       THEN Finish(r, "error") /\ UNCHANGED users
       ELSE Goto(r, "issue") /\ users' = [users EXCEPT ![Key(r)] = held[r]]
    /\ UNCHANGED <<owner, listings, server, op, held, given, history>>

\* issueAuthResponse: the answer shows the profile of the user row in hand.
Issue(r) ==
    /\ pc[r] = "issue"
    /\ given' = [given EXCEPT ![r] = held[r]]
    /\ Finish(r, "ok")
    /\ UNCHANGED <<tables, server, op, held, history>>

Show(r) ==
    /\ pc[r] = "show"
    /\ Finish(r, "ok")
    /\ UNCHANGED <<tables, server, op, held, given, history>>

\* Any other statement fails; what was inserted stays.
Fail(r) ==
    /\ Running(r) /\ pc[r] # "lookup"
    /\ faults < MaxFaults
    /\ faults' = faults + 1
    /\ troubled' = troubled \cup {Key(r)}
    /\ Finish(r, "error")
    /\ UNCHANGED <<tables, server, op, held, given, starts, adopted, moved>>

\* The serving process is killed; requests under way get no answer.
Crash ==
    /\ up
    /\ faults < MaxFaults
    /\ faults' = faults + 1
    /\ up' = FALSE
    /\ pc' = [r \in Requests |-> IF Running(r) THEN "done" ELSE pc[r]]
    /\ answer' = [r \in Requests |-> IF Running(r) THEN "lost" ELSE answer[r]]
    /\ troubled' = troubled \cup {Key(r) : r \in {q \in Requests : Running(q)}}
    /\ UNCHANGED <<tables, boot, todo, op, held, given, starts, adopted, moved>>
-----------------------------------------------------------------------------
(* ensureDemoUsers of a starting server.                                   *)

\* It reads all profiles: after a crash, or in a deployment.
ReadProfiles ==
    /\ boot = "idle"
    /\ ~up \/ starts < MaxStarts
    /\ starts' = IF up THEN starts + 1 ELSE starts
    /\ boot' = "upsert"
    /\ todo' = Ids
    /\ UNCHANGED <<tables, up, request, faults, troubled, adopted, moved>>

\* INSERT ... ON CONFLICT(phone_norm, role) DO UPDATE SET profile_id, for one
\* profile after the other, in the order the query returned them.
UpsertUser(p) ==
    /\ boot = "upsert"
    /\ p \in todo
    /\ todo' = todo \ {p}
    /\ users' = [users EXCEPT ![owner[p]] = p]
    /\ adopted' = IF users[owner[p]] = p THEN adopted ELSE adopted \cup {owner[p]}
    /\ moved' = IF users[owner[p]] \in {0, p} THEN moved ELSE moved \cup {owner[p]}
    /\ UNCHANGED <<owner, listings, up, boot, request, faults, starts, troubled>>

Serve ==
    /\ boot = "upsert"
    /\ todo = {}
    /\ boot' = "idle"
    /\ up' = TRUE
    /\ UNCHANGED <<tables, todo, request, history>>

\* An upsert fails, which ends the starting process.
StartFails ==
    /\ boot = "upsert"
    /\ faults < MaxFaults
    /\ faults' = faults + 1
    /\ boot' = "idle"
    /\ todo' = {}
    /\ UNCHANGED <<tables, up, request, starts, troubled, adopted, moved>>
-----------------------------------------------------------------------------
Step(r) ==
    \/ Lookup(r) \/ InsertProfile(r) \/ Resolve(r) \/ FindListing(r) \/ InsertListing(r)
    \/ InsertUser(r) \/ Issue(r) \/ Show(r)

Starting == ReadProfiles \/ Serve \/ \E p \in todo : UpsertUser(p)

Next ==
    \/ \E r \in Requests : Send(r) \/ Retry(r) \/ Step(r) \/ LookupFails(r) \/ Fail(r)
    \/ Crash \/ Starting \/ StartFails

Spec == Init /\ [][Next]_vars

\* Goroutines are scheduled, a server that stopped is started again, and
\* clients try again.
FairSpec ==
    /\ Spec
    /\ WF_vars(Starting)
    /\ \A r \in Requests : WF_vars(Send(r) \/ Step(r) \/ Retry(r))
-----------------------------------------------------------------------------
(* Properties.                                                             *)

PCs == {"idle", "lookup", "profile", "resolve", "find", "entry", "user", "issue", "show",
        "done"}
Answers == {"none", "ok", "registrationRequired", "error", "lost"}

\* Types; an account, and a request at work on a profile, have one of their own
\* phone and role.
TypeOK ==
    /\ owner \in Seq(Keys)
    /\ listings \subseteq Ids
    /\ users \in [Keys -> {0} \cup Ids]
    /\ up \in BOOLEAN
    /\ boot \in {"idle", "upsert"}
    /\ todo \subseteq Ids
    /\ pc \in [Requests -> PCs]
    /\ op \in Workloads
    /\ held \in [Requests -> {0} \cup Ids]
    /\ answer \in [Requests -> Answers]
    /\ given \in [Requests -> {0} \cup Ids]
    /\ faults \in 0..MaxFaults /\ starts \in 0..MaxStarts
    /\ {troubled, adopted, moved} \subseteq SUBSET Keys
    /\ \A k \in Keys : users[k] # 0 => owner[users[k]] = k
    /\ \A r \in Requests : pc[r] \in {"find", "entry", "user", "issue"} =>
           held[r] # 0 /\ owner[held[r]] = Key(r)

\* Logins that raced each other, or came one after the other, and were let in
\* all entered one account; it stays the account of that phone and role until
\* a starting server moves it.
LoginsAgree ==
    \A r \in Requests :
        op[r].kind = "login" /\ answer[r] = "ok" /\ Key(r) \notin moved =>
            given[r] = users[Key(r)]

\* A starting server moves an account to another profile, leaving its money and
\* its listing behind, only if a login of that phone failed, was cut short or
\* ran beside another one: otherwise there is one profile to find.
MovedOnlyAfterTrouble ==
    /\ moved \subseteq troubled
    /\ \A k \in Keys \ troubled : Cardinality({p \in Ids : owner[p] = k}) <= 1

\* "Every real master has somewhere for responses to attribute to" (masters.go):
\* true of accounts that a login made; a profile without a listing becomes an
\* account only when a starting server adopts it.
MasterHasListing ==
    \A k \in MasterKeys : users[k] # 0 /\ k \notin adopted => users[k] \in listings

\* Clients that give their name and try again after errors get in, whatever
\* earlier attempts left behind.
EveryLoginGetsIn ==
    <>(\A r \in Requests : op[r].kind = "login" /\ op[r].named => answer[r] = "ok")

D == INSTANCE Directory WITH profiles <- Len(owner), account <- users,
                             who <- [r \in Requests |-> Key(r)], session <- given,
                             unsettled <- troubled

\* Registrations and logins, statement by statement, through races, failures
\* and starting servers, are single steps of the directory: one statement makes
\* the account, one lets the login in, and only a starting server moves it.
ImplementsDirectory == D!DirectorySpec
=============================================================================
