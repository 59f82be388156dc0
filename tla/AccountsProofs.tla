---------------------------- MODULE AccountsProofs ----------------------------
(***************************************************************************)
(* Machine-checked safety of module Accounts, for any phones, requests and *)
(* workloads, any number of failures, crashes and starting servers.        *)
(*                                                                         *)
(* That a starting server finds one profile for an account nobody had      *)
(* trouble with rests on whose work the profiles without an account are:   *)
(* each is claimed by the one login of its phone that is still running.    *)
(***************************************************************************)
EXTENDS Accounts, FiniteSetTheorems, SequenceTheorems, TLAPS

Login(r) == op[r].kind = "login"
Claiming == {"find", "entry", "user"}

\* What a request may be doing, by its kind.
KindOfStep ==
    \A r \in Requests :
        /\ pc[r] \in {"lookup", "profile", "user", "issue"} => Login(r)
        /\ pc[r] \in {"resolve", "show"} => ~Login(r)
        /\ pc[r] # "done" => answer[r] # "ok"
        /\ answer[r] # "ok" => given[r] = 0
        /\ Running(r) /\ ~Login(r) => users[Key(r)] # 0

\* A login about to answer, or let in, has an account, and holds its profile.
SessionInHand ==
    \A r \in Requests :
        /\ pc[r] = "issue" => /\ users[Key(r)] # 0
                              /\ Key(r) \notin moved => held[r] = users[Key(r)]
        /\ Login(r) /\ answer[r] = "ok" => users[Key(r)] # 0

\* A master is registered only after its listing.
ListingInHand ==
    \A r \in Requests :
        pc[r] = "user" /\ Key(r) \in MasterKeys => held[r] \in listings

\* Logins of a phone without trouble come one after the other.
Alone ==
    \A r, o \in Requests :
        /\ Login(r) /\ Running(r)
        /\ Login(o) /\ Running(o)
        /\ Key(o) = Key(r) /\ Key(r) \notin troubled
        => o = r

\* Without trouble a phone has one profile, ...
OneProfile ==
    \A p, q \in Ids : owner[p] = owner[q] /\ owner[p] \notin troubled => p = q

\* ... none when a login sets out to make it, ...
NoProfileYet ==
    \A r \in Requests, p \in Ids :
        pc[r] = "profile" /\ Key(r) \notin troubled => owner[p] # Key(r)

\* ... and until the account exists, that login is still running, ...
Claimed ==
    \A p \in Ids :
        owner[p] \notin troubled /\ users[owner[p]] = 0 =>
            \E r \in Requests : Login(r) /\ pc[r] \in Claiming /\ Key(r) = owner[p]

\* ... past the listing if there is one.
Listed ==
    \A p \in listings :
        owner[p] \notin troubled /\ users[owner[p]] = 0 =>
            \E r \in Requests : Login(r) /\ pc[r] = "user" /\ held[r] = p

Registrations ==
    /\ moved \subseteq troubled
    /\ Alone
    /\ OneProfile
    /\ NoProfileYet
    /\ Claimed
    /\ Listed

Sessions ==
    /\ KindOfStep
    /\ SessionInHand
    /\ ListingInHand
    /\ LoginsAgree
    /\ MasterHasListing

IInv == TypeOK /\ Sessions /\ Registrations
-----------------------------------------------------------------------------
\* Workloads ask for accounts, and an account is a phone with a role.
LEMMA CallType ==
    ASSUME op \in Workloads
    PROVE  \A r \in Requests : /\ Key(r) \in Keys
                               /\ op[r].kind \in {"login", "listing"}
                               /\ op[r].named \in BOOLEAN
BY AccountsAssumption DEF Calls, Key

\* Profiles have an owner.
LEMMA OwnerType ==
    ASSUME owner \in Seq(Keys)
    PROVE  Len(owner) \in Nat /\ \A p \in Ids : owner[p] \in Keys
BY DEF Ids

\* The server starts in a good state.
LEMMA InitIInv == Init => IInv
<1> SUFFICES ASSUME Init
             PROVE  IInv
  OBVIOUS
<1>1. Ids = {}
  BY DEF Init, Ids
<1>2. TypeOK
  BY <1>1, AccountsAssumption DEF Init, TypeOK, PCs, Answers
<1>3. Sessions
  BY AccountsAssumption
     DEF Init, Sessions, KindOfStep, SessionInHand, ListingInHand, LoginsAgree,
         MasterHasListing, Running
<1>4. Registrations
  BY <1>1 DEF Init, Registrations, Alone, OneProfile, NoProfileYet, Claimed, Listed, Running
<1> QED
  BY <1>2, <1>3, <1>4 DEF IInv

\* A step that inserts nothing keeps the claims, if a login that begins runs
\* alone, one that sets out to register finds no profile, and none gives its
\* claim up without trouble or an account.
LEMMA ClaimsKept ==
    ASSUME IInv, UNCHANGED <<tables, op, moved>>, troubled \subseteq troubled',
           \A r \in Requests :
              Key(r) \notin troubled' =>
                 /\ Login(r) /\ Running(r)' /\ ~Running(r) =>
                       \A o \in Requests \ {r} :
                          ~(Login(o) /\ Running(o)' /\ Key(o) = Key(r))
                 /\ pc'[r] = "profile" /\ pc[r] # "profile" =>
                       \A p \in Ids : owner[p] # Key(r)
                 /\ Login(r) /\ pc[r] \in Claiming /\ users[Key(r)] = 0 =>
                       /\ pc'[r] \in Claiming /\ held'[r] = held[r]
                       /\ pc[r] = "user" => pc'[r] = "user"
    PROVE  Registrations'
<1> USE DEF tables, IInv, Registrations
<1>1. (moved \subseteq troubled)'
  OBVIOUS
<1>2. Alone'
  BY DEF Alone, Key, Login
<1>3. OneProfile'
  BY DEF OneProfile, Ids
<1>4. NoProfileYet'
  BY DEF NoProfileYet, Ids, Key
<1>5. Claimed'
  <2> SUFFICES ASSUME NEW p \in Ids, owner[p] \notin troubled', users[owner[p]] = 0
               PROVE  \E r \in Requests :
                         Login(r) /\ pc'[r] \in Claiming /\ Key(r) = owner[p]
    BY DEF Claimed, Ids, Login, Key
  <2>1. PICK r \in Requests : Login(r) /\ pc[r] \in Claiming /\ Key(r) = owner[p]
    BY DEF Claimed
  <2> QED
    BY <2>1
<1>6. Listed'
  <2> SUFFICES ASSUME NEW p \in listings, owner[p] \notin troubled', users[owner[p]] = 0
               PROVE  \E r \in Requests : Login(r) /\ pc'[r] = "user" /\ held'[r] = p
    BY DEF Listed, Login
  <2>1. PICK r \in Requests : Login(r) /\ pc[r] = "user" /\ held[r] = p
    BY DEF Listed
  <2>2. Key(r) = owner[p] /\ pc[r] \in Claiming
    BY <2>1 DEF TypeOK, Claiming
  <2> QED
    BY <2>1, <2>2
<1> QED
  BY <1>1, <1>2, <1>3, <1>4, <1>5, <1>6
-----------------------------------------------------------------------------
(* One lemma per action.                                                   *)

\* A request is sent; a login beside another one of its phone is trouble.
LEMMA SendIInv ==
    ASSUME IInv, NEW r \in Requests, Send(r)
    PROVE  IInv'
<1> USE DEF IInv, Send, Goto, tables, server
<1>1. /\ pc[r] = "idle" /\ pc'[r] \in {"lookup", "resolve"}
      /\ Login(r) => pc'[r] = "lookup"
      /\ ~Login(r) => pc'[r] = "resolve" /\ users[Key(r)] # 0
      /\ \A s \in Requests \ {r} : pc'[s] = pc[s]
      /\ pc' = [pc EXCEPT ![r] = pc'[r]]
  BY CallType DEF TypeOK, Login
<1>2. TypeOK'
  BY <1>1, CallType DEF TypeOK, Ids, Key, PCs, Answers
<1>3. Sessions'
  BY <1>1 DEF Sessions, KindOfStep, SessionInHand, ListingInHand, LoginsAgree,
              MasterHasListing, Running, Login, Key
<1>4. /\ troubled \subseteq troubled'
      /\ Key(r) \notin troubled' =>
            \A o \in Requests \ {r} : ~(Running(o) /\ Key(o) = Key(r) /\ Login(o))
  BY DEF Login
<1>5. Registrations'
  BY <1>1, <1>4, ClaimsKept DEF Running, Claiming
<1> QED
  BY <1>2, <1>3, <1>5

\* A failed request begins again.
LEMMA RetryIInv ==
    ASSUME IInv, NEW r \in Requests, Retry(r)
    PROVE  IInv'
<1> USE DEF IInv, Retry, Goto, tables, server, history
<1>1. /\ pc[r] = "done" /\ pc' = [pc EXCEPT ![r] = "idle"] /\ answer[r] # "ok"
      /\ pc'[r] = "idle" /\ \A s \in Requests \ {r} : pc'[s] = pc[s]
  BY DEF TypeOK
<1>2. TypeOK'
  BY <1>1 DEF TypeOK, Ids, Key, PCs, Answers
<1>3. Sessions'
  BY <1>1 DEF Sessions, KindOfStep, SessionInHand, ListingInHand, LoginsAgree,
              MasterHasListing, Running, Login, Key
<1>4. Registrations'
  BY <1>1, ClaimsKept DEF Running, Claiming
<1> QED
  BY <1>2, <1>3, <1>4

\* The lookup finds the account, or a registration begins with no profile yet.
LEMMA LookupIInv ==
    ASSUME IInv, NEW r \in Requests, Lookup(r)
    PROVE  IInv'
<1> USE DEF IInv, Lookup, Unknown, Goto, Finish, tables, server, history
<1>1. pc[r] = "lookup" /\ Login(r)
  BY DEF Sessions, KindOfStep
<1>2. /\ \A s \in Requests \ {r} : pc'[s] = pc[s] /\ answer'[s] = answer[s] /\ held'[s] = held[s]
      /\ \/ /\ pc'[r] = "issue" /\ users[Key(r)] # 0 /\ held'[r] = users[Key(r)]
            /\ answer'[r] = answer[r]
         \/ pc'[r] = "profile" /\ users[Key(r)] = 0 /\ answer'[r] = answer[r] /\ held' = held
         \/ pc'[r] = "done" /\ answer'[r] = "registrationRequired" /\ held' = held
  BY DEF TypeOK, Known
<1>3. TypeOK'
  <2>1. /\ held' \in [Requests -> {0} \cup Ids]
        /\ pc' \in [Requests -> PCs] /\ answer' \in [Requests -> Answers]
    BY CallType DEF TypeOK, PCs, Answers
  <2>2. users[Key(r)] # 0 => owner[users[Key(r)]] = Key(r)
    BY CallType DEF TypeOK
  <2> QED
    BY <1>1, <1>2, <2>1, <2>2 DEF TypeOK, Ids, Key
<1>4. Sessions'
  BY <1>1, <1>2 DEF Sessions, KindOfStep, SessionInHand, ListingInHand, LoginsAgree,
              MasterHasListing, Running, Login, Key, TypeOK
<1>5. ASSUME Key(r) \notin troubled, users[Key(r)] = 0, NEW p \in Ids
      PROVE  owner[p] # Key(r)
  <2> SUFFICES ASSUME owner[p] = Key(r)
               PROVE  FALSE
    OBVIOUS
  <2>1. PICK o \in Requests : Login(o) /\ pc[o] \in Claiming /\ Key(o) = Key(r)
    BY <1>5 DEF Registrations, Claimed
  <2>2. o = r
    BY <1>1, <1>5, <2>1 DEF Registrations, Alone, Running, Claiming
  <2> QED
    BY <1>1, <2>1, <2>2 DEF Claiming
<1>6. Registrations'
  BY <1>1, <1>2, <1>5, ClaimsKept DEF Running, Claiming
<1> QED
  BY <1>3, <1>4, <1>6

\* A lookup that fails is trouble.
LEMMA LookupFailsIInv ==
    ASSUME IInv, NEW r \in Requests, LookupFails(r)
    PROVE  IInv'
<1> USE DEF IInv, LookupFails, Unknown, Goto, Finish, tables, server
<1>1. pc[r] = "lookup" /\ Login(r)
  BY DEF Sessions, KindOfStep
<1>2. /\ \A s \in Requests \ {r} : pc'[s] = pc[s] /\ answer'[s] = answer[s]
      /\ \/ pc'[r] = "profile" /\ answer'[r] = answer[r]
         \/ pc'[r] = "done" /\ answer'[r] = "registrationRequired"
  BY DEF TypeOK
<1>3. TypeOK'
  <2>1. pc' \in [Requests -> PCs] /\ answer' \in [Requests -> Answers]
    BY DEF TypeOK, PCs, Answers
  <2>2. faults' \in 0..MaxFaults /\ troubled' \in SUBSET Keys
    BY CallType, AccountsAssumption DEF TypeOK
  <2> QED
    BY <1>2, <2>1, <2>2 DEF TypeOK, Ids, Key, PCs, Answers
<1>4. Sessions'
  BY <1>1, <1>2 DEF Sessions, KindOfStep, SessionInHand, ListingInHand, LoginsAgree,
              MasterHasListing, Running, Login, Key
<1>5. Registrations'
  BY <1>1, <1>2, ClaimsKept DEF Running, Claiming
<1> QED
  BY <1>3, <1>4, <1>5

\* A request about the own listing takes the profile of its account.
LEMMA ResolveIInv ==
    ASSUME IInv, NEW r \in Requests, Resolve(r)
    PROVE  IInv'
<1> USE DEF IInv, Resolve, Goto, tables, server, history
<1>1. /\ pc[r] = "resolve" /\ ~Login(r) /\ users[Key(r)] # 0
      /\ pc'[r] = "find" /\ held'[r] = users[Key(r)]
      /\ \A s \in Requests \ {r} : pc'[s] = pc[s] /\ held'[s] = held[s]
  BY DEF TypeOK, Sessions, KindOfStep, Running
<1>2. TypeOK'
  <2>1. users[Key(r)] \in Ids /\ owner[users[Key(r)]] = Key(r)
    BY <1>1, CallType DEF TypeOK
  <2> QED
    BY <1>1, <2>1 DEF TypeOK, Ids, Key, PCs, Answers
<1>3. Sessions'
  BY <1>1 DEF Sessions, KindOfStep, SessionInHand, ListingInHand, LoginsAgree,
              MasterHasListing, Running, Login, Key
<1>4. Registrations'
  BY <1>1, ClaimsKept DEF Running, Claiming
<1> QED
  BY <1>2, <1>3, <1>4

\* The listing is there, or will be inserted.
LEMMA FindListingIInv ==
    ASSUME IInv, NEW r \in Requests, FindListing(r)
    PROVE  IInv'
<1> USE DEF IInv, FindListing, AfterListing, Goto, tables, server, history
<1>1. /\ pc[r] = "find"
      /\ \/ pc'[r] = "entry"
         \/ pc'[r] = "user" /\ Login(r) /\ held[r] \in listings
         \/ pc'[r] = "show" /\ ~Login(r)
      /\ \A s \in Requests \ {r} : pc'[s] = pc[s]
  BY DEF TypeOK, Login
<1>2. TypeOK'
  <2>1. pc' \in [Requests -> PCs]
    BY DEF TypeOK, PCs
  <2> QED
    BY <1>1, <2>1 DEF TypeOK, Ids, Key, PCs, Answers
<1>3. Sessions'
  BY <1>1 DEF Sessions, KindOfStep, SessionInHand, ListingInHand, LoginsAgree,
              MasterHasListing, Running, Login, Key
<1>4. Registrations'
  BY <1>1, ClaimsKept DEF Running, Claiming
<1> QED
  BY <1>2, <1>3, <1>4

\* The login answers with the profile it holds.
LEMMA IssueIInv ==
    ASSUME IInv, NEW r \in Requests, Issue(r)
    PROVE  IInv'
<1> USE DEF IInv, Issue, Finish, tables, server, history
<1>1. /\ pc[r] = "issue" /\ Login(r) /\ users[Key(r)] # 0
      /\ pc'[r] = "done" /\ answer'[r] = "ok" /\ given'[r] = held[r]
      /\ \A s \in Requests \ {r} :
            pc'[s] = pc[s] /\ answer'[s] = answer[s] /\ given'[s] = given[s]
  BY DEF TypeOK, Sessions, KindOfStep, SessionInHand
<1>2. TypeOK'
  BY <1>1 DEF TypeOK, Ids, Key, PCs, Answers
<1>3. Sessions'
  BY <1>1 DEF Sessions, KindOfStep, SessionInHand, ListingInHand, LoginsAgree,
              MasterHasListing, Running, Login, Key
<1>4. Registrations'
  BY <1>1, ClaimsKept DEF Running, Claiming
<1> QED
  BY <1>2, <1>3, <1>4

\* A request about the listing answers.
LEMMA ShowIInv ==
    ASSUME IInv, NEW r \in Requests, Show(r)
    PROVE  IInv'
<1> USE DEF IInv, Show, Finish, tables, server, history
<1>1. /\ pc[r] = "show" /\ ~Login(r)
      /\ pc'[r] = "done" /\ answer'[r] = "ok"
      /\ \A s \in Requests \ {r} : pc'[s] = pc[s] /\ answer'[s] = answer[s]
  BY DEF TypeOK, Sessions, KindOfStep
<1>2. TypeOK'
  BY <1>1 DEF TypeOK, Ids, Key, PCs, Answers
<1>3. Sessions'
  BY <1>1 DEF Sessions, KindOfStep, SessionInHand, ListingInHand, LoginsAgree,
              MasterHasListing, Running, Login, Key
<1>4. Registrations'
  BY <1>1, ClaimsKept DEF Running, Claiming
<1> QED
  BY <1>2, <1>3, <1>4

\* Any other failure is trouble.
LEMMA FailIInv ==
    ASSUME IInv, NEW r \in Requests, Fail(r)
    PROVE  IInv'
<1> USE DEF IInv, Fail, Finish, tables, server
<1>1. /\ pc'[r] = "done" /\ answer'[r] = "error"
      /\ \A s \in Requests \ {r} : pc'[s] = pc[s] /\ answer'[s] = answer[s]
  BY DEF TypeOK
<1>2. TypeOK'
  <2>1. faults' \in 0..MaxFaults /\ troubled' \in SUBSET Keys
    BY CallType, AccountsAssumption DEF TypeOK
  <2> QED
    BY <1>1, <2>1 DEF TypeOK, Ids, Key, PCs, Answers
<1>3. Sessions'
  BY <1>1 DEF Sessions, KindOfStep, SessionInHand, ListingInHand, LoginsAgree,
              MasterHasListing, Running, Login, Key
<1>4. Registrations'
  BY <1>1, ClaimsKept DEF Running, Claiming
<1> QED
  BY <1>2, <1>3, <1>4

\* A crash is trouble for everybody it cuts short.
LEMMA CrashIInv ==
    ASSUME IInv, Crash
    PROVE  IInv'
<1> USE DEF IInv, Crash, tables
<1>1. \A s \in Requests :
         \/ Running(s) /\ pc'[s] = "done" /\ answer'[s] = "lost" /\ Key(s) \in troubled'
         \/ ~Running(s) /\ pc'[s] = pc[s] /\ answer'[s] = answer[s]
  BY DEF Running
<1>2. TypeOK'
  <2>1. pc' \in [Requests -> PCs] /\ answer' \in [Requests -> Answers]
    BY DEF TypeOK, PCs, Answers
  <2>2. faults' \in 0..MaxFaults /\ troubled' \in SUBSET Keys
    BY CallType, AccountsAssumption DEF TypeOK
  <2> QED
    BY <1>1, <2>1, <2>2 DEF TypeOK, Ids, Key
<1>3. Sessions'
  BY <1>1 DEF Sessions, KindOfStep, SessionInHand, ListingInHand, LoginsAgree,
              MasterHasListing, Running, Login, Key
<1>4. Registrations'
  BY <1>1, ClaimsKept DEF Running, Claiming
<1> QED
  BY <1>2, <1>3, <1>4

\* A registration makes the one profile of its phone.
LEMMA InsertProfileIInv ==
    ASSUME IInv, NEW r \in Requests, InsertProfile(r)
    PROVE  IInv'
<1> USE DEF IInv, InsertProfile, NewId, Goto, server, history
<1> DEFINE new == Len(owner) + 1
<1>1. pc[r] = "profile" /\ Login(r) /\ Key(r) \in Keys
  BY CallType DEF TypeOK, Sessions, KindOfStep
<1>2. /\ owner \in Seq(Keys) /\ Len(owner) \in Nat
      /\ owner' \in Seq(Keys) /\ Len(owner') = new /\ owner'[new] = Key(r)
      /\ \A p \in Ids : owner'[p] = owner[p] /\ owner[p] \in Keys
  BY <1>1, AppendProperties DEF TypeOK, Ids
<1>3. Ids' = Ids \cup {new} /\ new \notin Ids /\ new # 0 /\ 0 \notin Ids
  BY <1>2 DEF Ids
<1>4. /\ \A s \in Requests \ {r} : pc'[s] = pc[s] /\ held'[s] = held[s]
      /\ pc'[r] \in {"find", "user"} /\ held'[r] = new
      /\ Key(r) \in MasterKeys => pc'[r] = "find"
  BY DEF TypeOK, AfterProfile
<1>5. TypeOK'
  <2>1. pc' \in [Requests -> PCs] /\ held' \in [Requests -> {0} \cup Ids']
    BY <1>3 DEF TypeOK, AfterProfile, PCs
  <2>2. \A k \in Keys : users[k] # 0 => owner'[users[k]] = k
    BY <1>2 DEF TypeOK
  <2>3. \A s \in Requests : pc'[s] \in {"find", "entry", "user", "issue"} =>
           held'[s] # 0 /\ owner'[held'[s]] = Key(s)
    BY <1>2, <1>3, <1>4 DEF TypeOK
  <2>4. listings \subseteq Ids' /\ users \in [Keys -> {0} \cup Ids'] /\ todo \subseteq Ids'
        /\ given \in [Requests -> {0} \cup Ids']
    BY <1>3 DEF TypeOK
  <2> HIDE DEF new
  <2> QED
    BY <1>2, <2>1, <2>2, <2>3, <2>4 DEF TypeOK, Key
<1>6. Sessions'
  BY <1>1, <1>4 DEF Sessions, KindOfStep, SessionInHand, ListingInHand, LoginsAgree,
              MasterHasListing, Running, Login, Key
<1>7. Registrations'
  <2>1. moved' = moved /\ troubled' = troubled /\ users' = users /\ listings' = listings
        /\ op' = op
    OBVIOUS
  <2>2. Alone'
    BY <1>1, <1>4 DEF Registrations, Alone, Running, Login, Key
  <2>3. OneProfile'
    <3>1. \A p \in Ids : Key(r) \notin troubled => owner'[p] # owner'[new]
      BY <1>1, <1>2 DEF Registrations, NoProfileYet
    <3>2. \A p, q \in Ids : owner'[p] = owner'[q] /\ owner'[p] \notin troubled => p = q
      BY <1>2 DEF Registrations, OneProfile
    <3>3. owner'[new] = Key(r)
      BY <1>2
    <3> HIDE DEF new
    <3> SUFFICES ASSUME NEW p \in Ids', NEW q \in Ids',
                        owner'[p] = owner'[q], owner'[p] \notin troubled
                 PROVE  p = q
      BY <2>1 DEF OneProfile
    <3>4. p \in Ids \cup {new} /\ q \in Ids \cup {new}
      BY <1>3
    <3>5. CASE p = new
      BY <3>1, <3>3, <3>4, <3>5
    <3>6. CASE q = new
      BY <3>1, <3>3, <3>4, <3>6
    <3>7. CASE p \in Ids /\ q \in Ids
      BY <3>2, <3>7
    <3> QED
      BY <3>4, <3>5, <3>6, <3>7
  <2>4. NoProfileYet'
    <3> SUFFICES ASSUME NEW s \in Requests, NEW p \in Ids', pc'[s] = "profile",
                        Key(s) \notin troubled
                 PROVE  owner'[p] # Key(s)
      BY <2>1 DEF NoProfileYet, Key
    <3>1. s # r /\ pc[s] = "profile" /\ Login(s)
      BY <1>4 DEF Sessions, KindOfStep
    <3>2. Key(s) # Key(r)
      BY <1>1, <3>1 DEF Registrations, Alone, Running
    <3> QED
      BY <1>2, <1>3, <3>1, <3>2 DEF Registrations, NoProfileYet
  <2>5. Claimed'
    <3> SUFFICES ASSUME NEW p \in Ids', owner'[p] \notin troubled, users[owner'[p]] = 0
                 PROVE  \E s \in Requests :
                           Login(s) /\ pc'[s] \in Claiming /\ Key(s) = owner'[p]
      BY <2>1 DEF Claimed, Key, Login
    <3>1. CASE p = new
      BY <1>1, <1>2, <1>4, <3>1 DEF Claiming
    <3>2. CASE p \in Ids
      <4>1. PICK s \in Requests : Login(s) /\ pc[s] \in Claiming /\ Key(s) = owner[p]
        BY <1>2, <3>2 DEF Registrations, Claimed
      <4> QED
        BY <1>1, <1>2, <1>4, <3>2, <4>1 DEF Claiming
    <3> QED
      BY <1>3, <3>1, <3>2
  <2>6. Listed'
    <3>1. ASSUME NEW p \in listings, owner'[p] \notin troubled, users[owner'[p]] = 0
          PROVE  \E s \in Requests : Login(s) /\ pc'[s] = "user" /\ held'[s] = p
      <4>1. owner'[p] = owner[p]
        BY <1>2 DEF TypeOK
      <4>2. PICK s \in Requests : Login(s) /\ pc[s] = "user" /\ held[s] = p
        BY <3>1, <4>1 DEF Registrations, Listed
      <4> QED
        BY <1>1, <1>4, <4>2
    <3>2. \A s \in Requests : Login(s)' <=> Login(s)
      BY <2>1 DEF Login
    <3> HIDE DEF InsertProfile, IInv, Login
    <3> QED
      BY <2>1, <3>1, <3>2 DEF Listed
  <2> QED
    BY <2>1, <2>2, <2>3, <2>4, <2>5, <2>6 DEF Registrations
<1> QED
  BY <1>5, <1>6, <1>7

\* A listing is inserted, or is there by now, which only an account explains.
LEMMA InsertListingIInv ==
    ASSUME IInv, NEW r \in Requests, InsertListing(r)
    PROVE  IInv'
<1> USE DEF IInv, InsertListing, AfterListing, Goto, Finish, server, history
<1>1. /\ pc[r] = "entry" /\ owner' = owner /\ users' = users /\ held' = held /\ given' = given
      /\ op' = op /\ moved' = moved /\ troubled' = troubled /\ adopted' = adopted
      /\ \A s \in Requests \ {r} : pc'[s] = pc[s] /\ answer'[s] = answer[s]
      /\ held[r] \in Ids /\ owner[held[r]] = Key(r)
  BY DEF TypeOK
<1>2. \/ /\ held[r] \in listings /\ listings' = listings
         /\ pc'[r] = "done" /\ answer'[r] = "error"
      \/ /\ listings' = listings \cup {held[r]} /\ answer'[r] = answer[r]
         /\ \/ pc'[r] = "user" /\ Login(r)
            \/ pc'[r] = "show" /\ ~Login(r)
  BY DEF TypeOK, Login
<1>3. TypeOK'
  <2>1. pc' \in [Requests -> PCs] /\ answer' \in [Requests -> Answers]
    BY DEF TypeOK, PCs, Answers
  <2> QED
    BY <1>1, <1>2, <2>1 DEF TypeOK, Ids, Key
<1>4. Sessions'
  BY <1>1, <1>2 DEF Sessions, KindOfStep, SessionInHand, ListingInHand, LoginsAgree,
              MasterHasListing, Running, Login, Key
<1>5. ASSUME listings' = listings, pc'[r] = "done"
      PROVE  Registrations'
  <2>1. ASSUME Login(r), Key(r) \notin troubled, users[Key(r)] = 0
        PROVE  held[r] \notin listings
    <3> SUFFICES ASSUME held[r] \in listings
                 PROVE  FALSE
      OBVIOUS
    <3>1. PICK o \in Requests : Login(o) /\ pc[o] = "user" /\ held[o] = held[r]
      BY <1>1, <2>1 DEF Registrations, Listed
    <3>2. Key(o) = Key(r)
      BY <1>1, <3>1 DEF TypeOK
    <3>3. o = r
      BY <1>1, <2>1, <3>1, <3>2 DEF Registrations, Alone, Running
    <3> QED
      BY <1>1, <3>1, <3>3
  <2> QED
    BY <1>1, <1>2, <1>5, <2>1, ClaimsKept DEF Running, Claiming, tables
<1>6. ASSUME listings' = listings \cup {held[r]}, pc'[r] \in {"user", "show"}
      PROVE  Registrations'
  <2>1. Alone' /\ OneProfile' /\ NoProfileYet'
    BY <1>1, <1>6 DEF Registrations, Alone, OneProfile, NoProfileYet, Running, Login, Key, Ids
  <2>2. Login(r) => pc'[r] = "user"
    BY <1>2, <1>6
  <2>3. ~Login(r) => users[Key(r)] # 0
    BY <1>1 DEF Sessions, KindOfStep, Running
  <2>4. Claimed'
    <3> SUFFICES ASSUME NEW p \in Ids, owner[p] \notin troubled, users[owner[p]] = 0
                 PROVE  \E s \in Requests :
                           Login(s) /\ pc'[s] \in Claiming /\ Key(s) = owner[p]
      BY <1>1 DEF Claimed, Key, Login, Ids
    <3>1. PICK s \in Requests : Login(s) /\ pc[s] \in Claiming /\ Key(s) = owner[p]
      BY DEF Registrations, Claimed
    <3> QED
      BY <1>1, <2>2, <3>1 DEF Claiming
  <2>5. Listed'
    <3> SUFFICES ASSUME NEW p \in listings \cup {held[r]}, owner[p] \notin troubled,
                        users[owner[p]] = 0
                 PROVE  \E s \in Requests : Login(s) /\ pc'[s] = "user" /\ held[s] = p
      BY <1>1, <1>6 DEF Listed, Login
    <3>1. CASE p = held[r]
      BY <1>1, <2>2, <2>3, <3>1
    <3>2. CASE p \in listings
      <4>1. PICK s \in Requests : Login(s) /\ pc[s] = "user" /\ held[s] = p
        BY <3>2 DEF Registrations, Listed
      <4> QED
        BY <1>1, <4>1
    <3> QED
      BY <3>1, <3>2
  <2> QED
    BY <1>1, <2>1, <2>4, <2>5 DEF Registrations
<1> QED
  BY <1>2, <1>3, <1>4, <1>5, <1>6

\* The account is made, unless the phone and role have one by now.
LEMMA InsertUserIInv ==
    ASSUME IInv, NEW r \in Requests, InsertUser(r)
    PROVE  IInv'
<1> USE DEF IInv, InsertUser, Taken, Goto, Finish, server, history
<1>1. /\ pc[r] = "user" /\ Login(r) /\ Key(r) \in Keys
      /\ owner' = owner /\ listings' = listings /\ held' = held /\ given' = given
      /\ op' = op /\ moved' = moved /\ troubled' = troubled /\ adopted' = adopted
      /\ \A s \in Requests \ {r} : pc'[s] = pc[s] /\ answer'[s] = answer[s]
      /\ held[r] \in Ids /\ owner[held[r]] = Key(r) /\ held[r] # 0
  BY CallType DEF TypeOK, Sessions, KindOfStep
<1>2. \/ /\ users[Key(r)] # 0 /\ users' = users
         /\ pc'[r] = "done" /\ answer'[r] = "error"
      \/ /\ users[Key(r)] = 0 /\ users' = [users EXCEPT ![Key(r)] = held[r]]
         /\ pc'[r] = "issue" /\ answer'[r] = answer[r]
  BY DEF TypeOK
<1>3. /\ \A k \in Keys \ {Key(r)} : users'[k] = users[k]
      /\ \A k \in Keys : users[k] # 0 => users'[k] = users[k]
      /\ users'[Key(r)] # 0 /\ (pc'[r] = "issue" => users'[Key(r)] = held[r])
  BY <1>1, <1>2 DEF TypeOK
<1>4. TypeOK'
  <2>1. pc' \in [Requests -> PCs] /\ answer' \in [Requests -> Answers]
    BY DEF TypeOK, PCs, Answers
  <2>2. users' \in [Keys -> {0} \cup Ids]
    BY <1>1, <1>2 DEF TypeOK
  <2> QED
    BY <1>1, <1>2, <2>1, <2>2 DEF TypeOK, Ids, Key
<1>5. Sessions'
  <2>1. \A s \in Requests : Key(s) \in Keys
    BY CallType DEF TypeOK
  <2>2. KindOfStep' /\ ListingInHand'
    BY <1>1, <1>2, <1>3, <2>1
       DEF Sessions, KindOfStep, ListingInHand, Running, Login, Key
  <2>3. SessionInHand'
    <3> SUFFICES ASSUME NEW s \in Requests
                 PROVE  /\ pc'[s] = "issue" =>
                              /\ users'[Key(s)] # 0
                              /\ Key(s) \notin moved => held[s] = users'[Key(s)]
                        /\ Login(s) /\ answer'[s] = "ok" => users'[Key(s)] # 0
      BY <1>1 DEF SessionInHand, Login, Key
    <3>1. CASE s = r
      BY <1>2, <1>3, <2>1, <3>1 DEF Sessions, SessionInHand
    <3>2. CASE s # r
      BY <1>1, <1>3, <2>1, <3>2 DEF Sessions, SessionInHand
    <3> QED
      BY <3>1, <3>2
  <2>4. LoginsAgree'
    <3> SUFFICES ASSUME NEW s \in Requests, Login(s), answer'[s] = "ok", Key(s) \notin moved
                 PROVE  given[s] = users'[Key(s)]
      BY <1>1 DEF LoginsAgree, Login, Key
    <3>1. answer[s] = "ok"
      BY <1>1, <1>2
    <3> QED
      BY <1>3, <2>1, <3>1 DEF Sessions, SessionInHand, LoginsAgree, Login
  <2>5. MasterHasListing'
    <3> SUFFICES ASSUME NEW k \in MasterKeys, users'[k] # 0, k \notin adopted
                 PROVE  users'[k] \in listings
      BY <1>1 DEF MasterHasListing
    <3>1. k \in Keys
      BY AccountsAssumption
    <3>2. CASE users[k] # 0
      BY <1>3, <3>1, <3>2 DEF Sessions, MasterHasListing
    <3>3. CASE users[k] = 0
      <4>1. k = Key(r) /\ users'[k] = held[r]
        BY <1>2, <1>3, <3>1, <3>3
      <4> QED
        BY <1>1, <4>1 DEF Sessions, ListingInHand
    <3> QED
      BY <3>2, <3>3
  <2> QED
    BY <2>2, <2>3, <2>4, <2>5 DEF Sessions
<1>6. Registrations'
  <2>1. Alone' /\ OneProfile' /\ NoProfileYet'
    BY <1>1, <1>2
       DEF Registrations, Alone, OneProfile, NoProfileYet, Running, Login, Key, Ids
  <2>2. Claimed'
    <3> SUFFICES ASSUME NEW p \in Ids, owner[p] \notin troubled, users'[owner[p]] = 0
                 PROVE  \E s \in Requests :
                           Login(s) /\ pc'[s] \in Claiming /\ Key(s) = owner[p]
      BY <1>1 DEF Claimed, Key, Login, Ids
    <3>1. owner[p] \in Keys /\ owner[p] # Key(r) /\ users[owner[p]] = 0
      BY <1>3, OwnerType DEF TypeOK
    <3>2. PICK s \in Requests : Login(s) /\ pc[s] \in Claiming /\ Key(s) = owner[p]
      BY <3>1 DEF Registrations, Claimed
    <3> QED
      BY <1>1, <3>1, <3>2
  <2>3. Listed'
    <3> SUFFICES ASSUME NEW p \in listings, owner[p] \notin troubled, users'[owner[p]] = 0
                 PROVE  \E s \in Requests : Login(s) /\ pc'[s] = "user" /\ held[s] = p
      BY <1>1 DEF Listed, Login
    <3>1. owner[p] \in Keys /\ owner[p] # Key(r) /\ users[owner[p]] = 0
      BY <1>3, OwnerType DEF TypeOK
    <3>2. PICK s \in Requests : Login(s) /\ pc[s] = "user" /\ held[s] = p
      BY <3>1 DEF Registrations, Listed
    <3> QED
      BY <1>1, <3>1, <3>2
  <2> QED
    BY <1>1, <2>1, <2>2, <2>3 DEF Registrations
<1> QED
  BY <1>4, <1>5, <1>6

\* A starting server points an account at a profile of its phone: at another
\* one than before only if there are two.
LEMMA UpsertUserIInv ==
    ASSUME IInv, NEW p \in todo, UpsertUser(p)
    PROVE  IInv'
<1> USE DEF IInv, UpsertUser, request
<1> DEFINE k == owner[p]
<1>1. /\ p \in Ids /\ p # 0 /\ k \in Keys
      /\ owner' = owner /\ listings' = listings /\ troubled' = troubled
      /\ pc' = pc /\ op' = op /\ held' = held /\ given' = given /\ answer' = answer
  BY OwnerType DEF TypeOK, Ids
<1>2. /\ \A j \in Keys \ {k} : users'[j] = users[j]
      /\ users'[k] = p /\ users' \in [Keys -> {0} \cup Ids]
      /\ moved' = IF users[k] \in {0, p} THEN moved ELSE moved \cup {k}
      /\ adopted' = IF users[k] = p THEN adopted ELSE adopted \cup {k}
  BY <1>1 DEF TypeOK
<1>3. TypeOK'
  <2>1. todo' \subseteq Ids /\ up' \in BOOLEAN /\ boot' \in {"idle", "upsert"}
    BY DEF TypeOK
  <2>2. {troubled', adopted', moved'} \subseteq SUBSET Keys
    BY <1>1, <1>2 DEF TypeOK
  <2>3. \A j \in Keys : users'[j] # 0 => owner[users'[j]] = j
    BY <1>1, <1>2 DEF TypeOK
  <2>4. faults' \in 0..MaxFaults /\ starts' \in 0..MaxStarts
    BY DEF TypeOK
  <2> QED
    BY <1>1, <1>2, <2>1, <2>2, <2>3, <2>4 DEF TypeOK, Ids, Key
<1>4. Sessions'
  <2>1. \A s \in Requests : Key(s) \in Keys
    BY CallType DEF TypeOK
  <2>2. \A j \in Keys : users[j] # 0 => users'[j] # 0 /\ (j \notin moved' => users'[j] = users[j])
    BY <1>1, <1>2
  <2>3. \A j \in Keys : j \notin adopted' => users'[j] = users[j] /\ j \notin adopted
    BY <1>1, <1>2
  <2>4. MasterHasListing'
    BY <1>1, <2>3, AccountsAssumption DEF Sessions, MasterHasListing
  <2>5. moved \subseteq moved'
    BY <1>2
  <2>6. LoginsAgree'
    BY <1>1, <2>1, <2>2, <2>5 DEF Sessions, SessionInHand, LoginsAgree, Login, Key
  <2>7. KindOfStep' /\ SessionInHand' /\ ListingInHand'
    BY <1>1, <2>1, <2>2, <2>5
       DEF Sessions, KindOfStep, SessionInHand, ListingInHand, Running, Login, Key
  <2> QED
    BY <2>4, <2>6, <2>7 DEF Sessions
<1>5. Registrations'
  <2>1. moved' \subseteq troubled'
    <3> SUFFICES ASSUME users[k] \notin {0, p}, k \notin troubled
                 PROVE  FALSE
      BY <1>1, <1>2 DEF Registrations
    <3>1. users[k] \in Ids /\ owner[users[k]] = k
      BY <1>1 DEF TypeOK
    <3> QED
      BY <1>1, <3>1 DEF Registrations, OneProfile
  <2>2. Alone' /\ OneProfile' /\ NoProfileYet'
    BY <1>1 DEF Registrations, Alone, OneProfile, NoProfileYet, Running, Login, Key, Ids
  <2>3. \A q \in Ids : owner[q] \in Keys /\ (users'[owner[q]] = 0 => users[owner[q]] = 0)
    BY <1>1, <1>2, OwnerType DEF TypeOK
  <2>4. Claimed'
    BY <1>1, <2>3 DEF Registrations, Claimed, Login, Key, Ids
  <2>5. Listed'
    BY <1>1, <2>3 DEF Registrations, Listed, Login, TypeOK
  <2> QED
    BY <2>1, <2>2, <2>4, <2>5 DEF Registrations
<1> QED
  BY <1>3, <1>4, <1>5

\* The rest of a start touches neither accounts nor requests.
LEMMA StartIInv ==
    ASSUME IInv, ReadProfiles \/ Serve \/ StartFails \/ UNCHANGED vars
    PROVE  IInv'
<1> USE DEF IInv, vars, history, server
<1>1. /\ UNCHANGED <<tables, request, troubled, adopted, moved>>
      /\ todo' \subseteq Ids /\ up' \in BOOLEAN /\ boot' \in {"idle", "upsert"}
      /\ faults' \in 0..MaxFaults /\ starts' \in 0..MaxStarts
  <2>1. CASE ReadProfiles
    BY <2>1, AccountsAssumption DEF ReadProfiles, TypeOK, request, tables
  <2>2. CASE Serve
    BY <2>2 DEF Serve, TypeOK, request, tables
  <2>3. CASE StartFails
    BY <2>3, AccountsAssumption DEF StartFails, TypeOK, request, tables
  <2>4. CASE UNCHANGED vars
    BY <2>4 DEF TypeOK, request, tables
  <2> QED
    BY <2>1, <2>2, <2>3, <2>4
<1>2. TypeOK'
  BY <1>1 DEF TypeOK, tables, request, Ids, Key
<1>3. Sessions'
  BY <1>1 DEF tables, request, Sessions, KindOfStep, SessionInHand, ListingInHand,
              LoginsAgree, MasterHasListing, Running, Login, Key
<1>4. Registrations'
  BY <1>1, ClaimsKept DEF request, Running
<1> QED
  BY <1>2, <1>3, <1>4

\* Every step keeps the invariant.
LEMMA NextIInv == IInv /\ [Next]_vars => IInv'
<1> SUFFICES ASSUME IInv, [Next]_vars
             PROVE  IInv'
  OBVIOUS
<1>1. CASE \E r \in Requests : Send(r) \/ Retry(r) \/ Step(r) \/ LookupFails(r) \/ Fail(r)
  BY <1>1, SendIInv, RetryIInv, LookupIInv, LookupFailsIInv, InsertProfileIInv, ResolveIInv,
     FindListingIInv, InsertListingIInv, InsertUserIInv, IssueIInv, ShowIInv, FailIInv
     DEF Step
<1>2. CASE Crash
  BY <1>2, CrashIInv
<1>3. CASE \E p \in todo : UpsertUser(p)
  BY <1>3, UpsertUserIInv
<1>4. CASE ReadProfiles \/ Serve \/ StartFails \/ UNCHANGED vars
  BY <1>4, StartIInv
<1> QED
  BY <1>1, <1>2, <1>3, <1>4 DEF Next, Starting
-----------------------------------------------------------------------------
(* Results.                                                                *)

\* The strengthened invariant holds in every reachable state.
THEOREM Inductive == Spec => []IInv
BY InitIInv, NextIInv, PTL DEF Spec

\* Types; accounts and requests at work have a profile of their own phone.
THEOREM TypeCorrect == Spec => []TypeOK
BY Inductive, PTL DEF IInv

\* Logins of one phone and role that are let in enter one account, however they
\* raced, failed or were retried (loginOrRegister, auth.go).
THEOREM LoginsEnterOneAccount == Spec => []LoginsAgree
BY Inductive, PTL DEF IInv, Sessions

\* A master whose account a login made has a listing (loginOrRegister,
\* ensureMasterDirectoryEntry).
THEOREM MastersAreListed == Spec => []MasterHasListing
BY Inductive, PTL DEF IInv, Sessions

\* ensureDemoUsers moves an account only after trouble with a login.
THEOREM MovesHaveACause == Spec => []MovedOnlyAfterTrouble
<1>1. IInv => MovedOnlyAfterTrouble
  <2> SUFFICES ASSUME IInv, NEW k \in Keys \ troubled
               PROVE  Cardinality({p \in Ids : owner[p] = k}) <= 1
    BY DEF MovedOnlyAfterTrouble, IInv, Registrations
  <2> DEFINE S == {p \in Ids : owner[p] = k}
  <2>1. CASE S = {}
    BY <2>1, FS_EmptySet
  <2>2. CASE S # {}
    <3>1. PICK p \in Ids : p \in S
      BY <2>2
    <3>2. S = {p}
      BY <3>1 DEF IInv, Registrations, OneProfile
    <3>3. Cardinality({p}) = 1
      BY FS_Singleton
    <3> HIDE DEF S
    <3>4. Cardinality(S) = 1
      BY <3>2, <3>3, Zenon
    <3> QED
      BY <3>4, SMT DEF S
  <2> QED
    BY <2>1, <2>2
<1> QED
  BY <1>1, Inductive, PTL
-----------------------------------------------------------------------------
(* The abstract directory.                                                 *)

\* A profile is the account of its own phone and role only.
LEMMA OwnersOnly ==
    ASSUME TypeOK, NEW p \in Ids
    PROVE  D!Others(owner[p], p)
<1> SUFFICES ASSUME NEW j \in Keys \ {owner[p]}, users[j] = p
             PROVE  FALSE
  BY DEF D!Others
<1>1. p # 0
  BY DEF Ids
<1> QED
  BY <1>1 DEF TypeOK

\* Steps that make no profile, account or session are a stutter, or trouble.
LEMMA UnsettleStep ==
    ASSUME IInv, IInv', UNCHANGED <<owner, users, op, given, moved>>, troubled \subseteq troubled'
    PROVE  D!Unsettle
<1>1. troubled' \subseteq Keys
  BY DEF IInv, TypeOK
<1> QED
  BY <1>1 DEF D!Unsettle, Key

LEMMA DrawStep ==
    ASSUME IInv, NEW r \in Requests, InsertProfile(r)
    PROVE  D!Draw
<1>1. owner \in Seq(Keys) /\ Key(r) \in Keys
  BY CallType DEF IInv, TypeOK
<1>2. Len(owner') = Len(owner) + 1
  BY <1>1, AppendProperties DEF InsertProfile
<1> QED
  BY <1>2 DEF D!Draw, InsertProfile, Goto, server, history, Key

LEMMA RegisterStep ==
    ASSUME IInv, IInv', NEW r \in Requests, InsertUser(r)
    PROVE  D!DirectoryNext
<1>1. /\ held[r] \in 1..Len(owner) /\ owner[held[r]] = Key(r) /\ Key(r) \in Keys
      /\ UNCHANGED <<owner, op, given, troubled, moved>>
  BY CallType DEF IInv, TypeOK, InsertUser, Ids, history
<1>2. CASE Taken(r)
  BY <1>1, <1>2, UnsettleStep DEF InsertUser, D!DirectoryNext
<1>3. CASE ~Taken(r)
  <2>1. D!Others(Key(r), held[r])
    BY <1>1, OwnersOnly DEF IInv, Ids
  <2>2. D!Register(Key(r), held[r])
    BY <1>1, <1>3, <2>1 DEF D!Register, InsertUser, Taken, Key
  <2> QED
    BY <1>1, <2>2 DEF D!DirectoryNext
<1> QED
  BY <1>2, <1>3

LEMMA EnterStep ==
    ASSUME IInv, NEW r \in Requests, Issue(r)
    PROVE  D!DirectoryNext
<1>1. /\ held[r] \in 1..Len(owner) /\ owner[held[r]] = Key(r) /\ Key(r) \in Keys
      /\ UNCHANGED <<owner, users, op, troubled, moved>>
      /\ given' = [given EXCEPT ![r] = held[r]]
  BY CallType DEF IInv, TypeOK, Issue, Ids, history, tables
<1>2. /\ given[r] = 0 /\ users[Key(r)] # 0
      /\ held[r] = users[Key(r)] \/ Key(r) \in moved
  BY DEF IInv, Sessions, KindOfStep, SessionInHand, Issue
<1>3. D!Others(Key(r), held[r])
  BY <1>1, OwnersOnly DEF IInv, Ids
<1>4. D!Enter(r, held[r])
  BY <1>1, <1>2, <1>3 DEF D!Enter, Key
<1> QED
  BY <1>1, <1>4 DEF D!DirectoryNext

LEMMA UpsertStep ==
    ASSUME IInv, IInv', NEW p \in todo, UpsertUser(p)
    PROVE  D!DirectoryNext
<1> DEFINE k == owner[p]
<1>1. /\ p \in 1..Len(owner) /\ p # 0 /\ k \in Keys
      /\ UNCHANGED <<owner, op, given, troubled>>
      /\ users' = [users EXCEPT ![k] = p]
      /\ moved' = IF users[k] \in {0, p} THEN moved ELSE moved \cup {k}
  BY OwnerType DEF IInv, TypeOK, Ids, UpsertUser, request
<1>2. D!Others(k, p)
  BY <1>1, OwnersOnly DEF IInv, Ids
<1>3. CASE users[k] = p
  <2>1. users' = users /\ moved' = moved
    BY <1>1, <1>3 DEF IInv, TypeOK
  <2> QED
    BY <1>1, <2>1, UnsettleStep DEF D!DirectoryNext
<1>4. CASE users[k] = 0
  <2>1. D!Register(k, p)
    BY <1>1, <1>2, <1>4 DEF D!Register, Key
  <2> QED
    BY <1>1, <2>1 DEF D!DirectoryNext
<1>5. CASE users[k] \notin {0, p}
  <2>1. k \in troubled
    BY <1>1, <1>5 DEF IInv, Registrations
  <2>2. D!Move(k, p)
    BY <1>1, <1>2, <1>5, <2>1 DEF D!Move, Key
  <2> QED
    BY <1>1, <2>2 DEF D!DirectoryNext
<1> QED
  BY <1>3, <1>4, <1>5

\* Statement by statement, with races, failures, crashes and starting servers,
\* logins and registrations implement the directory.
THEOREM Refinement == Spec => ImplementsDirectory
<1>1. Init => D!DirectoryInit
  <2> SUFFICES ASSUME Init
               PROVE  D!DirectoryInit
    OBVIOUS
  <2>1. [r \in Requests |-> Key(r)] \in [Requests -> Keys]
    BY CallType DEF Init
  <2> QED
    BY <2>1 DEF Init, D!DirectoryInit
<1>2. IInv /\ IInv' /\ [Next]_vars => [D!DirectoryNext]_(D!directoryVars)
  <2> SUFFICES ASSUME IInv, IInv', [Next]_vars
               PROVE  D!DirectoryNext
    OBVIOUS
  <2> USE DEF tables, server, request, history
  <2>1. CASE \E r \in Requests : InsertProfile(r)
    BY <2>1, DrawStep DEF D!DirectoryNext
  <2>2. CASE \E r \in Requests : InsertUser(r)
    BY <2>2, RegisterStep
  <2>3. CASE \E r \in Requests : Issue(r)
    BY <2>3, EnterStep
  <2>4. CASE \E p \in todo : UpsertUser(p)
    BY <2>4, UpsertStep
  <2>5. CASE \E r \in Requests :
                \/ Send(r) \/ Retry(r) \/ Lookup(r) \/ LookupFails(r) \/ Resolve(r)
                \/ FindListing(r) \/ InsertListing(r) \/ Show(r) \/ Fail(r)
    <3>1. UNCHANGED <<owner, users, op, given, moved>> /\ troubled \subseteq troubled'
      BY <2>5 DEF Send, Retry, Lookup, LookupFails, Resolve, FindListing, InsertListing, Show,
                  Fail
    <3> QED
      BY <3>1, UnsettleStep DEF D!DirectoryNext
  <2>6. CASE Crash \/ ReadProfiles \/ Serve \/ StartFails \/ UNCHANGED vars
    <3>1. UNCHANGED <<owner, users, op, given, moved>> /\ troubled \subseteq troubled'
      BY <2>6 DEF Crash, ReadProfiles, Serve, StartFails, vars
    <3> QED
      BY <3>1, UnsettleStep DEF D!DirectoryNext
  <2> QED
    BY <2>1, <2>2, <2>3, <2>4, <2>5, <2>6 DEF Next, Starting, Step
<1> QED
  BY <1>1, <1>2, Inductive, PTL DEF Spec, ImplementsDirectory, D!DirectorySpec
=============================================================================
