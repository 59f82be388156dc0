------------------------------ MODULE Directory ------------------------------
(***************************************************************************)
(* What the accounts of USTO promise, with every operation atomic: a phone *)
(* and role get an account once, with a profile no other account has, and  *)
(* keep it, unless something went wrong with a login of theirs; a session  *)
(* is given once, to the profile of the account.  Module Accounts          *)
(* implements it statement by statement.                                   *)
(***************************************************************************)
EXTENDS Naturals

CONSTANTS Keys,      \* pairs of a phone and a role
          Requests   \* logins

VARIABLES profiles,   \* number of profiles ever made
          account,    \* the profile of each account, 0 before there is one
          who,        \* the phone and role of each login
          session,    \* the profile each login was let in with, 0 before
          unsettled,  \* accounts whose profile may change, ...
          moved       \* ... and those whose profile did

directoryVars == <<profiles, account, who, session, unsettled, moved>>

Others(k, p) == \A j \in Keys \ {k} : account[j] # p

DirectoryInit ==
    /\ profiles = 0
    /\ account = [k \in Keys |-> 0]
    /\ who \in [Requests -> Keys]
    /\ session = [r \in Requests |-> 0]
    /\ unsettled = {} /\ moved = {}

\* A profile is made; nobody's yet.
Draw ==
    /\ profiles' = profiles + 1
    /\ UNCHANGED <<account, who, session, unsettled, moved>>

\* The account is made.
Register(k, p) ==
    /\ account[k] = 0
    /\ Others(k, p)
    /\ account' = [account EXCEPT ![k] = p]
    /\ UNCHANGED <<profiles, who, session, unsettled, moved>>

\* It gets another profile.
Move(k, p) ==
    /\ account[k] \notin {0, p}
    /\ k \in unsettled
    /\ Others(k, p)
    /\ account' = [account EXCEPT ![k] = p]
    /\ moved' = moved \cup {k}
    /\ UNCHANGED <<profiles, who, session, unsettled>>

\* A login is let in, perhaps with the profile the account had when it began.
Enter(r, p) ==
    LET k == who[r] IN
    /\ session[r] = 0
    /\ account[k] # 0
    /\ p = account[k] \/ k \in moved
    /\ Others(k, p)
    /\ session' = [session EXCEPT ![r] = p]
    /\ UNCHANGED <<profiles, account, who, unsettled, moved>>

\* Something goes wrong with logins.
Unsettle ==
    /\ unsettled \subseteq unsettled' /\ unsettled' \subseteq Keys
    /\ UNCHANGED <<profiles, account, who, session, moved>>

DirectoryNext ==
    \/ Draw
    \/ Unsettle
    \/ \E p \in 1..profiles : \/ \E k \in Keys : Register(k, p) \/ Move(k, p)
                              \/ \E r \in Requests : Enter(r, p)

DirectorySpec == DirectoryInit /\ [][DirectoryNext]_directoryVars
=============================================================================
