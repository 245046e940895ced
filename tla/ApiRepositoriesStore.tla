------------------------ MODULE ApiRepositoriesStore ------------------------
(***************************************************************************)
(* The repositories that can be cloned (api-repositories-store.ts): lists    *)
(* that are loaded page by page for each account, while accounts are signed  *)
(* in and out and replaced by newer objects for the same user. A user stands *)
(* for what accountEquals compares, the endpoint and the id; an account      *)
(* object for one user is told from another by a number.                     *)
(***************************************************************************)
EXTENDS Naturals, FiniteSets

CONSTANTS User,
          Repo,         \* the repositories of the server
          Load,         \* bound on the loads in progress
          MaxObjects,   \* bound on the account objects made
          MaxChanges,   \* bound on the changes of the server's lists
          None

Object == 1 .. MaxObjects

\* What is known of the repositories of an account, under the object that is its key.
AccountState == [key : Object, repositories : SUBSET Repo, loading : BOOLEAN]

\* A load has the object it was given, the repositories it knows of, those of
\* them that it has not been sent yet, and those it is going to be sent.
LoadState == [user : User, account : Object, repositories : SUBSET Repo,
              missing : SUBSET Repo, due : SUBSET Repo]

ApiRepositoriesAssumption ==
    /\ {MaxObjects, MaxChanges} \subseteq Nat
    /\ None \notin Nat \cup AccountState \cup LoadState

VARIABLES
    accounts,      \* [User -> number of the object in AccountsStore, or None]
    objects,       \* account objects made so far
    accountState,  \* [User -> record or None], with the object that is its key
    load,          \* [Load -> record or None], the loads in progress
    server,        \* [User -> SUBSET Repo]
    changes,       \* changes of the server so far
    asked,         \* [User -> what the requests of the last load are answered with]
    orphaned       \* history: users who signed out while their list was loaded, until a
                   \* load begins when none is left from before

vars == <<accounts, objects, accountState, load, server, changes, asked, orphaned>>

InLoad(u) == \E l \in Load : load[l] # None /\ load[l].user = u

TypeOK ==
    /\ accounts \in [User -> Object \cup {None}]
    /\ objects \in 0 .. MaxObjects /\ changes \in 0 .. MaxChanges
    /\ accountState \in [User -> AccountState \cup {None}]
    /\ load \in [Load -> LoadState \cup {None}]
    /\ server \in [User -> SUBSET Repo] /\ asked \in [User -> SUBSET Repo]
    /\ \A l \in Load : load[l] # None => load[l].missing \subseteq load[l].repositories
    \* a list is said to be loaded only while a load is in progress
    /\ \A u \in User : accountState[u] # None /\ accountState[u].loading =>
          InLoad(u)
    /\ orphaned \subseteq User

Init ==
    /\ accounts = [u \in User |-> None] /\ objects = 0
    /\ accountState = [u \in User |-> None]
    /\ load = [l \in Load |-> None]
    /\ server \in [User -> SUBSET Repo] /\ changes = 0
    /\ asked = [u \in User |-> {}] /\ orphaned = {}

-----------------------------------------------------------------------------

\* onAccountsChanged: the state of a user goes to the object there is now, and
\* that of a user who is not signed in is dropped.
AccountsChanged ==
    accountState' = [u \in User |->
        IF accountState[u] = None \/ accounts'[u] = None THEN None
        ELSE [accountState[u] EXCEPT !.key = accounts'[u]]]

\* AccountsStore emits a new object for a user, who signs in or whose account was
\* refreshed.
NewAccount(u) ==
    /\ objects < MaxObjects
    /\ objects' = objects + 1
    /\ accounts' = [accounts EXCEPT ![u] = objects + 1]
    /\ AccountsChanged
    /\ UNCHANGED <<load, server, changes, asked, orphaned>>

\* The loads that are in progress for the user go on.
SignOut(u) ==
    /\ accounts[u] # None
    /\ accounts' = [accounts EXCEPT ![u] = None]
    /\ AccountsChanged
    /\ orphaned' = IF InLoad(u) THEN orphaned \cup {u} ELSE orphaned
    /\ UNCHANGED <<objects, load, server, changes, asked>>

\* Repositories are created, deleted and shared on the server.
ServerChanges(u, repos) ==
    /\ changes < MaxChanges /\ repos # server[u]
    /\ changes' = changes + 1
    /\ server' = [server EXCEPT ![u] = repos]
    /\ UNCHANGED <<accounts, objects, accountState, load, asked, orphaned>>

\* updateAccount and resolveAccount: the state of the user, under whichever object,
\* is changed; if there is none, one is made for the object that was given.
UpdateAccount(u, object, repositories, loading) ==
    [accountState EXCEPT ![u] =
       [key |-> IF @ = None THEN object ELSE @.key,
        repositories |-> repositories, loading |-> loading]]

\* updateAccount leaves alone what it is not given.
Loading(u) == accountState[u] # None /\ accountState[u].loading
Repositories(u) == IF accountState[u] = None THEN {} ELSE accountState[u].repositories

\* loadRepositories up to its first request. The repositories of the server are
\* taken to be those it has by then, however many requests it takes to send them.
LoadRepositories(l, u) ==
    /\ load[l] = None /\ accounts[u] # None /\ ~ Loading(u)
    /\ accountState' = UpdateAccount(u, accounts[u], Repositories(u), TRUE)
    /\ load' = [load EXCEPT ![l] =
          [user |-> u, account |-> accounts[u], repositories |-> Repositories(u),
           missing |-> Repositories(u), due |-> server[u]]]
    /\ asked' = [asked EXCEPT ![u] = server[u]]
    /\ orphaned' = IF InLoad(u) THEN orphaned ELSE orphaned \ {u}
    /\ UNCHANGED <<accounts, objects, server, changes>>

\* addPage: a page of one of the up to four requests of a load.
AddPage(l, page) ==
    /\ load[l] # None /\ page # {} /\ page \subseteq load[l].due
    /\ load' = [load EXCEPT ![l].repositories = @ \cup page,
                            ![l].missing = @ \ page, ![l].due = @ \ page]
    /\ LET u == load[l].user
       IN accountState' = UpdateAccount(u, load[l].account, load'[l].repositories, Loading(u))
    /\ UNCHANGED <<accounts, objects, server, changes, asked, orphaned>>

\* A request fails, which is logged: what it would have sent does not come.
PageFails(l, rest) ==
    /\ load[l] # None /\ rest \subseteq load[l].due /\ rest # load[l].due
    /\ load' = [load EXCEPT ![l].due = rest]
    /\ asked' = [asked EXCEPT ![load[l].user] = @ \ (load[l].due \ rest)]
    /\ UNCHANGED <<accounts, objects, accountState, server, changes, orphaned>>

\* Mutant: the repositories that were not sent again stay.
LoadedKeepsMissing(l) ==
    /\ load[l] # None /\ load[l].due = {}
    /\ LET u == load[l].user
       IN accountState' = UpdateAccount(u, load[l].account, Repositories(u), FALSE)
    /\ load' = [load EXCEPT ![l] = None]
    /\ UNCHANGED <<accounts, objects, server, changes, asked, orphaned>>

\* Every request has ended: what was not sent again is taken to be deleted.
Loaded(l) ==
    /\ load[l] # None /\ load[l].due = {}
    /\ LET u == load[l].user
           found == IF load[l].missing # {} THEN load[l].repositories \ load[l].missing
                                            ELSE Repositories(u)
       IN accountState' = UpdateAccount(u, load[l].account, found, FALSE)
    /\ load' = [load EXCEPT ![l] = None]
    /\ UNCHANGED <<accounts, objects, server, changes, asked, orphaned>>

-----------------------------------------------------------------------------

Next ==
    \/ \E u \in User : NewAccount(u) \/ SignOut(u)
    \/ \E u \in User, repos \in SUBSET Repo : ServerChanges(u, repos)
    \/ \E l \in Load, u \in User : LoadRepositories(l, u)
    \/ \E l \in Load, page \in SUBSET Repo : AddPage(l, page) \/ PageFails(l, page)
    \/ \E l \in Load : Loaded(l)

Spec == Init /\ [][Next]_vars

-----------------------------------------------------------------------------

\* A list that is not being loaded is what the server last answered with, no less and
\* nothing that was there before: however the pages of a user's requests are mixed and
\* some of them fail, whatever has been deleted, and although the account is replaced
\* by another object meanwhile. Who signs out while the list is loaded may find pages
\* of that load in it, or less, until it is loaded again with none left from before.
LoadedIsServers ==
    \A u \in User \ orphaned :
       accountState[u] # None /\ ~ accountState[u].loading =>
          accountState[u].repositories = asked[u]

\* "It's crucial that the ApiRepositories store match (through reference equality)
\* the accounts in the accounts store".
MatchesAccounts ==
    \A u \in User : accountState[u] # None => accountState[u].key = accounts[u]
=============================================================================
