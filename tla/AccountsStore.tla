---------------------------- MODULE AccountsStore ----------------------------
(***************************************************************************)
(* AccountsStore (accounts-store.ts): the accounts the user is signed in    *)
(* with, in memory; the same without tokens in local storage; and their     *)
(* tokens in the keychain of the system. Signing in and out wait for the    *)
(* keychain, the refresh at the start of the program for the API, and each  *)
(* of them then writes memory and local storage.                            *)
(***************************************************************************)
EXTENDS Naturals, FiniteSets

CONSTANTS Endpoint,
          User,         \* the users of each endpoint
          Op,           \* bound: calls of addAccount and removeAccount in progress
          MaxTokens,    \* bound: tokens issued; 0 stands for none
          None

Identity == [endpoint : Endpoint, user : User]
Account == [endpoint : Endpoint, user : User, token : 0 .. MaxTokens]

\* A call of addAccount or removeAccount that is under way.
Call == [kind : {"add", "remove"}, account : Account, pc : {"keychain", "done", "failed"}]

ASSUME AccountsAssumption == MaxTokens \in Nat /\ None \notin Call

VARIABLES
    accounts,    \* the accounts in memory: a set of [endpoint, user, token]
    users,       \* local storage: a set of [endpoint, user]
    keychain,    \* [Endpoint \X User -> token or 0]
    phase,       \* whether the program is loading, has loaded or has refreshed
    refreshing,  \* None, or the accounts that are being refreshed
    ops,         \* [Op -> None or a call in progress]
    issued,      \* tokens issued so far
    raced,       \* history: identities changed by overlapping calls
    cut          \* history: those whose sign-out the program did not live to finish

history == <<raced, cut>>
vars == <<accounts, users, keychain, phase, refreshing, ops, issued, history>>

Who(a) == [endpoint |-> a.endpoint, user |-> a.user]
WithoutTokens(as) == {Who(a) : a \in as}

TypeOK ==
    /\ accounts \subseteq Account
    /\ users \subseteq Identity
    /\ keychain \in [Identity -> 0 .. MaxTokens]
    /\ phase \in {"loading", "loaded", "refreshed"}
    /\ refreshing \in (SUBSET Account) \cup {None}
    /\ ops \in [Op -> Call \cup {None}]
    /\ issued \in 0 .. MaxTokens
    /\ raced \subseteq Identity /\ cut \subseteq Identity
    \* nobody is in memory who is not in local storage as well
    /\ WithoutTokens(accounts) \subseteq users

Init ==
    /\ accounts = {} /\ users = {}
    /\ keychain = [i \in Identity |-> 0]
    /\ phase = "loading" /\ refreshing = None
    /\ ops = [o \in Op |-> None]
    /\ issued = 0 /\ raced = {} /\ cut = {}

-----------------------------------------------------------------------------

\* save.
Save == users' = WithoutTokens(accounts')

\* loadFromStore: a token that cannot be read leaves its account out. All the
\* other methods but refresh, which comes later, wait for it.
Load ==
    /\ phase = "loading"
    /\ \E unreadable \in SUBSET users :
          accounts' = {[endpoint |-> i.endpoint, user |-> i.user, token |-> keychain[i]] :
                          i \in users \ unreadable}
    /\ phase' = "loaded"
    /\ UNCHANGED <<users, keychain, refreshing, ops, issued, history>>

\* Another call for the endpoint, or a refresh, is going on.
Races(i) == refreshing # None \/ \E o \in Op : ops[o] # None /\ ops[o].account.endpoint = i.endpoint

Begin(o, kind, a) ==
    /\ ops[o] = None /\ phase # "loading"
    /\ ops' = [ops EXCEPT ![o] = [kind |-> kind, account |-> a, pc |-> "keychain"]]
    /\ raced' = IF Races(a) THEN raced \cup {Who(a)} \cup
                                    {Who(b) : b \in {c \in accounts : c.endpoint = a.endpoint}}
                                    \cup {Who(ops[p].account) : p \in {q \in Op : ops[q] # None}}
                            ELSE raced
    /\ UNCHANGED cut

\* Mutant: local storage is written before the keychain.
AddAccountSavedFirst(o, i) ==
    /\ issued < MaxTokens
    /\ issued' = issued + 1
    /\ Begin(o, "add", [endpoint |-> i.endpoint, user |-> i.user, token |-> issued + 1])
    /\ users' = {j \in users : j.endpoint # i.endpoint} \cup {i}
    /\ UNCHANGED <<accounts, keychain, phase, refreshing>>

\* addAccount, after a sign in that brought a new token.
AddAccount(o, i) ==
    /\ issued < MaxTokens
    /\ issued' = issued + 1
    /\ Begin(o, "add", [endpoint |-> i.endpoint, user |-> i.user, token |-> issued + 1])
    /\ UNCHANGED <<accounts, users, keychain, phase, refreshing>>

\* removeAccount: the user signs out, or AppStore does because a request was
\* answered that the token is not valid (onTokenInvalidated).
RemoveAccount(o, a) ==
    /\ Begin(o, "remove", a)
    /\ UNCHANGED <<accounts, users, keychain, phase, refreshing, issued>>

\* The keychain of the system sets or deletes the password, or will not.
KeychainAnswers(o) ==
    /\ ops[o] # None /\ ops[o].pc = "keychain"
    /\ \/ /\ keychain' = [keychain EXCEPT ![Who(ops[o].account)] =
                             IF ops[o].kind = "add" THEN ops[o].account.token ELSE 0]
          /\ ops' = [ops EXCEPT ![o].pc = "done"]
          /\ cut' = IF ops[o].kind = "add" THEN cut \ {Who(ops[o].account)} ELSE cut
       \/ /\ ops' = [ops EXCEPT ![o].pc = "failed"]
          /\ UNCHANGED <<keychain, cut>>
    /\ UNCHANGED <<accounts, users, phase, refreshing, issued, raced>>

Over(o) == ops' = [ops EXCEPT ![o] = None]

\* Mutant: the account is put beside those of its endpoint.
AddedBeside(o) ==
    /\ ops[o] # None /\ ops[o].kind = "add" /\ ops[o].pc = "done"
    /\ Over(o)
    /\ accounts' = accounts \cup {ops[o].account}
    /\ Save
    /\ UNCHANGED <<keychain, phase, refreshing, issued, history>>

\* Mutant: local storage is not written.
AddedUnsaved(o) ==
    /\ ops[o] # None /\ ops[o].kind = "add" /\ ops[o].pc = "done"
    /\ Over(o)
    /\ accounts' = {a \in accounts : a.endpoint # ops[o].account.endpoint}
                      \cup {ops[o].account}
    /\ UNCHANGED <<users, keychain, phase, refreshing, issued, history>>

\* addAccount goes on: the account takes the place of that of its endpoint.
Added(o) ==
    /\ ops[o] # None /\ ops[o].kind = "add" /\ ops[o].pc = "done"
    /\ Over(o)
    /\ accounts' = {a \in accounts : a.endpoint # ops[o].account.endpoint}
                      \cup {ops[o].account}
    /\ Save
    /\ UNCHANGED <<keychain, phase, refreshing, issued, history>>

\* removeAccount goes on.
Removed(o) ==
    /\ ops[o] # None /\ ops[o].kind = "remove" /\ ops[o].pc = "done"
    /\ Over(o)
    /\ accounts' = {a \in accounts : Who(a) # Who(ops[o].account)}
    /\ Save
    /\ UNCHANGED <<keychain, phase, refreshing, issued, history>>

\* Either of them reports the error and returns.
Failed(o) ==
    /\ ops[o] # None /\ ops[o].pc = "failed"
    /\ Over(o)
    /\ UNCHANGED <<accounts, users, keychain, phase, refreshing, issued, history>>

\* refresh, which loadInitialState calls once.
Refresh ==
    /\ phase = "loaded" /\ refreshing = None
    /\ refreshing' = accounts
    /\ phase' = "refreshed"
    /\ raced' = raced \cup {Who(ops[o].account) : o \in {p \in Op : ops[p] # None}}
                      \cup {Who(a) : a \in {b \in accounts : \E o \in Op :
                               ops[o] # None /\ ops[o].account.endpoint = b.endpoint}}
    /\ UNCHANGED <<accounts, users, keychain, ops, issued, cut>>

\* Every account was answered for; one that failed is kept as it was. Tokens
\* do not change.
Refreshed ==
    /\ refreshing # None
    /\ accounts' = refreshing
    /\ refreshing' = None
    /\ Save
    /\ UNCHANGED <<keychain, phase, ops, issued, history>>

\* The program ends, in whatever state it is, and starts again. It may end after
\* the keychain has answered a call and before the call goes on.
Restart ==
    /\ phase # "loading"
    /\ accounts' = {} /\ refreshing' = None
    /\ phase' = "loading"
    /\ ops' = [o \in Op |-> None]
    /\ cut' = cut \cup {Who(ops[o].account) : o \in
                  {p \in Op : ops[p] # None /\ ops[p].kind = "remove" /\ ops[p].pc = "done"}}
    /\ UNCHANGED <<users, keychain, issued, raced>>

Next ==
    \/ Load \/ Refresh \/ Refreshed \/ Restart
    \/ \E o \in Op :
          \/ \E i \in Identity : AddAccount(o, i)
          \/ \E a \in accounts : RemoveAccount(o, a)
          \/ KeychainAnswers(o) \/ Added(o) \/ Removed(o) \/ Failed(o)

Spec == Init /\ [][Next]_vars

-----------------------------------------------------------------------------

\* However sign-ins, sign-outs and the refresh overlap, there is at most one
\* account for an endpoint, which the rest of the program relies on when it
\* looks up the account of a repository.
OneAccountPerEndpoint ==
    /\ \A a, b \in accounts : a.endpoint = b.endpoint => a = b
    /\ \A i, j \in users : i.endpoint = j.endpoint => i = j

\* An account for which no calls overlapped has in memory the token that the keychain
\* has, through keychains that fail and ends of the program at any moment, also
\* between the keychain and local storage. It has none only if the program ended
\* in the middle of its sign-out, when the keychain had already deleted the token:
\* then the account is back at the next start, and without a token.
SurvivesRestart ==
    \A a \in accounts :
       Who(a) \notin raced /\ (\A o \in Op : ops[o] = None \/ Who(ops[o].account) # Who(a))
          => keychain[Who(a)] = a.token /\ (a.token = 0 => Who(a) \in cut)
=============================================================================
