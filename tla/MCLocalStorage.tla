--------------------------- MODULE MCLocalStorage ---------------------------
(* Instances for TLC of the two components whose lists are in local storage   *)
(* and outlive the program, AccountsStore and TagsToPush, and of              *)
(* ApiRepositoriesStore, whose lists follow the accounts. They share nothing  *)
(* that both change, so a behaviour is one of any of them while the others do *)
(* not begin.                                                                 *)
EXTENDS AccountsStore, TLC

CONSTANTS Tag, TagRefresh, MaxRestarts, MaxListed,
          Login, Repo, RepositoriesLoad, MaxObjects, MaxChanges

VARIABLES part,
          local, remote, toPush, localTags, call, read, push, pushed, restarts, made, late,
          signedIn, objects, accountState, load, server, changes, asked, orphaned

tagVars == <<local, remote, toPush, localTags, call, read, push, pushed, restarts, made,
             late>>
apiVars == <<signedIn, objects, accountState, load, server, changes, asked, orphaned>>

Tags == INSTANCE TagsToPush WITH Refresh <- TagRefresh
Api == INSTANCE ApiRepositoriesStore
    WITH User <- Login, Load <- RepositoriesLoad, accounts <- signedIn

ASSUME TagsAssumed == Tags!TagsAssumption
ASSUME ApiAssumed == Api!ApiRepositoriesAssumption

AnyInit ==
    /\ part \in {"accounts", "tags", "api"}
    /\ Init /\ Tags!Init /\ Api!Init
    /\ part # "tags" => local = {}
    /\ part # "api" => \A u \in Login : server[u] = {}

AnyNext ==
    \/ part = "accounts" /\ Next /\ UNCHANGED <<part, tagVars, apiVars>>
    \/ part = "tags" /\ Tags!Next /\ UNCHANGED <<part, vars, apiVars>>
    \/ part = "api" /\ Api!Next /\ UNCHANGED <<part, vars, tagVars>>

AnySpec == AnyInit /\ [][AnyNext]_<<part, vars, tagVars, apiVars>>

\* The types of all components.
AllTypeOK == TypeOK /\ Tags!TypeOK /\ Api!TypeOK

\* A tag made in the program is on the list until it is on the remote, see
\* TagsToPush: through failed refreshes and pushes and through restarts.
UnpushedIsListed == Tags!UnpushedIsListed

\* A list of repositories that has been loaded is what the server last answered
\* with, see ApiRepositoriesStore.
LoadedIsServers == Api!LoadedIsServers

\* Tags are interchangeable, and so are users and repositories.
Symmetry == Permutations(Tag) \cup Permutations(Login) \cup Permutations(Repo)
=============================================================================
