----------------------- MODULE MCSignInAndRepositories -----------------------
(* Instances for TLC of two stores that emit to the app, RepositoriesStore    *)
(* and SignInStore.  They share no state, so a behaviour is one of either     *)
(* while the other does not begin.                                            *)
EXTENDS RepositoriesStore, TLC

CONSTANTS Endpoint, DotCom, Call, Callback, MaxAsks

VARIABLES part, state, calls, asks, oauthState, callbacks, event, misused, failed

signInVars == <<state, calls, asks, oauthState, callbacks, event, misused, failed>>

SignIn == INSTANCE SignInStore

ASSUME SignInAssumed == SignIn!SignInAssumption

EitherInit ==
    /\ part \in {"repositories", "sign-in"}
    /\ Init /\ SignIn!Init
    /\ part = "sign-in" => nextID = 1

EitherNext ==
    \/ part = "repositories" /\ Next /\ UNCHANGED <<part, signInVars>>
    \/ part = "sign-in" /\ SignIn!Next /\ UNCHANGED <<part, vars>>

\* Nothing of the component that rests is enabled, so the fairness of the other
\* is all there is.
EitherSpec == EitherInit /\ [][EitherNext]_<<part, vars, signInVars>>
              /\ Fairness /\ SignIn!Fairness

\* The types of both components; a browser request waits just for its call, see
\* OneBrowserRequest in SignInStore.
BothTypeOK == TypeOK /\ SignIn!TypeOK /\ SignIn!OneBrowserRequest

\* Nobody is signed in while no sign-in is under way, see SignInStore.
NoAccountWithoutDialog == SignIn!NoAccountWithoutDialog

\* The sign-in dialog does not wait for ever, see SignInStore.
LoadingEnds == SignIn!LoadingEnds
=============================================================================
