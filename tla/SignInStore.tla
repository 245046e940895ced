----------------------------- MODULE SignInStore -----------------------------
(***************************************************************************)
(* SignInStore (sign-in-store.ts), which holds the step the sign-in dialog  *)
(* is at, and oauth.ts, which waits for the browser to come back. A method  *)
(* of the store keeps the state it found (currentState), awaits a server,   *)
(* and moves the store on with what it kept; the user may cancel, and begin *)
(* again, while it waits.                                                   *)
(***************************************************************************)
EXTENDS Naturals, FiniteSets

CONSTANTS Endpoint,      \* API endpoints
          DotCom,        \* the one of GitHub.com
          Call,          \* bound: calls of the store that are waiting
          Callback,      \* bound: browser callbacks being handled
          MaxAsks,       \* bound: OAuth requests
          None

VARIABLES
    state,       \* the state of the store, or None
    calls,       \* [Call -> None or what it waits for, and its currentState]
    asks,        \* the OAuth requests made so far; each has its own uuid
    oauthState,  \* the request that waits for the browser, or None
    callbacks,   \* [Callback -> None or a call of requestAuthenticatedUser]
    event,       \* the account of the did-authenticate event just emitted
    misused,     \* resolve- or rejectOAuthRequest was called with no request
    failed       \* history: a request of the store failed outright

vars == <<state, calls, asks, oauthState, callbacks, event, misused, failed>>

Steps == [kind : {"EndpointEntry"}, endpoint : {None}, basic : {FALSE},
          error : BOOLEAN, loading : BOOLEAN]
         \cup [kind : {"Authentication", "TwoFactorAuthentication"},
               endpoint : Endpoint, basic : BOOLEAN, error : BOOLEAN, loading : BOOLEAN]

Success == [kind |-> "Success", endpoint |-> None, basic |-> FALSE,
            error |-> FALSE, loading |-> FALSE]

\* A call of the store that waits, with the currentState it keeps.
Waiting == [on : {"metadata", "authorization", "user", "browser"},
            endpoint : Endpoint, from : Steps]

\* A request for an authorization, among the first n.
Request(n) == [id : 1 .. n, endpoint : Endpoint, call : Call]

SignInAssumption ==
    /\ DotCom \in Endpoint /\ MaxAsks \in Nat
    /\ None \notin Endpoint /\ None \notin Waiting /\ None \notin Request(MaxAsks)

TypeOK ==
    /\ state \in Steps \cup {Success, None}
    /\ calls \in [Call -> Waiting \cup {None}]
    /\ asks \in 0 .. MaxAsks
    /\ oauthState \in Request(asks) \cup {None}
    /\ oauthState # None => calls[oauthState.call] # None
    /\ callbacks \in [Callback -> [pc : {"token", "user"}, redeemedAt : Endpoint,
                                   fetchedFrom : Endpoint] \cup {None}]
    /\ event \in Endpoint \cup {None}
    /\ misused \in BOOLEAN /\ failed \in BOOLEAN

Init ==
    /\ state = None
    /\ calls = [c \in Call |-> None]
    /\ asks = 0 /\ oauthState = None
    /\ callbacks = [c \in Callback |-> None]
    /\ event = None /\ misused = FALSE /\ failed = FALSE

-----------------------------------------------------------------------------

Authentication(endpoint, basic) ==
    [kind |-> "Authentication", endpoint |-> endpoint, basic |-> basic,
     error |-> FALSE, loading |-> FALSE]

Quiet == event' = None

AtStep(kind) == state # None /\ state.kind = kind

\* reset: the dialog is closed.
Reset ==
    /\ state # None
    /\ state' = None /\ Quiet
    /\ UNCHANGED <<calls, asks, oauthState, callbacks, misused, failed>>

\* beginDotComSignIn. GitHub.com is known not to support basic authentication.
BeginDotComSignIn ==
    /\ state' = Authentication(DotCom, FALSE) /\ Quiet
    /\ UNCHANGED <<calls, asks, oauthState, callbacks, misused, failed>>

BeginEnterpriseSignIn ==
    /\ state' = [kind |-> "EndpointEntry", endpoint |-> None, basic |-> FALSE,
                 error |-> FALSE, loading |-> FALSE]
    /\ Quiet
    /\ UNCHANGED <<calls, asks, oauthState, callbacks, misused, failed>>

\* The store is busy from now on, and the form disabled.
Submitted(c, on, endpoint) ==
    /\ ~state.loading
    /\ calls[c] = None
    /\ calls' = [calls EXCEPT ![c] = [on |-> on, endpoint |-> endpoint, from |-> state]]
    /\ state' = [state EXCEPT !.loading = TRUE]
    /\ Quiet

\* setEndpoint, with an address that is valid or not.
SetEndpoint(c) ==
    /\ AtStep("EndpointEntry")
    /\ \/ \E e \in Endpoint \ {DotCom} : Submitted(c, "metadata", e)
       \/ /\ ~state.loading
          /\ state' = [state EXCEPT !.error = TRUE]
          /\ Quiet /\ UNCHANGED calls
    /\ UNCHANGED <<asks, oauthState, callbacks, misused, failed>>

\* authenticateWithBasicAuth and setTwoFactorOTP.
SendCredentials(c) ==
    /\ \/ AtStep("Authentication") /\ state.basic
       \/ AtStep("TwoFactorAuthentication")
    /\ Submitted(c, "authorization", state.endpoint)
    /\ UNCHANGED <<asks, oauthState, callbacks, misused, failed>>

\* authenticateWithBrowser and askUserToOAuth. The promise of the request
\* before this one, if that still waited, will not be settled.
AuthenticateWithBrowser(c) ==
    /\ AtStep("Authentication") /\ ~state.loading
    /\ asks < MaxAsks
    /\ LET waiting == {d \in Call : oauthState # None /\ oauthState.call = d}
       IN /\ c \in waiting \/ (waiting = {} /\ calls[c] = None)
          /\ calls' = [calls EXCEPT ![c] = [on |-> "browser", endpoint |-> state.endpoint,
                                            from |-> state]]
    /\ asks' = asks + 1
    /\ oauthState' = [id |-> asks + 1, endpoint |-> state.endpoint, call |-> c]
    /\ state' = [state EXCEPT !.loading = TRUE]
    /\ Quiet
    /\ UNCHANGED <<callbacks, misused, failed>>

-----------------------------------------------------------------------------

Waits(c, on) == calls[c] # None /\ calls[c].on = on

Settled(c) == calls' = [calls EXCEPT ![c] = None]

\* Mutant: the form stays disabled.
ErrorShownBusy(c) == state' = [calls[c].from EXCEPT !.error = TRUE, !.loading = TRUE]

\* A try ... catch puts the error into the state the call started from.
ErrorShown(c) == state' = [calls[c].from EXCEPT !.error = TRUE, !.loading = FALSE]

\* setEndpoint goes on: the metadata arrived, or the time for it is over and
\* what was known from earlier has to do, if there is something.
MetadataAnswered(c) ==
    /\ Waits(c, "metadata")
    /\ Settled(c)
    /\ \/ \E basic \in BOOLEAN :
             state' = IF AtStep("EndpointEntry") THEN Authentication(calls[c].endpoint, basic)
                                                ELSE state
       \/ ErrorShown(c)
    /\ Quiet
    /\ UNCHANGED <<asks, oauthState, callbacks, misused, failed>>

\* The server refused the credentials, or will not take a password, or wants
\* a second factor. From the second step on an error of the server is reported
\* and the step left as it is.
Refused(c) ==
    /\ Waits(c, "authorization") /\ AtStep(calls[c].from.kind)
    /\ Settled(c)
    /\ LET from == calls[c].from
       IN \/ ErrorShown(c)
          \/ state' = [from EXCEPT !.kind = "Authentication", !.basic = FALSE,
                                   !.error = @ /\ from.kind = "Authentication",
                                   !.loading = FALSE]
          \/ /\ from.kind = "Authentication"
             /\ \/ state' = [from EXCEPT !.loading = FALSE]
                \/ state' = [from EXCEPT !.kind = "TwoFactorAuthentication",
                                         !.error = FALSE, !.loading = FALSE]
    /\ Quiet
    /\ UNCHANGED <<asks, oauthState, callbacks, misused, failed>>

\* The flow was aborted, as far as the kind of the step shows.
Aborted(c) ==
    /\ Waits(c, "authorization") \/ Waits(c, "user")
    /\ ~AtStep(calls[c].from.kind)
    /\ Settled(c)
    /\ Quiet
    /\ UNCHANGED <<state, asks, oauthState, callbacks, misused, failed>>

Authorized(c) ==
    /\ Waits(c, "authorization") /\ AtStep(calls[c].from.kind)
    /\ calls' = [calls EXCEPT ![c].on = "user"]
    /\ Quiet
    /\ UNCHANGED <<state, asks, oauthState, callbacks, misused, failed>>

\* Mutant: whether the flow was aborted is not asked again.
UserFetchedUnchecked(c) ==
    /\ Waits(c, "user")
    /\ Settled(c)
    /\ state' = Success
    /\ event' = calls[c].endpoint
    /\ UNCHANGED <<asks, oauthState, callbacks, misused, failed>>

UserFetched(c) ==
    /\ Waits(c, "user") /\ AtStep(calls[c].from.kind)
    /\ Settled(c)
    /\ state' = Success
    /\ event' = calls[c].endpoint
    /\ UNCHANGED <<asks, oauthState, callbacks, misused, failed>>

\* A request fails outright, or, at the second step, the server has an error to
\* report: nothing is done about the state.
Unhandled(c) ==
    /\ Waits(c, "authorization") \/ Waits(c, "user")
    /\ Settled(c)
    /\ failed' = TRUE
    /\ Quiet
    /\ UNCHANGED <<state, asks, oauthState, callbacks, misused>>

-----------------------------------------------------------------------------

\* The browser opens the callback URL of any request made so far, once or more:
\* requestAuthenticatedUser up to its first await.
BrowserReturns(b, id) ==
    /\ callbacks[b] = None
    /\ oauthState # None /\ oauthState.id = id
    /\ callbacks' = [callbacks EXCEPT ![b] = [pc |-> "token",
                        redeemedAt |-> oauthState.endpoint,
                        fetchedFrom |-> oauthState.endpoint]]
    /\ Quiet
    /\ UNCHANGED <<state, calls, asks, oauthState, misused, failed>>

\* resolveOAuthRequest, and authenticateWithBrowser goes on; account is the
\* endpoint the account belongs to.
Resolve(account) ==
    /\ oauthState' = None
    /\ IF oauthState = None
         THEN misused' = TRUE /\ Quiet /\ UNCHANGED <<state, calls>>
         ELSE /\ Settled(oauthState.call)
              /\ UNCHANGED misused
              /\ IF AtStep("Authentication")
                   THEN state' = Success /\ event' = account
                   ELSE Quiet /\ UNCHANGED state

\* rejectOAuthRequest, and authenticateWithBrowser goes on.
Reject ==
    /\ oauthState' = None
    /\ Quiet
    /\ IF oauthState = None
         THEN misused' = TRUE /\ UNCHANGED <<state, calls>>
         ELSE /\ Settled(oauthState.call)
              /\ UNCHANGED misused
              /\ ErrorShown(oauthState.call)

\* The code was exchanged for a token, or was not. The user is fetched from the
\* endpoint of the request that waits now; without one there is an exception.
TokenAnswered(b) ==
    /\ callbacks[b] # None /\ callbacks[b].pc = "token"
    /\ \/ /\ oauthState # None
          /\ callbacks' = [callbacks EXCEPT ![b].pc = "user",
                                            ![b].fetchedFrom = oauthState.endpoint]
          /\ Quiet
          /\ UNCHANGED <<state, calls, oauthState, misused>>
       \/ Reject /\ callbacks' = [callbacks EXCEPT ![b] = None]
    /\ UNCHANGED <<asks, failed>>

\* A token is good at the endpoint that issued it.
BrowserUserAnswered(b) ==
    /\ callbacks[b] # None /\ callbacks[b].pc = "user"
    /\ callbacks' = [callbacks EXCEPT ![b] = None]
    /\ \/ callbacks[b].redeemedAt = callbacks[b].fetchedFrom /\ Resolve(callbacks[b].fetchedFrom)
       \/ Reject
    /\ UNCHANGED <<asks, failed>>

-----------------------------------------------------------------------------

User ==
    \/ Reset \/ BeginDotComSignIn \/ BeginEnterpriseSignIn
    \/ \E c \in Call : SetEndpoint(c) \/ SendCredentials(c) \/ AuthenticateWithBrowser(c)
    \/ \E b \in Callback, id \in 1 .. asks : BrowserReturns(b, id)

Answered(c) ==
    \/ MetadataAnswered(c) \/ Refused(c) \/ Aborted(c) \/ Authorized(c)
    \/ UserFetched(c) \/ Unhandled(c)

Next ==
    \/ User
    \/ \E c \in Call : Answered(c)
    \/ \E b \in Callback : TokenAnswered(b) \/ BrowserUserAnswered(b)

\* Requests are answered or fail. Nobody has to come back from the browser.
Fairness ==
    /\ \A c \in Call : WF_vars(Answered(c))
    /\ \A b \in Callback : WF_vars(TokenAnswered(b) \/ BrowserUserAnswered(b))

Spec == Init /\ [][Next]_vars
FairSpec == Spec /\ Fairness

-----------------------------------------------------------------------------

\* An answer that comes when no dialog waits for credentials adds no account,
\* however many requests are on their way: cancelling a sign in is enough to
\* keep the account out.
NoAccountWithoutDialog ==
    [][event' # None => state # None /\ state' = Success /\
                        state.kind \in {"Authentication", "TwoFactorAuthentication"}]_vars

\* What a browser brings back can only settle a request that waits, and a call
\* waits for the browser only as long as there is such a request. So no request
\* is settled twice, and none that could still be settled is forgotten.
OneBrowserRequest ==
    /\ \A c \in Call : Waits(c, "browser") <=> (oauthState # None /\ oauthState.call = c)
    /\ oauthState # None => oauthState.endpoint = calls[oauthState.call].from.endpoint

\* Unless a request fails outright, a dialog that is busy gets out of it, or it
\* waits for the user to return from the browser.
LoadingEnds ==
    []<>(\/ state = None \/ ~state.loading
         \/ \E c \in Call : Waits(c, "browser")
         \/ failed)
=============================================================================
