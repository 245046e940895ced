-------------------------- MODULE TrampolineServer --------------------------
(***************************************************************************)
(* The server that git's askpass program talks to (trampoline-server.ts) and *)
(* the git commands that need it: withTrampolineEnv gives a command a token  *)
(* and the port of the server, which is started when a command needs it      *)
(* (trampoline-environment.ts, trampoline-tokens.ts). What a settled promise *)
(* sets off is done before the next event of Node, so it is part of the      *)
(* action that settles it.                                                   *)
(***************************************************************************)
EXTENDS Naturals

CONSTANTS Command,   \* slots for git commands in progress
          MaxErrors  \* bound on the errors of the server

TrampolineAssumption == MaxErrors \in Nat

VARIABLES
    server,            \* what Node has: "closed", "starting" or "listening"
    listeningPromise,  \* "null", or how it is settled
    command,           \* [Command -> where it stands]
    tokens,            \* trampolineTokens, each named for its command
    errors             \* errors of the server so far

vars == <<server, listeningPromise, command, tokens, errors>>

TypeOK ==
    /\ server \in {"closed", "starting", "listening"}
    /\ listeningPromise \in {"null", "pending", "resolved", "rejected"}
    /\ command \in [Command -> {"idle", "awaitsPort", "runs"}]
    /\ errors \in 0 .. MaxErrors
    \* a token is valid from its request until its command has ended, well or not
    /\ tokens = {c \in Command : command[c] # "idle"}
    /\ server = "starting" <=> listeningPromise = "pending"
    /\ server = "listening" <=> listeningPromise = "resolved"

Init ==
    /\ server = "closed" /\ listeningPromise = "null"
    /\ command = [c \in Command |-> "idle"] /\ tokens = {} /\ errors = 0

-----------------------------------------------------------------------------

Waiting == {c \in Command : command[c] = "awaitsPort"}

Settle(pc) ==
    command' = [c \in Command |-> IF c \in Waiting THEN pc ELSE command[c]]

\* withTrampolineEnv requests a token and asks getPort: the server listens and
\* git is run; or it is being started; or it has to be started, by listen. If the
\* promise was rejected the command fails at once, which leaves nothing behind.
RequestPort(c) ==
    /\ command[c] = "idle"
    /\ tokens' = tokens \cup {c}
    /\ \/ /\ server = "listening"
          /\ command' = [command EXCEPT ![c] = "runs"]
          /\ UNCHANGED <<server, listeningPromise>>
       \/ /\ listeningPromise = "pending"
          /\ command' = [command EXCEPT ![c] = "awaitsPort"]
          /\ UNCHANGED <<server, listeningPromise>>
       \/ /\ listeningPromise = "null"
          /\ command' = [command EXCEPT ![c] = "awaitsPort"]
          /\ server' = "starting" /\ listeningPromise' = "pending"
    /\ UNCHANGED errors

\* The server listens; the commands that wait learn the port and run git.
Listening ==
    /\ server = "starting"
    /\ server' = "listening" /\ listeningPromise' = "resolved"
    /\ Settle("runs")
    /\ UNCHANGED <<tokens, errors>>

\* Mutant: the error does not reject the promise.
ListenFailsQuietly ==
    /\ server = "starting" /\ errors < MaxErrors
    /\ server' = "closed" /\ listeningPromise' = "null"
    /\ errors' = errors + 1
    /\ UNCHANGED <<command, tokens>>

\* The server cannot listen: the promise is rejected, and with it the commands
\* that wait. close is called, but awaits that same promise and throws.
ListenFails ==
    /\ server = "starting" /\ errors < MaxErrors
    /\ server' = "closed" /\ listeningPromise' = "rejected"
    /\ Settle("idle")
    /\ tokens' = tokens \ Waiting
    /\ errors' = errors + 1

\* onServerError, once the server listens, and close.
ServerError ==
    /\ server = "listening" /\ errors < MaxErrors
    /\ server' = "closed" /\ listeningPromise' = "null"
    /\ errors' = errors + 1
    /\ UNCHANGED <<command, tokens>>

\* git ends, well or not: the finally of withTrampolineToken.
GitEnds(c) ==
    /\ command[c] = "runs"
    /\ command' = [command EXCEPT ![c] = "idle"]
    /\ tokens' = tokens \ {c}
    /\ UNCHANGED <<server, listeningPromise, errors>>

-----------------------------------------------------------------------------

Next ==
    \/ Listening \/ ListenFails \/ ServerError
    \/ \E c \in Command : RequestPort(c) \/ GitEnds(c)

Spec == Init /\ [][Next]_vars

-----------------------------------------------------------------------------

\* No command waits for a server that does not come: while one waits, the server is
\* being started, whether it could listen before or not and whoever started it.
WaitsForStart == Waiting # {} => server = "starting"
=============================================================================
