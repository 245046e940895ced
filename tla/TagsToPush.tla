----------------------------- MODULE TagsToPush -----------------------------
(***************************************************************************)
(* The tags of a repository that the next push sends along (GitStore,       *)
(* git-store.ts, and performPush in app-store.ts). The list is memory that  *)
(* is kept beside git: each of createTag, deleteTag, a refresh and a push   *)
(* asks git first and brings the list up to date when git has answered.     *)
(***************************************************************************)
EXTENDS Naturals, FiniteSets

CONSTANTS Tag,
          Refresh,     \* bound: refreshes of the repository in progress
          MaxRestarts, \* bound on restarts of the program
          MaxListed,   \* bound on how often a tag is on the list
          None

TagsAssumption == {MaxRestarts, MaxListed} \subseteq Nat /\ "call" \notin Refresh

\* Everyone who may be waiting in refreshTags.
Reader == Refresh \cup {"call"}

VARIABLES
    local,      \* git: the tags of the repository
    remote,     \* git: the tags of its remote
    toPush,     \* _tagsToPush, and the same in local storage: how often a tag is on it
    localTags,  \* _localTags, None until the first refresh
    call,       \* None, or the tag being created or deleted
    read,       \* [Reader -> None or what git answered to getAllTags]
    push,       \* None, or the list given to the git push in progress
    pushed,     \* whether that git push has ended well
    restarts,
    made,       \* history: tags createTag has put on the list
    late        \* history: tags made while a push or an older read was under way, until
                \* these have come to nothing

vars == <<local, remote, toPush, localTags, call, read, push, pushed, restarts, made, late>>

\* A list of tags, in any order: a tag may be on it more than once.
List == [Tag -> 0 .. MaxListed]
Listed(list) == {t \in Tag : list[t] > 0}

TypeOK ==
    /\ local \subseteq Tag /\ remote \subseteq Tag
    /\ toPush \in List
    /\ localTags \in (SUBSET Tag) \cup {None}
    /\ call \in [kind : {"create", "delete"}, tag : Tag, pc : {"git", "refresh"}] \cup {None}
    /\ read \in [Reader -> (SUBSET Tag) \cup {None}]
    /\ push \in List \cup {None}
    /\ pushed \in BOOLEAN /\ restarts \in 0 .. MaxRestarts
    /\ made \subseteq Tag /\ late \subseteq Tag
    /\ read["call"] # None => call # None /\ call.pc = "refresh"
    \* the list was never emptied of a tag by a push that did not send it
    /\ pushed => push # None /\ Listed(push) \subseteq remote

Init ==
    /\ local \in SUBSET Tag /\ remote = {}
    /\ toPush = [t \in Tag |-> 0] /\ localTags = None
    /\ call = None /\ read = [r \in Reader |-> None]
    /\ push = None /\ pushed = FALSE
    /\ restarts = 0 /\ made = {} /\ late = {}

-----------------------------------------------------------------------------

Known == IF localTags = None THEN {} ELSE localTags

\* The dialogs: a tag is made if it is not among the tags known, and deleted if
\* it waits to be pushed. They stay open until the call is over.
CreateTag(t) ==
    /\ call = None
    /\ t \notin Known /\ \A u \in Tag : toPush[u] < MaxListed
    /\ call' = [kind |-> "create", tag |-> t, pc |-> "git"]
    /\ UNCHANGED <<local, remote, toPush, localTags, read, push, pushed, restarts, made, late>>

DeleteTag(t) ==
    /\ call = None
    /\ t \in Listed(toPush)
    /\ call' = [kind |-> "delete", tag |-> t, pc |-> "git"]
    /\ UNCHANGED <<local, remote, toPush, localTags, read, push, pushed, restarts, made, late>>

\* git tag and git tag -d, which refuse what exists and what does not.
GitTag ==
    /\ call # None /\ call.pc = "git"
    /\ \/ /\ call.kind = "create" /\ call.tag \notin local
          /\ local' = local \cup {call.tag}
          /\ call' = [call EXCEPT !.pc = "refresh"]
          /\ UNCHANGED made
       \/ /\ call.kind = "delete" /\ call.tag \in local
          /\ local' = local \ {call.tag}
          /\ call' = [call EXCEPT !.pc = "refresh"]
          /\ made' = made \ {call.tag}
       \/ /\ call' = None
          /\ UNCHANGED <<local, made>>
    /\ late' = late \cap made'
    /\ UNCHANGED <<remote, toPush, localTags, read, push, pushed, restarts>>

\* git has read the tags for refreshTags; the program does not know it yet.
GetAllTags(r) ==
    /\ read[r] = None
    /\ r = "call" => call # None /\ call.pc = "refresh"
    /\ read' = [read EXCEPT ![r] = local]
    /\ UNCHANGED <<local, remote, toPush, localTags, call, push, pushed, restarts, made, late>>

\* removeTagToPush and addTagToPush.
Without(list, t) == [list EXCEPT ![t] = 0]
Found(list, tags) == [t \in Tag |-> IF t \in tags THEN list[t] ELSE 0]

\* What createTag or deleteTag does once its refreshTags has returned.
Afterwards(list) ==
    IF call.kind = "create" THEN [list EXCEPT ![call.tag] = @ + 1] ELSE Without(list, call.tag)

Finish(list) ==
    /\ toPush' = Afterwards(list)
    /\ made' = IF call.kind = "create" THEN made \cup ({call.tag} \cap local) ELSE made
    /\ late' = IF /\ call.tag \in made'
                  /\ push # None \/ \E r \in Refresh : read[r] # None /\ call.tag \notin read[r]
               THEN late \cup {call.tag} ELSE late \ {call.tag}
    /\ call' = None

\* refreshTags is answered, and createTag or deleteTag goes on if it was theirs.
RefreshTags(r) ==
    /\ read[r] # None
    /\ localTags' = read[r]
    /\ read' = [read EXCEPT ![r] = None]
    /\ IF r = "call"
       THEN Finish(Found(toPush, read[r]))
       ELSE toPush' = Found(toPush, read[r]) /\ UNCHANGED <<made, late, call>>
    /\ UNCHANGED <<local, remote, push, pushed, restarts>>

\* Mutant: createTag and deleteTag give up when their refresh fails.
RefreshGivesUp ==
    /\ call # None /\ call.pc = "refresh" /\ read["call"] = None
    /\ call' = None
    /\ made' = IF call.kind = "create" THEN made \cup ({call.tag} \cap local) ELSE made
    /\ UNCHANGED <<local, remote, toPush, localTags, read, push, pushed, restarts, late>>

\* git could not read the tags: refreshTags returns, its caller goes on.
RefreshFailed ==
    /\ call # None /\ call.pc = "refresh" /\ read["call"] = None
    /\ Finish(toPush)
    /\ UNCHANGED <<local, remote, localTags, read, push, pushed, restarts>>

\* performPush: git push is started with the list as it is. The lock of the
\* repository keeps it alone.
PerformPush ==
    /\ push = None
    /\ push' = toPush
    /\ pushed' = FALSE
    /\ UNCHANGED <<local, remote, toPush, localTags, call, read, restarts, made, late>>

\* git push takes a list of tags that are there, each named once: it refuses two
\* refspecs with the same destination. It may fail for any other reason.
GitPush ==
    /\ push # None /\ ~pushed
    /\ \/ /\ Listed(push) \subseteq local /\ \A t \in Tag : push[t] <= 1
          /\ remote' = remote \cup Listed(push)
          /\ pushed' = TRUE
          /\ UNCHANGED <<push, late>>
       \/ /\ push' = None
          /\ late' = late \ {t \in Listed(toPush) :
                               \A r \in Reader : read[r] # None => t \in read[r]}
          /\ UNCHANGED <<remote, pushed>>
    /\ UNCHANGED <<local, toPush, localTags, call, read, restarts, made>>

\* clearTagsToPush, when pushRepo has returned.
ClearTagsToPush ==
    /\ push # None /\ pushed
    /\ toPush' = [t \in Tag |-> 0] /\ push' = None /\ pushed' = FALSE
    /\ UNCHANGED <<local, remote, localTags, call, read, restarts, made, late>>

\* Somebody deletes or makes a tag outside of the program.
Outside(t) ==
    /\ local' = IF t \in local THEN local \ {t} ELSE local \cup {t}
    /\ made' = made \ {t} /\ late' = late \ {t}
    /\ UNCHANGED <<remote, toPush, localTags, call, read, push, pushed, restarts>>

\* The program ends in whatever state it is and starts again: the list is read
\* from local storage. What git was doing is done or not.
Restart ==
    /\ restarts < MaxRestarts
    /\ restarts' = restarts + 1
    /\ localTags' = None /\ call' = None
    /\ read' = [r \in Reader |-> None]
    /\ push' = None /\ pushed' = FALSE
    /\ late' = late \ Listed(toPush)
    /\ UNCHANGED <<local, remote, toPush, made>>

Next ==
    \/ \E t \in Tag : CreateTag(t) \/ DeleteTag(t) \/ Outside(t)
    \/ \E r \in Reader : GetAllTags(r) \/ RefreshTags(r)
    \/ GitTag \/ RefreshFailed
    \/ PerformPush \/ GitPush \/ ClearTagsToPush \/ Restart

Spec == Init /\ [][Next]_vars

-----------------------------------------------------------------------------

\* A tag made in the program is on the list until it is on the remote: through
\* refreshes that fail, pushes that fail, restarts and whatever others do to the
\* repository. Two cases are excepted, in which the code loses the tag: it was
\* made while a push was under way that then ends well, for the whole list is
\* cleared then, or between a refresh's read of the tags and its answer. A tag made
\* during a push that fails, or that the program does not live to see, is listed.
UnpushedIsListed ==
    \A t \in made \ late : t \in Listed(toPush) \cup remote
=============================================================================
