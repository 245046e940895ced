-------------------------- MODULE Branches_proofs --------------------------
(***************************************************************************)
(* That no handler loses what the user wrote, that a commit is of what was *)
(* selected, and that the history shown is the history of HEAD, for every  *)
(* value of the constants: MCBranches has the working directory and the    *)
(* list of commits side by side.                                           *)
(***************************************************************************)
EXTENDS MCBranches, WellFoundedInduction, SequenceTheorems, TLAPS

\* What a handler, a refresh or a load is while it is under way.
Part     == UNION {[S -> Int] : S \in SUBSET File}
Selected == UNION {[S -> {"all", "none", "partial"}] : S \in SUBSET File}
Entry    == [sha : Nat \ {0}, branch : Branch, files : Part]
StatusOf == [head : Branch, changed : SUBSET File, untracked : SUBSET File]

Repository == [head : Branch, tree : [Branch -> [File -> Int]], index : Part,
               stash : Seq(Entry), work : [File -> Int], entries : Nat, made : Nat,
               history : SUBSET Int]
View == [head : Branch, files : Selected, stash : Seq(Entry), untracked : SUBSET File]

Handling == [kind : {"stash", "leave", "bring", "pop", "drop", "discard"},
             at : {"readLast", "stageUntracked", "push", "find", "drop", "checkout",
                   "checkoutAgain", "readTransient", "findToPop", "pop", "trash", "reset"},
             to : Branch \cup {NoBranch}, branch : Branch, asked : BOOLEAN,
             sha : Nat, place : Nat, files : SUBSET File]
Committing == [kind : {"commit"}, at : {"unstage", "stage", "commit"},
               to : {NoBranch}, branch : Branch, asked : BOOLEAN,
               sha : Nat, place : Nat, files : Selected]
Loading ==
  {Idle} \cup [kind : {"refresh", "commit"}, at : {"readStatus"}]
  \cup [kind : {"refresh", "commit"}, at : {"status"}, status : StatusOf]
  \cup [kind : {"refresh"}, at : {"readStash"}]
  \cup [kind : {"refresh"}, at : {"stash"}, stash : Seq(Entry)]

\* The handlers that put entries on the stash or take them off.
Stashing == {"stash", "leave", "bring", "pop", "drop"}

\* No two of them are under way together, and none that can stage files is beside a
\* commit.  Discards, the editor, refreshes and a commit beside a drop may overlap.
Apart ==
  \A t, u \in Task : t # u =>
    /\ ~ (task[t].kind \in Stashing /\ task[u].kind \in Stashing)
    /\ ~ (/\ task[t].at \in {"unstage", "stage", "commit"}
          /\ task[u].kind \in Stashing \ {"drop"})

PopupTyped ==
  /\ popup \in [kind : {"none", "switch", "overwrite"}, to : Branch \cup {NoBranch}]
  /\ popup.kind = "switch" => popup.to \in Branch

WorkTyped ==
  /\ git \in Repository /\ view \in View /\ PopupTyped
  /\ task \in [Task \cup Refresher -> Loading \cup Handling \cup Committing]
  /\ \A r \in Refresher : task[r] \in Loading
  /\ setting \in Setting

\* Every content is of a write there was, and what a branch has is in its history.
Written(g) ==
  /\ \A f \in File : g.work[f] \in (0 - g.made) .. g.made
  /\ \A f \in DOMAIN g.index : g.index[f] \in (0 - g.made) .. g.made
  /\ \A i \in DOMAIN g.stash, f \in File :
        f \in DOMAIN g.stash[i].files => g.stash[i].files[f] \in (0 - g.made) .. g.made
  /\ \A b \in Branch, f \in File :
        /\ g.tree[b][f] \in (0 - g.made) .. g.made
        /\ g.tree[b][f] > 0 => g.tree[b][f] \in g.history

\* Entries are numbered, the newest is first.
Numbered(g) ==
  /\ \A i \in DOMAIN g.stash : g.stash[i].sha <= g.entries
  /\ \A i, j \in DOMAIN g.stash : i < j => g.stash[i].sha > g.stash[j].sha

\* The entries somebody has read, of which some may be gone by now.
Known(stash, g) ==
  \A i \in DOMAIN stash :
    /\ stash[i].sha <= g.entries
    /\ \A j \in DOMAIN g.stash : g.stash[j].sha = stash[i].sha => g.stash[j] = stash[i]

UntrackedAreShown ==
  /\ view.untracked \subseteq ShownFiles
  /\ \A p \in Task \cup Refresher :
        task[p].at = "status" => task[p].status.untracked \subseteq task[p].status.changed

Entries(g, sha) == {i \in DOMAIN g.stash : g.stash[i].sha = sha}
\* An entry that may go: the user gave it up, or it is in the working directory.
GivenUp(g, given, sha) ==
  \A i \in Entries(g, sha), f \in File :
    f \in DOMAIN g.stash[i].files =>
      g.stash[i].files[f] \in given \/ \E h \in File : g.work[h] = g.stash[i].files[f]
IsReplaced(g, sha) ==
  \A i \in Entries(g, sha) : \E k \in 1 .. i - 1 : g.stash[k].branch = g.stash[i].branch

\* Which handlers come to which step.
HandlerTyped(h) ==
  /\ h.at = "readLast" => h.kind \in {"stash", "leave"}
  /\ h.at \in {"stageUntracked", "push", "checkout", "checkoutAgain", "readTransient"} =>
       h.kind \in {"stash", "leave", "bring"}
  /\ h.at \in {"checkoutAgain", "readTransient"} => h.kind = "bring"
  /\ h.at \in {"findToPop", "pop"} => h.kind \in {"pop", "bring"}
  /\ h.at \in {"find", "drop"} => h.kind \in Stashing
  /\ h.at \in {"trash", "reset"} => h.kind = "discard"
  /\ h.kind = "bring" \/ h.at \in {"checkout", "checkoutAgain", "readTransient"} =>
       h.to \in Branch

\* What a handler relies on from step to step, if no other one gets in its way.
ReliesOn(h, g, given) ==
  /\ h.at \in {"stageUntracked", "push"} /\ h.kind # "bring" =>
       h.sha <= g.entries /\ \A i \in Entries(g, h.sha) : g.stash[i].branch = h.branch
  /\ h.at \in {"find", "drop"} =>
       GivenUp(g, given, h.sha) \/ (h.kind \in {"stash", "leave"} /\ IsReplaced(g, h.sha))
  /\ h.at \in {"drop", "pop"} => h.place \in Entries(g, h.sha)
  /\ h.at = "stage" => DOMAIN g.index = {}
  /\ h.at = "commit" => DOMAIN g.index \subseteq DOMAIN h.files

HandlerOK(h, g, given, on) == HandlerTyped(h) /\ (on => ReliesOn(h, g, given))

KnownStashes ==
  /\ Known(view.stash, git)
  /\ \A p \in Task \cup Refresher : task[p].at = "stash" => Known(task[p].stash, git)

HandlersOK(on) ==
  \A t \in Task : task[t] \notin Loading => HandlerOK(task[t], git, agreed, on)

OneCommit == \A t, u \in Task : task[t].kind = "commit" /\ task[u].kind = "commit" => t = u

\* on: whether the handlers keep apart.  What is typed does not depend on it.
WorkInv(on) ==
  /\ WorkTyped /\ Written(git) /\ Numbered(git) /\ KnownStashes /\ UntrackedAreShown
  /\ OneCommit /\ HandlersOK(on)
  /\ on => NoWorkLost

-----------------------------------------------------------------------------
LEMMA LeastIs ==
    ASSUME NEW S \in SUBSET Nat, S # {}
    PROVE  Min(S) \in S /\ \A i \in S : Min(S) <= i
<1>1. PICK x \in S : \A y \in S : ~ (<<y, x>> \in OpToRel(<, Nat))
  BY NatLessThanWellFounded, WFMin
<1>2. ASSUME NEW y \in S PROVE x <= y
  <2>1. x \in Nat /\ y \in Nat
    OBVIOUS
  <2>2. OpToRel(<, Nat) = {p \in Nat \X Nat : p[1] < p[2]}
    BY DEF OpToRel
  <2>3. <<y, x>> \in Nat \X Nat /\ <<y, x>>[1] = y /\ <<y, x>>[2] = x
    BY <2>1
  <2>4. y < x => <<y, x>> \in OpToRel(<, Nat)
    BY <2>2, <2>3
  <2>5. ~ (y < x)
    BY <1>1, <2>4
  <2> QED BY <2>1, <2>5
<1> QED BY <1>2 DEF Min

\* The entry of a branch that counts is one of them.
LEMMA LastEntryIs ==
    ASSUME NEW s \in Seq(Entry), NEW b
    PROVE  \/ LastEntry(s, b) = NoEntry
           \/ \E i \in DOMAIN s : LastEntry(s, b) = s[i] /\ s[i].branch = b
<1> DEFINE S == {i \in DOMAIN s : s[i].branch = b}
<1>1. S \in SUBSET Nat
  OBVIOUS
<1>2. S # {} => Min(S) \in S
  BY <1>1, LeastIs
<1> QED BY <1>2 DEF LastEntry

LEMMA Pushed ==
    ASSUME NEW s \in Seq(Entry), NEW e \in Entry
    PROVE  /\ <<e>> \o s \in Seq(Entry)
           /\ DOMAIN (<<e>> \o s) = 1 .. Len(s) + 1
           /\ (<<e>> \o s)[1] = e
           /\ \A k \in DOMAIN s : (<<e>> \o s)[k + 1] = s[k]
OBVIOUS

LEMMA Removed ==
    ASSUME NEW s \in Seq(Entry), NEW i \in DOMAIN s
    PROVE  /\ RemoveAt(s, i) \in Seq(Entry)
           /\ DOMAIN RemoveAt(s, i) = 1 .. Len(s) - 1
           /\ \A k \in 1 .. Len(s) - 1 :
                 RemoveAt(s, i)[k] = IF k < i THEN s[k] ELSE s[k + 1]
<1> DEFINE l == SubSeq(s, 1, i - 1)
           r == SubSeq(s, i + 1, Len(s))
<1>1. i \in 1 .. Len(s) /\ Len(s) \in Nat /\ DOMAIN s = 1 .. Len(s)
  OBVIOUS
<1>2. l \in Seq(Entry) /\ Len(l) = i - 1 /\ \A k \in 1 .. i - 1 : l[k] = s[k]
  BY <1>1
<1>3. /\ r \in Seq(Entry) /\ Len(r) = Len(s) - i
      /\ \A k \in 1 .. Len(s) - i : r[k] = s[i + k]
  BY <1>1
<1> HIDE DEF l, r
<1>4. /\ l \o r \in Seq(Entry) /\ Len(l \o r) = Len(s) - 1
      /\ \A k \in 1 .. Len(s) - 1 :
            (l \o r)[k] = IF k < i THEN s[k] ELSE s[k + 1]
  <2>a. l \o r \in Seq(Entry) /\ Len(l \o r) = Len(l) + Len(r)
    BY <1>2, <1>3, ConcatProperties
  <2>1. l \o r \in Seq(Entry) /\ Len(l \o r) = Len(s) - 1
    BY <1>1, <1>2, <1>3, <2>a
  <2>2. ASSUME NEW k \in 1 .. Len(s) - 1, k < i PROVE (l \o r)[k] = s[k]
    BY <1>1, <1>2, <1>3, <2>2
  <2>3. ASSUME NEW k \in 1 .. Len(s) - 1, ~ (k < i) PROVE (l \o r)[k] = s[k + 1]
    <3>1. (l \o r)[k] = r[k - (i - 1)] /\ k - (i - 1) \in 1 .. Len(s) - i
      BY <1>1, <1>2, <1>3, <2>3
    <3>2. r[k - (i - 1)] = s[i + (k - (i - 1))] /\ i + (k - (i - 1)) = k + 1
      BY <1>1, <1>3, <3>1
    <3> QED BY <3>1, <3>2
  <2> QED BY <2>1, <2>2, <2>3
<1>5. RemoveAt(s, i) = l \o r
  BY DEF RemoveAt, l, r
<1> QED BY <1>1, <1>4, <1>5, LenProperties

-----------------------------------------------------------------------------
LEMMA WorkFacts ==
    /\ \A t \in Task : t \notin Refresher
    /\ NoBranch \notin Branch /\ NoEntry \notin Entry
    /\ Setting \subseteq [strategy : Strategies, protected : SUBSET Branch]
<1>1. ASSUME NoEntry \in Entry PROVE FALSE
  <2>1. NoEntry.sha \in Nat \ {0}
    BY <1>1 DEF Entry
  <2> QED BY <2>1 DEF NoEntry
<1> QED BY <1>1, WorkingDirectoryAssumption

LEMMA EntryOf ==
    ASSUME NEW s \in Seq(Entry), NEW i \in DOMAIN s
    PROVE  /\ s[i] \in Entry /\ s[i].sha \in Nat \ {0} /\ s[i].branch \in Branch
           /\ s[i].files \in Part /\ DOMAIN s[i].files \subseteq File
           /\ \A f \in DOMAIN s[i].files : s[i].files[f] \in Int
<1>1. s[i] \in Entry
  OBVIOUS
<1>2. s[i].sha \in Nat \ {0} /\ s[i].branch \in Branch /\ s[i].files \in Part
  BY <1>1 DEF Entry
<1> QED BY <1>1, <1>2 DEF Part

\* Which step a job is at says what it is.
LEMMA JobIs ==
    ASSUME NEW j \in Loading \cup Handling \cup Committing
    PROVE  /\ j.at = "readStatus" => j \in [kind : {"refresh", "commit"}, at : {"readStatus"}]
           /\ j.at = "status" =>
                j \in [kind : {"refresh", "commit"}, at : {"status"}, status : StatusOf]
           /\ j.at = "readStash" => j \in [kind : {"refresh"}, at : {"readStash"}]
           /\ j.at = "stash" => j \in [kind : {"refresh"}, at : {"stash"}, stash : Seq(Entry)]
           /\ j.at \in {"readLast", "stageUntracked", "push", "find", "drop", "checkout",
                        "checkoutAgain", "readTransient", "findToPop", "pop", "trash", "reset"} =>
                j \in Handling
           /\ j.at \in {"unstage", "stage", "commit"} => j \in Committing
           /\ j \in Handling \cup Committing => j \notin Loading
<1>1. j \in Handling =>
        j.at \in {"readLast", "stageUntracked", "push", "find", "drop", "checkout",
                  "checkoutAgain", "readTransient", "findToPop", "pop", "trash", "reset"}
  BY DEF Handling
<1>2. j \in Committing => j.at \in {"unstage", "stage", "commit"}
  BY DEF Committing
<1>3. j \in Loading =>
        \/ j.at = "idle"
        \/ j.at = "readStatus" /\ j \in [kind : {"refresh", "commit"}, at : {"readStatus"}]
        \/ /\ j.at = "status"
           /\ j \in [kind : {"refresh", "commit"}, at : {"status"}, status : StatusOf]
        \/ j.at = "readStash" /\ j \in [kind : {"refresh"}, at : {"readStash"}]
        \/ j.at = "stash" /\ j \in [kind : {"refresh"}, at : {"stash"}, stash : Seq(Entry)]
  BY DEF Loading, Idle
<1> QED BY <1>1, <1>2, <1>3

LEMMA Loadings ==
    /\ Idle \in Loading /\ Idle.at = "idle" /\ Idle.kind = "none"
    /\ RefreshRepository \in Loading /\ RefreshRepository.at = "readStatus"
    /\ RefreshRepository.kind = "refresh"
    /\ [Idle EXCEPT !.at = "readStash", !.kind = "refresh"] \in Loading
    /\ [Idle EXCEPT !.at = "readStash", !.kind = "refresh"].at = "readStash"
    /\ [Idle EXCEPT !.at = "readStash", !.kind = "refresh"].kind = "refresh"
    /\ [kind |-> "refresh", at |-> "readStash"] \in Loading
    /\ [kind |-> "commit", at |-> "readStatus"] \in Loading
BY DEF Loading, Idle, RefreshRepository

-----------------------------------------------------------------------------
\* A content is held if it was given up, is in the working directory, in a commit
\* or in an entry.
HeldIn(g, given, k) ==
  \/ k \in given
  \/ \E f \in File : g.work[f] = k
  \/ k \in g.history
  \/ \E i \in DOMAIN g.stash, f \in File :
        f \in DOMAIN g.stash[i].files /\ g.stash[i].files[f] = k

LEMMA WorkIsHeld ==
    ASSUME NEW g \in Repository, NEW given, NEW k
    PROVE  HeldIn(g, given, k) <=>
             k \in given \cup Range(g.work) \cup g.history
                   \cup UNION {Range(g.stash[i].files) : i \in DOMAIN g.stash}
<1>1. g.stash \in Seq(Entry) /\ DOMAIN g.work = File
  BY DEF Repository
<1>2. \A i \in DOMAIN g.stash : DOMAIN g.stash[i].files \subseteq File
  BY <1>1, EntryOf
<1>3. k \in Range(g.work) <=> \E f \in File : g.work[f] = k
  BY <1>1 DEF Range
<1>4. ASSUME NEW i \in DOMAIN g.stash
      PROVE  k \in Range(g.stash[i].files) <=>
               \E f \in File : f \in DOMAIN g.stash[i].files /\ g.stash[i].files[f] = k
  BY <1>2 DEF Range
<1>5. k \in UNION {Range(g.stash[i].files) : i \in DOMAIN g.stash} <=>
        \E i \in DOMAIN g.stash, f \in File :
           f \in DOMAIN g.stash[i].files /\ g.stash[i].files[f] = k
  BY <1>4
<1> QED BY <1>3, <1>5 DEF HeldIn

\* What was held stays held.
StaysHeld(g, given) == \A k \in 1 .. g.made : HeldIn(git, agreed, k) => HeldIn(g, given, k)

LEMMA HeldIsKept ==
    ASSUME git \in Repository, git' \in Repository, NoWorkLost,
           git'.made = git.made, StaysHeld(git', agreed')
    PROVE  NoWorkLost'
<1>1. \A k \in 1 .. git.made : HeldIn(git, agreed, k)
  BY WorkIsHeld DEF NoWorkLost
<1>2. \A k \in 1 .. git'.made : HeldIn(git', agreed', k)
  BY <1>1 DEF StaysHeld
<1> QED BY <1>2, WorkIsHeld DEF NoWorkLost

\* No entry changes, and a new one has a new number.
KeepsEntries(g) ==
  /\ git.entries <= g.entries
  /\ \A j \in DOMAIN g.stash :
       \/ g.stash[j].sha > git.entries
       \/ \E i \in DOMAIN git.stash : g.stash[j] = git.stash[i]

LEMMA KnownKept ==
    ASSUME git \in Repository, git' \in Repository, KeepsEntries(git'),
           NEW s \in Seq(Entry), Known(s, git)
    PROVE  Known(s, git')
<1>1. \A i \in DOMAIN s : s[i] \in Entry /\ s[i].sha \in Nat /\ s[i].sha <= git.entries
  BY EntryOf DEF Known
<1>2. git.entries \in Nat /\ git'.entries \in Nat /\ git'.stash \in Seq(Entry)
  BY DEF Repository
<1>3. \A i \in DOMAIN git'.stash : git'.stash[i].sha \in Nat
  BY <1>2, EntryOf
<1>4. ASSUME NEW i \in DOMAIN s PROVE s[i].sha <= git'.entries
  BY <1>1, <1>2 DEF KeepsEntries
<1>5. ASSUME NEW i \in DOMAIN s, NEW j \in DOMAIN git'.stash, git'.stash[j].sha = s[i].sha
      PROVE  git'.stash[j] = s[i]
  <2>1. ~ (git'.stash[j].sha > git.entries)
    BY <1>1, <1>2, <1>5
  <2>2. PICK k \in DOMAIN git.stash : git'.stash[j] = git.stash[k]
    BY <2>1 DEF KeepsEntries
  <2> QED BY <2>2, <1>5 DEF Known
<1> QED BY <1>4, <1>5 DEF Known

-----------------------------------------------------------------------------
\* Nothing happens to the repository.
LEMMA GitStays ==
    ASSUME NEW on, WorkInv(on), git' = git, agreed \subseteq agreed'
    PROVE  /\ git' \in Repository /\ Written(git') /\ Numbered(git') /\ KeepsEntries(git')
           /\ on => NoWorkLost'
           /\ \A s : Known(s, git) => Known(s, git')
<1>1. git' \in Repository
  BY DEF WorkInv, WorkTyped
<1>2. Written(git') /\ Numbered(git')
  BY DEF WorkInv, Written, Numbered
<1>3. KeepsEntries(git')
  BY <1>1 DEF KeepsEntries, Repository
<1>4. on => NoWorkLost'
  BY DEF WorkInv, NoWorkLost
<1>5. \A s : Known(s, git) => Known(s, git')
  BY DEF Known
<1> QED BY <1>1, <1>2, <1>3, <1>4, <1>5

\* The other handlers can go on relying on what they rely on.
OthersOK(p, on) ==
  \A u \in Task : u # p /\ task[u] \notin Loading => HandlerOK(task[u], git', agreed', on)

\* A step that leaves the stash as it is disturbs none, if what it takes out of the
\* working directory is given up and what is in the index was there, or no other commits.
LEMMA OthersKeep ==
    ASSUME NEW on, WorkInv(on), NEW p \in Task \cup Refresher,
           git'.stash = git.stash, git'.entries = git.entries, agreed \subseteq agreed',
           \A f \in File : git'.work[f] = git.work[f] \/ git.work[f] \in agreed',
           \/ DOMAIN git'.index \subseteq DOMAIN git.index
           \/ p \in Task /\ task[p] \in Committing
    PROVE  OthersOK(p, on)
<1> SUFFICES ASSUME NEW u \in Task, u # p, task[u] \notin Loading
             PROVE  HandlerOK(task[u], git', agreed', on)
  BY DEF OthersOK
<1> DEFINE h == task[u]
<1>1. HandlerTyped(h) /\ (on => ReliesOn(h, git, agreed))
  BY DEF WorkInv, HandlersOK, HandlerOK
<1>2. h \in Handling \cup Committing
  BY DEF WorkInv, WorkTyped
<1>3. h.at \in {"stage", "commit"} => DOMAIN git'.index \subseteq DOMAIN git.index
  <2>1. ASSUME h.at \in {"stage", "commit"}, p \in Task, task[p] \in Committing PROVE FALSE
    <3>1. h.kind = "commit" /\ task[p].kind = "commit"
      BY <1>2, <2>1 DEF Handling, Committing
    <3> QED BY <2>1, <3>1 DEF WorkInv, OneCommit
  <2> QED BY <2>1
<1> HIDE DEF h
<1>4. \A sha : Entries(git', sha) = Entries(git, sha)
  BY DEF Entries
<1>5. \A sha : IsReplaced(git, sha) => IsReplaced(git', sha)
  BY <1>4 DEF IsReplaced
<1>6. ASSUME NEW sha, GivenUp(git, agreed, sha) PROVE GivenUp(git', agreed', sha)
  <2>1. ASSUME NEW i \in Entries(git, sha), NEW e \in File, e \in DOMAIN git.stash[i].files
        PROVE  \/ git.stash[i].files[e] \in agreed'
               \/ \E d \in File : git'.work[d] = git.stash[i].files[e]
    BY <1>6, <2>1 DEF GivenUp
  <2> QED BY <1>4, <2>1 DEF GivenUp
<1>7. ASSUME on PROVE ReliesOn(h, git', agreed')
  BY <1>1, <1>3, <1>4, <1>5, <1>6, <1>7 DEF ReliesOn
<1> QED BY <1>1, <1>7 DEF HandlerOK, h

LEMMA OthersStay ==
    ASSUME NEW on, WorkInv(on), NEW p \in Task \cup Refresher, git' = git,
           agreed \subseteq agreed'
    PROVE  OthersOK(p, on)
BY OthersKeep

\* One that puts entries on the stash or takes them off has no other such one beside it,
\* and no commit if it stages something.
LEMMA OthersApart ==
    ASSUME NEW on, WorkInv(on), on => Apart, NEW t \in Task, task[t] \in Handling,
           task[t].kind \in Stashing,
           task[t].kind = "drop" => DOMAIN git'.index \subseteq DOMAIN git.index
    PROVE  OthersOK(t, on)
<1> SUFFICES ASSUME NEW u \in Task, u # t, task[u] \notin Loading
             PROVE  HandlerOK(task[u], git', agreed', on)
  BY DEF OthersOK
<1> DEFINE h == task[u]
<1>1. HandlerTyped(h) /\ (on => ReliesOn(h, git, agreed))
  BY DEF WorkInv, HandlersOK, HandlerOK
<1>2. h \in Handling \cup Committing
  BY DEF WorkInv, WorkTyped
<1>3. ASSUME on PROVE ReliesOn(h, git', agreed')
  <2>1. h.kind \notin Stashing
    BY <1>3 DEF Apart
  <2>2. ASSUME task[t].kind # "drop"
        PROVE  h.at \notin {"unstage", "stage", "commit"}
    BY <1>3, <2>2 DEF Apart
  <2>3. CASE h \in Handling
    <3>1. h.kind = "discard" /\ h.at \in {"trash", "reset"}
      BY <1>1, <2>1, <2>3 DEF Handling, Stashing, HandlerTyped
    <3> QED BY <3>1 DEF ReliesOn
  <2>4. CASE h \in Committing
    <3>1. h.at \in {"unstage", "stage", "commit"}
      BY <2>4 DEF Committing
    <3>2. DOMAIN git'.index \subseteq DOMAIN git.index
      BY <2>2, <3>1
    <3> QED BY <1>1, <1>3, <3>1, <3>2 DEF ReliesOn
  <2> QED BY <1>2, <2>3, <2>4
<1> QED BY <1>1, <1>3 DEF HandlerOK, HandlerTyped, ReliesOn

\* A job takes the place of another one.
LEMMA WorkStep ==
    ASSUME NEW on, WorkInv(on),
           NEW p \in Task \cup Refresher, NEW j \in Loading \cup Handling \cup Committing,
           task' = [task EXCEPT ![p] = j], p \in Refresher => j \in Loading,
           \/ j.kind # "commit" \/ task[p].kind = "commit"
           \/ \A u \in Task : task[u].kind # "commit",
           git' \in Repository, Written(git'), Numbered(git'), KeepsEntries(git'),
           on => NoWorkLost', OthersOK(p, on),
           j \notin Loading => HandlerOK(j, git', agreed', on),
           j.at = "stash" => Known(j.stash, git'),
           j.at = "status" => j.status.untracked \subseteq j.status.changed,
           view' \in View, Known(view'.stash, git'), (view.untracked \subseteq ShownFiles)',
           PopupTyped', setting' = setting
    PROVE  WorkInv(on)'
<1>0. /\ git \in Repository /\ WorkTyped
      /\ task \in [Task \cup Refresher -> Loading \cup Handling \cup Committing]
      /\ \A r \in Refresher : task[r] \in Loading
  BY DEF WorkInv, WorkTyped
<1>1. /\ task'[p] = j
      /\ \A q \in Task \cup Refresher : q # p => task'[q] = task[q]
  BY <1>0
<1>2. WorkTyped'
  BY <1>0, <1>1 DEF WorkTyped
<1>3. KnownStashes'
  <2>1. ASSUME NEW q \in Task \cup Refresher, task'[q].at = "stash"
        PROVE  Known(task'[q].stash, git')
    <3>1. CASE q = p
      BY <1>1, <2>1, <3>1
    <3>2. CASE q # p
      <4>1. task'[q] = task[q] /\ task[q].at = "stash"
        BY <1>1, <2>1, <3>2
      <4>2. task[q].stash \in Seq(Entry) /\ Known(task[q].stash, git)
        BY <1>0, <4>1, JobIs DEF WorkInv, KnownStashes
      <4>3. \A s \in Seq(Entry) : Known(s, git) => Known(s, git')
        BY <1>0, KnownKept
      <4> QED BY <4>1, <4>2, <4>3
    <3> QED BY <3>1, <3>2
  <2> QED BY <2>1 DEF KnownStashes
<1>4. UntrackedAreShown'
  <2>1. ASSUME NEW q \in Task \cup Refresher, task'[q].at = "status"
        PROVE  task'[q].status.untracked \subseteq task'[q].status.changed
    BY <1>1, <2>1 DEF WorkInv, UntrackedAreShown
  <2> QED BY <2>1 DEF UntrackedAreShown
<1>5. HandlersOK(on)'
  <2>1. ASSUME NEW t \in Task, task'[t] \notin Loading
        PROVE  HandlerOK(task'[t], git', agreed', on)
    BY <1>1, <2>1 DEF OthersOK
  <2> QED BY <2>1 DEF HandlersOK
<1>6. OneCommit'
  <2>1. ASSUME NEW t \in Task, NEW u \in Task, task'[t].kind = "commit", task'[u].kind = "commit"
        PROVE  t = u
    BY <1>1, <2>1 DEF WorkInv, OneCommit
  <2> QED BY <2>1 DEF OneCommit
<1> QED BY <1>2, <1>3, <1>4, <1>5, <1>6 DEF WorkInv

\* A handler goes on, and shows nothing of it yet.
LEMMA HandlerStep ==
    ASSUME NEW on, WorkInv(on),
           NEW t \in Task, NEW j \in Loading \cup Handling \cup Committing,
           task' = [task EXCEPT ![t] = j],
           j.kind # "commit" \/ task[t].kind = "commit",
           git' \in Repository, Written(git'), Numbered(git'), KeepsEntries(git'),
           on => NoWorkLost', OthersOK(t, on),
           j \notin Loading => HandlerOK(j, git', agreed', on),
           j.at \notin {"stash", "status"},
           UNCHANGED <<view, popup, setting>>
    PROVE  WorkInv(on)'
<1>1. view \in View /\ PopupTyped /\ view.stash \in Seq(Entry) /\ git \in Repository
  BY DEF WorkInv, WorkTyped, View
<1>2. Known(view.stash, git)
  BY DEF WorkInv, KnownStashes
<1>3. Known(view'.stash, git')
  <2>1. \A s \in Seq(Entry) : Known(s, git) => Known(s, git')
    BY <1>1, KnownKept
  <2> QED BY <1>1, <1>2, <2>1
<1>4. (view.untracked \subseteq ShownFiles)'
  BY DEF WorkInv, UntrackedAreShown, ShownFiles
<1>5. PopupTyped'
  BY <1>1 DEF PopupTyped
<1> QED BY <1>1, <1>3, <1>4, <1>5, WorkFacts, WorkStep

-----------------------------------------------------------------------------
(* What leaves the repository alone: refreshes, clicks and dialogs.          *)

\* A job reads or begins; what the app shows stays, but a dialog may open or close.
LEMMA TaskStep ==
    ASSUME NEW on, WorkInv(on),
           NEW p \in Task \cup Refresher, NEW j \in Loading \cup Handling \cup Committing,
           task' = [task EXCEPT ![p] = j],
           p \in Refresher => j \in Loading,
           \/ j.kind # "commit" \/ task[p].kind = "commit"
           \/ \A u \in Task : task[u].kind # "commit",
           j \notin Loading => HandlerOK(j, git, agreed', on),
           j.at = "stash" => Known(j.stash, git),
           j.at = "status" => j.status.untracked \subseteq j.status.changed,
           PopupTyped', agreed \subseteq agreed', UNCHANGED <<git, view, setting>>
    PROVE  WorkInv(on)'
<1>1. view \in View /\ view.untracked \subseteq ShownFiles /\ Known(view.stash, git)
  BY DEF WorkInv, WorkTyped, KnownStashes, UntrackedAreShown
<1>2. view' \in View /\ Known(view'.stash, git') /\ (view.untracked \subseteq ShownFiles)'
  BY <1>1 DEF ShownFiles
<1>3. /\ git' \in Repository /\ Written(git') /\ Numbered(git') /\ KeepsEntries(git')
      /\ on => NoWorkLost'
  BY GitStays
<1>4. OthersOK(p, on)
  BY OthersStay
<1>5. /\ j \notin Loading => HandlerOK(j, git', agreed', on)
      /\ j.at = "stash" => Known(j.stash, git')
      /\ setting' = setting
  OBVIOUS
<1> QED BY <1>2, <1>3, <1>4, <1>5, WorkStep

LEMMA PopupStep ==
    ASSUME NEW on, WorkInv(on), PopupTyped', UNCHANGED <<git, view, task, setting, agreed>>
    PROVE  WorkInv(on)'
<1>1. WorkTyped'
  BY DEF WorkInv, WorkTyped
<1>2. KnownStashes' /\ UntrackedAreShown' /\ HandlersOK(on)' /\ (on => NoWorkLost') /\ OneCommit'
  BY DEF WorkInv, KnownStashes, UntrackedAreShown, ShownFiles, HandlersOK, NoWorkLost, OneCommit
<1> QED BY <1>1, <1>2 DEF WorkInv

LEMMA Popups ==
    /\ \A on : WorkInv(on) => PopupTyped
    /\ popup' = popup /\ PopupTyped => PopupTyped'
    /\ popup' = NoPopup => PopupTyped'
    /\ \A to \in Branch, kind \in {"overwrite", "switch"} :
          popup' = [kind |-> kind, to |-> to] => PopupTyped'
BY DEF WorkInv, WorkTyped, PopupTyped, NoPopup

LEMMA OneEntry ==
    ASSUME NEW on, WorkInv(on), NEW i \in DOMAIN git.stash, NEW k \in DOMAIN git.stash,
           git.stash[k].sha = git.stash[i].sha
    PROVE  k = i
<1>1. git.stash \in Seq(Entry)
  BY DEF WorkInv, WorkTyped, Repository
<1>2. i \in Nat /\ k \in Nat /\ git.stash[i].sha \in Nat
  BY <1>1, EntryOf
<1>3. ~ (i < k) /\ ~ (k < i)
  BY <1>2 DEF WorkInv, Numbered
<1> QED BY <1>2, <1>3

LEMMA LoadStatusReadStep ==
    ASSUME NEW on, WorkInv(on), NEW p \in Task \cup Refresher, LoadStatusRead(p)
    PROVE  WorkInv(on)'
<1> DEFINE j == [kind |-> task[p].kind, at |-> "status", status |-> Status]
<1>1. task[p] \in [kind : {"refresh", "commit"}, at : {"readStatus"}]
  BY JobIs DEF LoadStatusRead, WorkInv, WorkTyped
<1>2. Status \in StatusOf /\ Status.untracked \subseteq Status.changed
  BY DEF WorkInv, WorkTyped, Repository, Status, StatusOf, Changed, Untracked
<1>3. j \in Loading
  BY <1>1, <1>2 DEF Loading
<1>4. task' = [task EXCEPT ![p] = j] /\ UNCHANGED <<git, view, popup, setting, agreed>>
  BY DEF LoadStatusRead, Become
<1> QED BY <1>2, <1>3, <1>4, Popups, TaskStep

LEMMA LoadStatusApplyStep ==
    ASSUME NEW on, WorkInv(on), NEW p \in Task \cup Refresher, LoadStatusApply(p)
    PROVE  WorkInv(on)'
<1> DEFINE s == task[p].status
           new == UpdateChangedFiles(s, task[p].kind = "commit")
           j == IF task[p].kind = "commit" THEN Idle ELSE [kind |-> "refresh", at |-> "readStash"]
<1>1. s \in StatusOf /\ s.untracked \subseteq s.changed
  BY JobIs DEF LoadStatusApply, WorkInv, WorkTyped, UntrackedAreShown
<1>2. new \in Selected /\ DOMAIN new = s.changed
  <2>1. view.files \in Selected
    BY DEF WorkInv, WorkTyped, View
  <2>2. view.files \in [ShownFiles -> {"all", "none", "partial"}]
    BY <2>1 DEF Selected, ShownFiles
  <2>3. s.changed \in SUBSET File
    BY <1>1 DEF StatusOf
  <2>4. new \in [s.changed -> {"all", "none", "partial"}]
    BY <2>2 DEF UpdateChangedFiles
  <2> QED BY <2>3, <2>4 DEF Selected
<1>3. view' = [view EXCEPT !.head = s.head, !.untracked = s.untracked, !.files = new]
  BY DEF LoadStatusApply
<1>4. view' \in View /\ view'.stash = view.stash /\ (view.untracked \subseteq ShownFiles)'
  BY <1>1, <1>2, <1>3 DEF WorkInv, WorkTyped, View, StatusOf, ShownFiles
<1>5. task' = [task EXCEPT ![p] = j] /\ UNCHANGED <<git, popup, setting, agreed>>
  BY DEF LoadStatusApply, Become
<1>6. j \in Loading /\ j.at \notin {"stash", "status"} /\ j.kind # "commit"
  BY Loadings
<1>7. Known(view'.stash, git')
  BY <1>4, <1>5 DEF WorkInv, KnownStashes
<1> QED BY <1>4, <1>5, <1>6, <1>7, Popups, GitStays, OthersStay, WorkStep

LEMMA LoadStashEntriesReadStep ==
    ASSUME NEW on, WorkInv(on), NEW p \in Task \cup Refresher,
           LoadStashEntriesRead(p)
    PROVE  WorkInv(on)'
<1> DEFINE j == [kind |-> "refresh", at |-> "stash", stash |-> git.stash]
<1>1. git.stash \in Seq(Entry)
  BY DEF WorkInv, WorkTyped, Repository
<1>2. j \in Loading
  BY <1>1 DEF Loading
<1>3. Known(git.stash, git)
  BY OneEntry DEF Known, WorkInv, Numbered
<1>4. task' = [task EXCEPT ![p] = j] /\ UNCHANGED <<git, view, popup, setting, agreed>>
  BY DEF LoadStashEntriesRead, Become
<1> QED BY <1>2, <1>3, <1>4, Popups, TaskStep

LEMMA LoadStashEntriesApplyStep ==
    ASSUME NEW on, WorkInv(on), NEW p \in Task \cup Refresher,
           LoadStashEntriesApply(p)
    PROVE  WorkInv(on)'
<1>1. task[p].stash \in Seq(Entry) /\ Known(task[p].stash, git)
  BY JobIs DEF LoadStashEntriesApply, WorkInv, WorkTyped, KnownStashes
<1>2. view' = [view EXCEPT !.stash = task[p].stash]
  BY DEF LoadStashEntriesApply
<1>3. /\ view' \in View /\ view'.stash = task[p].stash
      /\ view'.untracked = view.untracked /\ view'.files = view.files
  BY <1>1, <1>2 DEF WorkInv, WorkTyped, View
<1>4. task' = [task EXCEPT ![p] = Idle] /\ UNCHANGED <<git, popup, setting, agreed>>
  BY DEF LoadStashEntriesApply, Become
<1>5. (view.untracked \subseteq ShownFiles)'
  BY <1>3 DEF WorkInv, UntrackedAreShown, ShownFiles
<1> QED BY <1>1, <1>3, <1>4, <1>5, Loadings, Popups, GitStays, OthersStay, WorkStep

LEMMA LoadStep ==
    ASSUME NEW on, WorkInv(on), NEW p \in Task \cup Refresher, Load(p)
    PROVE  WorkInv(on)'
BY LoadStatusReadStep, LoadStatusApplyStep, LoadStashEntriesReadStep,
   LoadStashEntriesApplyStep DEF Load

LEMMA RefreshStep ==
    ASSUME NEW on, WorkInv(on), NEW r \in Refresher, Refresh(r)
    PROVE  WorkInv(on)'
<1>1. task' = [task EXCEPT ![r] = RefreshRepository]
      /\ UNCHANGED <<git, view, popup, setting, agreed>>
  BY DEF Refresh, Become
<1> QED BY <1>1, Loadings, Popups, TaskStep

\* A handler that begins relies on nothing yet.
LEMMA CheckoutIs ==
    ASSUME NEW on, WorkInv(on), NEW to \in Branch, NEW strategy, NEW given, NEW h,
           h = Checkout(to, strategy, TRUE) \/ h = Checkout(to, strategy, FALSE)
    PROVE  /\ h \in Handling /\ HandlerOK(h, git, given, on)
           /\ h.at \notin {"stash", "status"} /\ h.kind # "commit"
<1> DEFINE actual == IF view.head \in setting.protected THEN "move" ELSE strategy
           first  == IF actual = "stash" /\ HasChanges THEN "readLast" ELSE "checkout"
           kind   == IF actual = "move" THEN "bring" ELSE "leave"
<1>1. view.head \in Branch
  BY DEF WorkInv, WorkTyped, View
<1>2. first \in {"readLast", "checkout"} /\ kind \in {"bring", "leave"}
  OBVIOUS
<1>3. first = "readLast" => kind = "leave"
  OBVIOUS
<1>4. \/ h = Handler(kind, first, to, view.head, TRUE)
      \/ h = Handler(kind, first, to, view.head, FALSE)
  BY DEF Checkout
<1> HIDE DEF actual, first, kind
<1>5. h \in Handling /\ h.kind = kind /\ h.at = first /\ h.to = to
  <2>1. CASE h = Handler(kind, first, to, view.head, TRUE)
    BY <1>1, <1>2, <2>1 DEF Handler, Handling
  <2>2. CASE h = Handler(kind, first, to, view.head, FALSE)
    BY <1>1, <1>2, <2>2 DEF Handler, Handling
  <2> QED BY <1>4, <2>1, <2>2
<1>6. HandlerOK(h, git, given, on)
  BY <1>2, <1>3, <1>5 DEF HandlerOK, HandlerTyped, ReliesOn
<1> QED BY <1>2, <1>5, <1>6

LEMMA ShownEntryIs ==
    ASSUME NEW on, WorkInv(on), ShownEntry # NoEntry
    PROVE  /\ ShownEntry \in Entry /\ ShownEntry.sha \in Nat
           /\ \A i \in Entries(git, ShownEntry.sha) : git.stash[i] = ShownEntry
<1>1. view.stash \in Seq(Entry) /\ Known(view.stash, git)
  BY DEF WorkInv, WorkTyped, View, KnownStashes
<1>2. PICK i \in DOMAIN view.stash : ShownEntry = view.stash[i]
  BY <1>1, LastEntryIs DEF ShownEntry
<1>3. ShownEntry \in Entry /\ ShownEntry.sha \in Nat
  BY <1>1, <1>2, EntryOf
<1> QED BY <1>1, <1>2, <1>3 DEF Known, Entries

LEMMA CheckoutBranchStep ==
    ASSUME NEW on, WorkInv(on), NEW t \in Task, NEW to \in Branch,
           CheckoutBranch(t, to)
    PROVE  WorkInv(on)'
<1>1. CASE task' = task
  <2>1. \/ popup' = [kind |-> "overwrite", to |-> to]
        \/ popup' = [kind |-> "switch", to |-> to]
        \/ popup' = popup
    BY DEF CheckoutBranch
  <2> QED BY <1>1, <2>1, Popups, PopupStep DEF CheckoutBranch
<1>2. CASE /\ task' = [task EXCEPT ![t] = Checkout(to, setting.strategy, FALSE)]
           /\ popup' = popup
  <2>1. PICK h : h = Checkout(to, setting.strategy, FALSE) /\ task' = [task EXCEPT ![t] = h]
    BY <1>2, Zenon
  <2>2. h \in Handling /\ HandlerOK(h, git, agreed', on)
        /\ h.at \notin {"stash", "status"} /\ h.kind # "commit"
    BY <2>1, CheckoutIs, Zenon
  <2> QED BY <1>2, <2>1, <2>2, WorkFacts, Popups, TaskStep DEF CheckoutBranch
<1> QED BY <1>1, <1>2 DEF CheckoutBranch, Become

LEMMA SubmitSwitchStep ==
    ASSUME NEW on, WorkInv(on), NEW t \in Task, NEW strategy,
           SubmitSwitch(t, strategy)
    PROVE  WorkInv(on)'
<1>1. popup.to \in Branch /\ popup.kind = "switch"
      /\ popup \in [kind : {"none", "switch", "overwrite"}, to : Branch \cup {NoBranch}]
  BY DEF SubmitSwitch, WorkInv, WorkTyped, PopupTyped
<1>2. CASE popup' = [popup EXCEPT !.kind = "overwrite"] /\ task' = task
  <2>1. popup' = [kind |-> "overwrite", to |-> popup.to]
    BY <1>1, <1>2
  <2> QED BY <1>1, <1>2, <2>1, Popups, PopupStep DEF SubmitSwitch
<1>3. CASE popup' = NoPopup /\ task' = [task EXCEPT ![t] = Idle]
  BY <1>3, Loadings, WorkFacts, Popups, TaskStep DEF SubmitSwitch
<1>4. CASE popup' = NoPopup /\ task' = [task EXCEPT ![t] = Checkout(popup.to, strategy, FALSE)]
  <2>1. PICK h : h = Checkout(popup.to, strategy, FALSE) /\ task' = [task EXCEPT ![t] = h]
    BY <1>4, Zenon
  <2>2. h \in Handling /\ HandlerOK(h, git, agreed', on)
        /\ h.at \notin {"stash", "status"} /\ h.kind # "commit"
    BY <1>1, <2>1, CheckoutIs, Zenon
  <2> QED BY <1>4, <2>1, <2>2, WorkFacts, Popups, TaskStep DEF SubmitSwitch
<1> QED BY <1>2, <1>3, <1>4 DEF SubmitSwitch, Become

LEMMA SubmitOverwriteStep ==
    ASSUME NEW on, WorkInv(on), NEW t \in Task, SubmitOverwrite(t)
    PROVE  WorkInv(on)'
<1> DEFINE h == Handler("stash", "readLast", NoBranch, view.head, TRUE)
<1>1. view.head \in Branch /\ popup.to \in Branch \cup {NoBranch}
  BY DEF WorkInv, WorkTyped, View, PopupTyped
<1>2. h \in Handling /\ h.kind = "stash" /\ h.at = "readLast"
  BY <1>1 DEF Handler, Handling
<1> HIDE DEF h
<1>3. HandlerOK(h, git, agreed', on)
  BY <1>2 DEF HandlerOK, HandlerTyped, ReliesOn
<1>4. CASE popup.to = NoBranch
  <2>1. task' = [task EXCEPT ![t] = h] /\ popup' = NoPopup
    BY <1>4 DEF SubmitOverwrite, Become, h
  <2> QED BY <1>2, <1>3, <2>1, WorkFacts, Popups, TaskStep DEF SubmitOverwrite
<1>5. CASE popup.to # NoBranch /\ popup.to = view.head
  <2>1. task' = [task EXCEPT ![t] = Idle] /\ popup' = NoPopup
    BY <1>5 DEF SubmitOverwrite, Become
  <2> QED BY <2>1, Loadings, WorkFacts, Popups, TaskStep DEF SubmitOverwrite
<1>6. CASE popup.to # NoBranch /\ popup.to # view.head
  <2>1. PICK c : c = Checkout(popup.to, "stash", TRUE) /\ task' = [task EXCEPT ![t] = c]
    BY <1>6, Zenon DEF SubmitOverwrite, Become
  <2>2. c \in Handling /\ HandlerOK(c, git, agreed', on)
        /\ c.at \notin {"stash", "status"} /\ c.kind # "commit"
    <3>1. popup.to \in Branch
      BY <1>1, <1>6
    <3> QED BY <2>1, <3>1, CheckoutIs, Zenon
  <2> QED BY <2>1, <2>2, WorkFacts, Popups, TaskStep DEF SubmitOverwrite
<1> QED BY <1>4, <1>5, <1>6

LEMMA DismissPopupStep == ASSUME NEW on, WorkInv(on), DismissPopup PROVE WorkInv(on)'
BY Popups, PopupStep DEF DismissPopup

LEMMA CreateStashStep ==
    ASSUME NEW on, WorkInv(on), NEW t \in Task, CreateStashForCurrentBranch(t)
    PROVE  WorkInv(on)'
<1> DEFINE h == Handler("stash", "readLast", NoBranch, view.head, FALSE)
<1>1. view.head \in Branch
  BY DEF WorkInv, WorkTyped, View
<1>2. h \in Handling /\ h.kind = "stash" /\ h.at = "readLast"
  BY <1>1 DEF Handler, Handling
<1> HIDE DEF h
<1>3. HandlerOK(h, git, agreed', on)
  BY <1>2 DEF HandlerOK, HandlerTyped, ReliesOn
<1>4. CASE popup' = [kind |-> "overwrite", to |-> NoBranch] /\ task' = task
  <2>1. PopupTyped'
    BY <1>4 DEF PopupTyped
  <2> QED BY <1>4, <2>1, PopupStep DEF CreateStashForCurrentBranch
<1>5. CASE popup' = popup /\ task' = [task EXCEPT ![t] = h]
  BY <1>2, <1>3, <1>5, WorkFacts, Popups, TaskStep DEF CreateStashForCurrentBranch
<1> QED BY <1>4, <1>5 DEF CreateStashForCurrentBranch, Become, h

LEMMA PopStashStep ==
    ASSUME NEW on, WorkInv(on), NEW t \in Task, PopStash(t)
    PROVE  WorkInv(on)'
<1> DEFINE h0 == Handler("pop", "findToPop", NoBranch, view.head, FALSE)
           h  == [h0 EXCEPT !.sha = ShownEntry.sha]
<1>1. view.head \in Branch /\ ShownEntry.sha \in Nat
  BY ShownEntryIs DEF WorkInv, WorkTyped, View, PopStash
<1>2. h0 \in Handling /\ h0.kind = "pop" /\ h0.at = "findToPop"
  BY <1>1 DEF Handler, Handling
<1>3. h \in Handling /\ h.kind = "pop" /\ h.at = "findToPop"
  BY <1>1, <1>2 DEF Handling
<1>4. task' = [task EXCEPT ![t] = h] /\ UNCHANGED <<git, view, popup, setting, agreed>>
  BY DEF PopStash, Become
<1> HIDE DEF h
<1>5. HandlerOK(h, git, agreed', on)
  BY <1>3 DEF HandlerOK, HandlerTyped, ReliesOn
<1> QED BY <1>3, <1>4, <1>5, WorkFacts, Popups, TaskStep

LEMMA DropStashStep ==
    ASSUME NEW on, WorkInv(on), NEW t \in Task, DropStash(t)
    PROVE  WorkInv(on)'
<1> DEFINE h0 == Handler("drop", "find", NoBranch, view.head, FALSE)
           h  == [h0 EXCEPT !.sha = ShownEntry.sha]
<1>0. /\ ShownEntry \in Entry /\ ShownEntry.sha \in Nat
      /\ \A i \in Entries(git, ShownEntry.sha) : git.stash[i] = ShownEntry
  BY ShownEntryIs DEF DropStash
<1>1. view.head \in Branch
  BY DEF WorkInv, WorkTyped, View
<1>2. h0 \in Handling /\ h0.kind = "drop" /\ h0.at = "find"
  BY <1>1 DEF Handler, Handling
<1>3. h \in Handling /\ h.kind = "drop" /\ h.at = "find" /\ h.sha = ShownEntry.sha
  BY <1>0, <1>2 DEF Handling
<1>4. /\ task' = [task EXCEPT ![t] = h] /\ UNCHANGED <<git, view, popup, setting>>
      /\ agreed' = agreed \cup Range(ShownEntry.files)
  BY DEF DropStash, Become
<1> HIDE DEF h
<1>5. GivenUp(git, agreed', ShownEntry.sha)
  <2>1. \A f \in DOMAIN ShownEntry.files : ShownEntry.files[f] \in agreed'
    BY <1>4 DEF Range
  <2> QED BY <1>0, <2>1 DEF GivenUp
<1>6. HandlerOK(h, git, agreed', on)
  BY <1>3, <1>5 DEF HandlerOK, HandlerTyped, ReliesOn, Stashing
<1> QED BY <1>3, <1>4, <1>6, WorkFacts, Popups, TaskStep

LEMMA DiscardChangesStep ==
    ASSUME NEW on, WorkInv(on), NEW t \in Task, NEW files \in SUBSET File,
           DiscardChanges(t, files)
    PROVE  WorkInv(on)'
<1> DEFINE h0 == Handler("discard", "trash", NoBranch, view.head, FALSE)
           h  == [h0 EXCEPT !.files = files]
<1>1. view.head \in Branch
  BY DEF WorkInv, WorkTyped, View
<1>2. h0 \in Handling /\ h0.kind = "discard" /\ h0.at = "trash"
  BY <1>1 DEF Handler, Handling
<1>3. h \in Handling /\ h.kind = "discard" /\ h.at = "trash"
  BY <1>2 DEF Handling
<1>4. task' = [task EXCEPT ![t] = h] /\ UNCHANGED <<git, view, popup, setting, agreed>>
  BY DEF DiscardChanges, Become
<1> HIDE DEF h
<1>5. HandlerOK(h, git, agreed', on)
  BY <1>3 DEF HandlerOK, HandlerTyped, ReliesOn
<1> QED BY <1>3, <1>4, <1>5, WorkFacts, Popups, TaskStep

LEMMA CommitIncludedChangesStep ==
    ASSUME NEW on, WorkInv(on), NEW t \in Task, CommitIncludedChanges(t)
    PROVE  WorkInv(on)'
<1> DEFINE selected == {f \in ShownFiles : view.files[f] # "none"}
           files == [f \in selected |-> view.files[f]]
           h == [Handler("commit", "unstage", NoBranch, view.head, FALSE) EXCEPT !.files = files]
<1>1. view.head \in Branch /\ view.files \in Selected
  BY DEF WorkInv, WorkTyped, View
<1>2. files \in Selected
  <2>1. selected \in SUBSET File
    BY <1>1 DEF Selected, ShownFiles
  <2>2. files \in [selected -> {"all", "none", "partial"}]
    BY <1>1 DEF Selected, ShownFiles
  <2> QED BY <2>1, <2>2 DEF Selected
<1>3. /\ task' = [task EXCEPT ![t] = h] /\ UNCHANGED <<git, view, popup, setting, agreed>>
      /\ \A u \in Task : task[u].kind # "commit"
  BY DEF CommitIncludedChanges, Become
<1> HIDE DEF files
<1>4. h \in Committing /\ h.kind = "commit" /\ h.at = "unstage"
  BY <1>1, <1>2 DEF Handler, Committing
<1> HIDE DEF h
<1>5. HandlerOK(h, git, agreed', on)
  BY <1>4 DEF HandlerOK, HandlerTyped, ReliesOn
<1> QED BY <1>3, <1>4, <1>5, WorkFacts, Popups, TaskStep

LEMMA ClickStep ==
    ASSUME NEW on, WorkInv(on), NEW t \in Task, Click(t)
    PROVE  WorkInv(on)'
BY CheckoutBranchStep, CreateStashStep, PopStashStep, DropStashStep,
   CommitIncludedChangesStep, DiscardChangesStep DEF Click

LEMMA AnswerStep ==
    ASSUME NEW on, WorkInv(on), NEW t \in Task, Answer(t)
    PROVE  WorkInv(on)'
BY SubmitSwitchStep, SubmitOverwriteStep, DismissPopupStep DEF Answer

LEMMA SelectStep == ASSUME NEW on, WorkInv(on), Select PROVE WorkInv(on)'
<1>1. view.files \in Selected /\ ShownFiles \subseteq File
  BY DEF WorkInv, WorkTyped, View, Selected, ShownFiles
<1>2. /\ UNCHANGED <<git, popup, task, setting, agreed>>
      /\ \E files \in [ShownFiles -> {"all", "none", "partial"}] :
            view' = [view EXCEPT !.files = files]
  <2>1. ASSUME NEW f \in File, NEW s \in {"all", "none", "partial"}, SelectFile(f, s)
        PROVE  \E files \in [ShownFiles -> {"all", "none", "partial"}] :
                 view' = [view EXCEPT !.files = files]
    <3>1. view' = [view EXCEPT !.files = [view.files EXCEPT ![f] = s]]
      BY <2>1 DEF SelectFile
    <3>2. [view.files EXCEPT ![f] = s] \in [ShownFiles -> {"all", "none", "partial"}]
      BY <1>1 DEF Selected, ShownFiles
    <3> QED BY <3>1, <3>2
  <2>2. ASSUME NEW s \in {"all", "none"}, IncludeAllFiles(s)
        PROVE  \E files \in [ShownFiles -> {"all", "none", "partial"}] :
                 view' = [view EXCEPT !.files = files]
    <3>1. view' = [view EXCEPT !.files = [f \in ShownFiles |-> s]]
      BY <2>2 DEF IncludeAllFiles
    <3>2. [f \in ShownFiles |-> s] \in [ShownFiles -> {"all", "none", "partial"}]
      OBVIOUS
    <3> QED BY <3>1, <3>2
  <2> QED BY <2>1, <2>2 DEF Select, SelectFile, IncludeAllFiles
<1>3. PICK files \in [ShownFiles -> {"all", "none", "partial"}] :
         view' = [view EXCEPT !.files = files]
  BY <1>2
<1>4. files \in Selected /\ DOMAIN files = ShownFiles
  BY <1>1 DEF Selected
<1>5. /\ view' \in View /\ view'.stash = view.stash /\ view'.untracked = view.untracked
      /\ view'.files = files
  BY <1>3, <1>4 DEF WorkInv, WorkTyped, View
<1>6. WorkTyped' /\ KnownStashes'
  BY <1>2, <1>5 DEF WorkInv, WorkTyped, PopupTyped, KnownStashes
<1>7. UntrackedAreShown'
  BY <1>2, <1>4, <1>5 DEF WorkInv, UntrackedAreShown, ShownFiles
<1>8. HandlersOK(on)' /\ (on => NoWorkLost') /\ OneCommit'
  BY <1>2 DEF WorkInv, HandlersOK, NoWorkLost, OneCommit
<1> QED BY <1>2, <1>6, <1>7, <1>8 DEF WorkInv

-----------------------------------------------------------------------------
(* The git commands.                                                         *)

LEMMA GitFacts ==
    ASSUME NEW on, WorkInv(on)
    PROVE  /\ git \in Repository /\ git.head \in Branch /\ git.tree \in [Branch -> [File -> Int]]
           /\ git.index \in Part /\ DOMAIN git.index \subseteq File
           /\ git.stash \in Seq(Entry) /\ git.work \in [File -> Int] /\ git.entries \in Nat
           /\ git.made \in Nat /\ git.history \in SUBSET Int
           /\ Tree \in [File -> Int] /\ Changed \subseteq File
           /\ Written(git) /\ Numbered(git)
<1>1. git \in Repository /\ Written(git) /\ Numbered(git)
  BY DEF WorkInv, WorkTyped
<1>2. DOMAIN git.index \subseteq File
  BY <1>1 DEF Repository, Part
<1> QED BY <1>1, <1>2 DEF Repository, Tree, Changed

\* A command that keeps what the repository is for.
GitFollows(g, given, on) ==
  /\ g \in Repository /\ Written(g) /\ Numbered(g) /\ KeepsEntries(g)
  /\ g.made = git.made /\ (on => StaysHeld(g, given))

LEMMA CommandStep ==
    ASSUME NEW on, WorkInv(on),
           NEW t \in Task, NEW j \in Loading \cup Handling \cup Committing,
           task' = [task EXCEPT ![t] = j], OthersOK(t, on),
           j.kind # "commit" \/ task[t].kind = "commit",
           GitFollows(git', agreed', on),
           j \notin Loading => HandlerOK(j, git', agreed', on),
           j.at \notin {"stash", "status"},
           UNCHANGED <<view, popup, setting>>
    PROVE  WorkInv(on)'
<1>1. on => NoWorkLost'
  BY HeldIsKept DEF GitFollows, WorkInv, WorkTyped
<1> QED BY <1>1, HandlerStep DEF GitFollows

LEMMA NothingFollows == ASSUME NEW on, WorkInv(on), NEW given, agreed \subseteq given
                        PROVE GitFollows(git, given, on)
<1>1. KeepsEntries(git)
  BY GitFacts DEF KeepsEntries
<1>2. StaysHeld(git, given)
  BY DEF StaysHeld, HeldIn
<1> QED BY <1>1, <1>2, GitFacts DEF GitFollows

\* update-index.
LEMMA IndexFollows ==
    ASSUME NEW on, WorkInv(on), NEW index \in Part,
           \A f \in DOMAIN index : index[f] \in (0 - git.made) .. git.made,
           NEW g, g = [git EXCEPT !.index = index]
    PROVE  GitFollows(g, agreed, on) /\ g.stash = git.stash /\ g.entries = git.entries
           /\ g.index = index /\ g.work = git.work
<1>1. /\ g \in Repository /\ g.stash = git.stash /\ g.entries = git.entries /\ g.index = index
      /\ g.work = git.work /\ g.made = git.made /\ g.tree = git.tree /\ g.history = git.history
  BY GitFacts DEF Repository
<1>2. Written(g) /\ Numbered(g) /\ KeepsEntries(g)
  BY <1>1, GitFacts DEF Written, Numbered, KeepsEntries
<1>3. StaysHeld(g, agreed)
  BY <1>1 DEF StaysHeld, HeldIn
<1> QED BY <1>1, <1>2, <1>3 DEF GitFollows

LEMMA IndexWithIs ==
    ASSUME NEW on, WorkInv(on), NEW contents \in Part,
           \A f \in DOMAIN contents : contents[f] \in (0 - git.made) .. git.made
    PROVE  /\ IndexWith(contents) \in Part
           /\ DOMAIN IndexWith(contents) = (DOMAIN git.index) \cup (DOMAIN contents)
           /\ \A f \in DOMAIN IndexWith(contents) :
                 IndexWith(contents)[f] \in (0 - git.made) .. git.made
<1> DEFINE D == (DOMAIN git.index) \cup (DOMAIN contents)
<1>1. D \in SUBSET File
  BY GitFacts DEF Part
<1>2. \A f \in D : (IF f \in DOMAIN contents THEN contents[f] ELSE git.index[f])
                     \in (0 - git.made) .. git.made
  BY GitFacts DEF Written
<1>3. git.made \in Int /\ \A x \in (0 - git.made) .. git.made : x \in Int
  BY GitFacts
<1>4. IndexWith(contents) \in [D -> Int]
  BY <1>2, <1>3 DEF IndexWith
<1> QED BY <1>1, <1>2, <1>4 DEF Part, IndexWith

LEMMA NothingIs == <<>> \in Part /\ DOMAIN <<>> = {}
BY DEF Part

LEMMA WorkOfIs ==
    ASSUME NEW on, WorkInv(on), NEW files \in SUBSET File
    PROVE  /\ WorkOf(files) \in Part /\ DOMAIN WorkOf(files) = files
           /\ \A f \in files : /\ WorkOf(files)[f] = git.work[f]
                               /\ WorkOf(files)[f] \in (0 - git.made) .. git.made
<1>1. WorkOf(files) \in [files -> Int]
  BY GitFacts DEF WorkOf
<1> QED BY <1>1, GitFacts DEF Part, WorkOf, Written

\* stash push
LEMMA PushFollows ==
    ASSUME NEW on, WorkInv(on), NEW b \in Branch, NEW g, g = GitStashPush(b)
    PROVE  /\ GitFollows(g, agreed, on) /\ g.entries = git.entries + 1
           /\ DOMAIN g.stash = 1 .. Len(git.stash) + 1
           /\ g.stash[1].sha = git.entries + 1 /\ g.stash[1].branch = b
           /\ \A i \in DOMAIN git.stash : g.stash[i + 1] = git.stash[i]
<1> DEFINE e == [sha |-> git.entries + 1, branch |-> b, files |-> WorkOf(Stashable)]
           w == [f \in File |-> IF f \in Stashable THEN Tree[f] ELSE git.work[f]]
<1>1. Stashable \in SUBSET File
  BY GitFacts DEF Stashable
<1>2. e \in Entry
  BY <1>1, GitFacts, WorkOfIs DEF Entry
<1>3. w \in [File -> Int]
  BY GitFacts
<1>4. e.sha = git.entries + 1 /\ e.branch = b /\ e.files = WorkOf(Stashable)
  OBVIOUS
<1>5. g = [git EXCEPT !.stash = <<e>> \o @, !.entries = @ + 1, !.work = w, !.index = <<>>]
  BY GitFacts DEF GitStashPush, Repository
<1> HIDE DEF e
<1>6. /\ <<e>> \o git.stash \in Seq(Entry)
      /\ DOMAIN (<<e>> \o git.stash) = 1 .. Len(git.stash) + 1
      /\ (<<e>> \o git.stash)[1] = e
      /\ \A k \in DOMAIN git.stash : (<<e>> \o git.stash)[k + 1] = git.stash[k]
  BY <1>2, GitFacts, Pushed
<1> DEFINE s == <<e>> \o git.stash
<1> HIDE DEF s, w
<1>7. /\ g \in Repository /\ g.stash = s /\ g.entries = git.entries + 1 /\ g.work = w
      /\ g.index = <<>> /\ g.made = git.made /\ g.tree = git.tree /\ g.history = git.history
  <2>1. g = [git EXCEPT !.stash = s, !.entries = git.entries + 1, !.work = w, !.index = <<>>]
    BY <1>5, GitFacts DEF Repository, s
  <2>2. s \in Seq(Entry) /\ git.entries + 1 \in Nat
    BY <1>6, GitFacts DEF s
  <2>3. git \in Repository /\ <<>> \in Part
    BY GitFacts, NothingIs
  <2> QED BY <1>3, <2>1, <2>2, <2>3 DEF Repository
<1>8. /\ DOMAIN s = 1 .. Len(git.stash) + 1 /\ s[1] = e
      /\ \A k \in DOMAIN git.stash : s[k + 1] = git.stash[k]
      /\ DOMAIN git.stash = 1 .. Len(git.stash) /\ Len(git.stash) \in Nat
  BY <1>6, GitFacts DEF s
<1>9. \A i \in DOMAIN s : i = 1 \/ (i - 1 \in DOMAIN git.stash /\ s[i] = git.stash[i - 1])
  <2>1. ASSUME NEW i \in DOMAIN s, i # 1
        PROVE  i - 1 \in DOMAIN git.stash /\ s[i] = git.stash[i - 1]
    <3>1. i - 1 \in DOMAIN git.stash /\ (i - 1) + 1 = i
      BY <1>8, <2>1
    <3> QED BY <1>8, <3>1
  <2> QED BY <2>1
<1>10. Written(g)
  <2>1. \A f \in File : w[f] \in (0 - git.made) .. git.made
    BY GitFacts DEF Written, w, Tree
  <2>2. ASSUME NEW i \in DOMAIN s, NEW f \in File, f \in DOMAIN s[i].files
        PROVE  s[i].files[f] \in (0 - git.made) .. git.made
    <3>1. CASE i = 1
      BY <1>1, <1>4, <1>8, <2>2, <3>1, WorkOfIs
    <3>2. CASE i # 1
      BY <1>9, <2>2, <3>2, GitFacts DEF Written
    <3> QED BY <3>1, <3>2
  <2>3. \A b1 \in Branch, f \in File :
          /\ g.tree[b1][f] \in (0 - g.made) .. g.made
          /\ g.tree[b1][f] > 0 => g.tree[b1][f] \in g.history
    BY <1>7, GitFacts DEF Written
  <2>4. DOMAIN g.index = {}
    BY <1>7, NothingIs
  <2> QED BY <1>7, <2>1, <2>2, <2>3, <2>4 DEF Written
<1>11. Numbered(g)
  <2>1. \A i \in DOMAIN s : i # 1 => s[i].sha \in Nat /\ s[i].sha <= git.entries
    BY <1>9, GitFacts, EntryOf DEF Numbered
  <2>2. ASSUME NEW i \in DOMAIN s, NEW k \in DOMAIN s, i < k PROVE s[i].sha > s[k].sha
    <3>1. CASE i = 1
      BY <1>4, <1>8, <2>1, <2>2, <3>1, GitFacts
    <3>2. CASE i # 1
      <4>1. i \in Nat /\ k \in Nat /\ k # 1 /\ i - 1 < k - 1
        BY <1>8, <2>2, <3>2
      <4> QED BY <1>9, <3>2, <4>1, GitFacts DEF Numbered
    <3> QED BY <3>1, <3>2
  <2>3. \A i \in DOMAIN s : s[i].sha <= git.entries + 1
    BY <1>4, <1>8, <2>1, GitFacts
  <2> QED BY <1>7, <2>2, <2>3 DEF Numbered
<1>12. KeepsEntries(g)
  <2>1. s[1].sha > git.entries
    BY <1>4, <1>8, GitFacts
  <2>2. \A i \in DOMAIN s : s[i].sha > git.entries \/ \E k \in DOMAIN git.stash : s[i] = git.stash[k]
    BY <1>9, <2>1
  <2>3. git.entries <= git.entries + 1
    BY GitFacts
  <2> QED BY <1>7, <2>2, <2>3 DEF KeepsEntries
<1>13. StaysHeld(g, agreed)
  <2> SUFFICES ASSUME NEW k \in 1 .. git.made, HeldIn(git, agreed, k) PROVE HeldIn(g, agreed, k)
    BY <1>7 DEF StaysHeld
  <2>1. ASSUME NEW f \in File, git.work[f] = k PROVE HeldIn(g, agreed, k)
    <3>1. CASE f \in Stashable
      <4>1. 1 \in DOMAIN g.stash /\ f \in DOMAIN g.stash[1].files /\ g.stash[1].files[f] = k
        BY <1>1, <1>4, <1>7, <1>8, <2>1, <3>1, WorkOfIs
      <4> QED BY <4>1 DEF HeldIn
    <3>2. CASE f \notin Stashable
      <4>1. g.work[f] = k
        BY <1>7, <2>1, <3>2 DEF w
      <4> QED BY <4>1 DEF HeldIn
    <3> QED BY <3>1, <3>2
  <2>2. ASSUME NEW i \in DOMAIN git.stash, NEW f \in File,
               f \in DOMAIN git.stash[i].files, git.stash[i].files[f] = k
        PROVE  HeldIn(g, agreed, k)
    <3>1. i + 1 \in DOMAIN g.stash /\ g.stash[i + 1] = git.stash[i]
      BY <1>7, <1>8
    <3> QED BY <2>2, <3>1 DEF HeldIn
  <2> QED BY <1>7, <2>1, <2>2 DEF HeldIn
<1> QED BY <1>4, <1>7, <1>8, <1>10, <1>11, <1>12, <1>13 DEF GitFollows

\* stash drop: the others keep their order.
LEMMA RemovedIs ==
    ASSUME NEW s \in Seq(Entry), NEW i \in DOMAIN s, NEW r, r = RemoveAt(s, i)
    PROVE  /\ r \in Seq(Entry)
           /\ \A n \in DOMAIN r : \E m \in DOMAIN s :
                 r[n] = s[m] /\ m # i /\ m = (IF n < i THEN n ELSE n + 1)
           /\ \A m \in DOMAIN s : m # i => \E n \in DOMAIN r : r[n] = s[m]
<1>1. /\ r \in Seq(Entry) /\ DOMAIN r = 1 .. Len(s) - 1
      /\ \A k \in 1 .. Len(s) - 1 : r[k] = IF k < i THEN s[k] ELSE s[k + 1]
  BY Removed
<1>2. Len(s) \in Nat /\ DOMAIN s = 1 .. Len(s)
  OBVIOUS
<1>3. ASSUME NEW n \in DOMAIN r
      PROVE  \E m \in DOMAIN s : r[n] = s[m] /\ m # i /\ m = (IF n < i THEN n ELSE n + 1)
  <2>1. CASE n < i
    <3>1. n \in DOMAIN s /\ n # i /\ r[n] = s[n]
      BY <1>1, <1>2, <2>1
    <3> QED BY <2>1, <3>1
  <2>2. CASE ~ (n < i)
    <3>1. n + 1 \in DOMAIN s /\ n + 1 # i /\ r[n] = s[n + 1]
      BY <1>1, <1>2, <2>2
    <3> QED BY <2>2, <3>1
  <2> QED BY <2>1, <2>2
<1>4. ASSUME NEW m \in DOMAIN s, m # i PROVE \E n \in DOMAIN r : r[n] = s[m]
  <2>1. CASE m < i
    <3>1. m \in DOMAIN r /\ r[m] = s[m]
      BY <1>1, <1>2, <2>1
    <3> QED BY <3>1
  <2>2. CASE ~ (m < i)
    <3>1. m - 1 \in DOMAIN r /\ ~ (m - 1 < i) /\ (m - 1) + 1 = m
      BY <1>1, <1>2, <1>4, <2>2
    <3>2. r[m - 1] = s[m]
      BY <1>1, <3>1
    <3> QED BY <3>1, <3>2
  <2> QED BY <2>1, <2>2
<1> QED BY <1>1, <1>3, <1>4

\* What a command has to see to: what it takes out of the working directory or off the
\* stash is given up or is somewhere else.
LEMMA CommandFollows ==
    ASSUME NEW on, WorkInv(on), NEW g \in Repository, NEW given, agreed \subseteq given,
           g.made = git.made, g.entries = git.entries, git.history \subseteq g.history,
           \A f \in File : g.work[f] \in (0 - git.made) .. git.made,
           \A f \in DOMAIN g.index : g.index[f] \in (0 - git.made) .. git.made,
           \A b \in Branch, f \in File :
              /\ g.tree[b][f] \in (0 - git.made) .. git.made
              /\ g.tree[b][f] > 0 => g.tree[b][f] \in g.history,
           \A f \in File : \/ g.work[f] = git.work[f] \/ git.work[f] \in given
                           \/ git.work[f] \in g.history \/ git.work[f] <= 0,
           \/ g.stash = git.stash
           \/ \E i \in DOMAIN git.stash :
                 /\ g.stash = RemoveAt(git.stash, i)
                 /\ on => \A f \in DOMAIN git.stash[i].files :
                       \/ git.stash[i].files[f] \in given
                       \/ \E h \in File : g.work[h] = git.stash[i].files[f]
    PROVE  GitFollows(g, given, on)
<1>1. \A n \in DOMAIN g.stash : \E m \in DOMAIN git.stash : g.stash[n] = git.stash[m]
  BY GitFacts, RemovedIs
<1>2. Written(g)
  BY <1>1, GitFacts DEF Written
<1>3. Numbered(g)
  <2>1. ASSUME NEW n \in DOMAIN g.stash, NEW k \in DOMAIN g.stash, n < k
        PROVE  g.stash[n].sha > g.stash[k].sha
    <3>1. CASE g.stash = git.stash
      BY <2>1, <3>1, GitFacts DEF Numbered
    <3>2. CASE g.stash # git.stash
      <4>1. PICK i \in DOMAIN git.stash : g.stash = RemoveAt(git.stash, i)
        BY <3>2
      <4>2. PICK m1 \in DOMAIN git.stash :
               g.stash[n] = git.stash[m1] /\ m1 = (IF n < i THEN n ELSE n + 1)
        BY <4>1, GitFacts, RemovedIs
      <4>3. PICK m2 \in DOMAIN git.stash :
               g.stash[k] = git.stash[m2] /\ m2 = (IF k < i THEN k ELSE k + 1)
        BY <4>1, GitFacts, RemovedIs
      <4>4. n \in Nat /\ k \in Nat /\ i \in Nat
        <5>1. g.stash \in Seq(Entry) /\ git.stash \in Seq(Entry)
          BY GitFacts DEF Repository
        <5> QED BY <5>1
      <4>5. m1 < m2
        BY <2>1, <4>2, <4>3, <4>4
      <4> QED BY <4>2, <4>3, <4>5, GitFacts DEF Numbered
    <3> QED BY <3>1, <3>2
  <2>2. \A n \in DOMAIN g.stash : g.stash[n].sha <= g.entries
    BY <1>1, GitFacts DEF Numbered
  <2> QED BY <2>1, <2>2 DEF Numbered
<1>4. KeepsEntries(g)
  BY <1>1, GitFacts DEF KeepsEntries
<1>5. on => StaysHeld(g, given)
  <2> SUFFICES ASSUME on, NEW k \in 1 .. git.made, HeldIn(git, agreed, k)
               PROVE  HeldIn(g, given, k)
    BY DEF StaysHeld
  <2>0. k \in Int /\ k > 0
    BY GitFacts
  <2>1. ASSUME NEW f \in File, git.work[f] = k PROVE HeldIn(g, given, k)
    BY <2>0, <2>1 DEF HeldIn
  <2>2. ASSUME NEW m \in DOMAIN git.stash, NEW f \in File,
               f \in DOMAIN git.stash[m].files, git.stash[m].files[f] = k
        PROVE  HeldIn(g, given, k)
    <3>1. CASE \E n \in DOMAIN g.stash : g.stash[n] = git.stash[m]
      BY <2>2, <3>1 DEF HeldIn
    <3>2. CASE ~ \E n \in DOMAIN g.stash : g.stash[n] = git.stash[m]
      <4>1. PICK i \in DOMAIN git.stash :
               /\ g.stash = RemoveAt(git.stash, i)
               /\ \A e \in DOMAIN git.stash[i].files :
                     \/ git.stash[i].files[e] \in given
                     \/ \E h \in File : g.work[h] = git.stash[i].files[e]
        BY <3>2
      <4>a. git.stash \in Seq(Entry)
        BY GitFacts
      <4>b. g.stash = RemoveAt(git.stash, i)
        BY <4>1
      <4>2. m = i
        BY ONLY <3>2, <4>a, <4>b, RemovedIs, m \in DOMAIN git.stash, i \in DOMAIN git.stash
      <4>3. k \in given \/ \E h \in File : g.work[h] = k
        BY <2>2, <4>1, <4>2
      <4> QED BY <4>3 DEF HeldIn
    <3> QED BY <3>1, <3>2
  <2> QED BY <2>1, <2>2 DEF HeldIn
<1> QED BY <1>2, <1>3, <1>4, <1>5 DEF GitFollows

\* stash drop
LEMMA DropFollows ==
    ASSUME NEW on, WorkInv(on), NEW i \in DOMAIN git.stash, NEW given, agreed \subseteq given,
           on => \A f \in DOMAIN git.stash[i].files :
              \/ git.stash[i].files[f] \in given
              \/ \E h \in File : git.work[h] = git.stash[i].files[f]
    PROVE  GitFollows(GitStashDrop(i), given, on)
<1> DEFINE r == RemoveAt(git.stash, i)
           g == GitStashDrop(i)
<1>1. r \in Seq(Entry)
  BY GitFacts, Removed
<1>2. g = [git EXCEPT !.stash = r]
  BY GitFacts DEF GitStashDrop, Repository
<1> HIDE DEF r, g
<1>3. /\ g \in Repository /\ g.stash = r /\ g.work = git.work /\ g.index = git.index
      /\ g.made = git.made /\ g.entries = git.entries /\ g.tree = git.tree
      /\ g.history = git.history
  BY <1>1, <1>2, GitFacts DEF Repository
<1>4. GitFollows(g, given, on)
  <2>1. /\ \A f \in File : g.work[f] \in (0 - git.made) .. git.made
        /\ \A f \in DOMAIN g.index : g.index[f] \in (0 - git.made) .. git.made
        /\ \A b \in Branch, f \in File :
              /\ g.tree[b][f] \in (0 - git.made) .. git.made
              /\ g.tree[b][f] > 0 => g.tree[b][f] \in g.history
    BY <1>3, GitFacts DEF Written
  <2>2. \E k \in DOMAIN git.stash :
          /\ g.stash = RemoveAt(git.stash, k)
          /\ on => \A f \in DOMAIN git.stash[k].files :
                \/ git.stash[k].files[f] \in given
                \/ \E h \in File : g.work[h] = git.stash[k].files[f]
    BY <1>3 DEF r
  <2> QED BY <1>3, <2>1, <2>2, CommandFollows
<1> QED BY <1>4 DEF g

\* stash pop, with or without conflicts
LEMMA ApplyFollows ==
    ASSUME NEW on, WorkInv(on), NEW i \in DOMAIN git.stash, CanApply(git.stash[i]),
           NEW g, \/ g = GitStashApply(git.stash[i])
                  \/ g = [GitStashApply(git.stash[i]) EXCEPT !.stash = RemoveAt(@, i)]
    PROVE  /\ GitFollows(g, agreed, on)
           /\ \A f \in DOMAIN git.stash[i].files :
                 \E h \in File : g.work[h] = git.stash[i].files[f]
<1> DEFINE files == git.stash[i].files
           w == [f \in File |-> IF f \in DOMAIN files THEN files[f] ELSE git.work[f]]
           new == {f \in DOMAIN files : Tree[f] = 0}
           c == [f \in new |-> files[f]]
           index == IndexWith(c)
           r == RemoveAt(git.stash, i)
<1>1. /\ files \in Part /\ DOMAIN files \subseteq File
      /\ \A f \in DOMAIN files : files[f] \in Int /\ files[f] \in (0 - git.made) .. git.made
  BY GitFacts, EntryOf DEF Written
<1>2. w \in [File -> Int] /\ \A f \in File : w[f] \in (0 - git.made) .. git.made
  BY <1>1, GitFacts DEF Written
<1>3. c \in Part /\ \A f \in DOMAIN c : c[f] \in (0 - git.made) .. git.made
  <2>1. c \in [new -> Int] /\ new \in SUBSET File
    BY <1>1
  <2> QED BY <1>1, <2>1 DEF Part
<1> HIDE DEF c
<1>4. index \in Part /\ \A f \in DOMAIN index : index[f] \in (0 - git.made) .. git.made
  BY <1>3, IndexWithIs
<1>5. r \in Seq(Entry)
  BY GitFacts, Removed
<1>6. GitStashApply(git.stash[i]) = [git EXCEPT !.work = w, !.index = index]
  BY GitFacts DEF GitStashApply, Repository, c
<1> HIDE DEF index, r
<1>7. \A f \in DOMAIN files : \E h \in File : w[h] = files[f]
  BY <1>1
<1>8. \A f \in File : \/ w[f] = git.work[f] \/ git.work[f] \in git.history \/ git.work[f] <= 0
  <2>1. ASSUME NEW f \in File, f \in DOMAIN files
        PROVE  git.work[f] \in git.history \/ git.work[f] <= 0
    <3>1. git.work[f] = Tree[f]
      BY <2>1 DEF CanApply, Changed, IsChanged
    <3>2. git.tree[git.head][f] > 0 => git.tree[git.head][f] \in git.history
      BY GitFacts DEF Written
    <3>3. Tree[f] \in Int
      BY GitFacts
    <3> QED BY <3>1, <3>2, <3>3 DEF Tree
  <2> QED BY <2>1
<1> HIDE DEF w
<1>9. /\ g \in Repository /\ g.work = w /\ g.index = index /\ (g.stash = git.stash \/ g.stash = r)
      /\ g.made = git.made /\ g.entries = git.entries /\ g.tree = git.tree
      /\ g.history = git.history
  <2>1. CASE g = GitStashApply(git.stash[i])
    BY <1>2, <1>4, <1>6, <2>1, GitFacts DEF Repository
  <2>2. CASE g = [GitStashApply(git.stash[i]) EXCEPT !.stash = RemoveAt(@, i)]
    <3>1. g = [git EXCEPT !.work = w, !.index = index, !.stash = r]
      BY <1>6, <2>2, GitFacts DEF r, Repository
    <3> QED BY <1>2, <1>4, <1>5, <3>1, GitFacts DEF Repository
  <2> QED BY <2>1, <2>2
<1>10. \A b \in Branch, f \in File :
          /\ g.tree[b][f] \in (0 - git.made) .. git.made
          /\ g.tree[b][f] > 0 => g.tree[b][f] \in g.history
  BY <1>9, GitFacts DEF Written
<1>11. GitFollows(g, agreed, on)
  BY <1>2, <1>4, <1>7, <1>8, <1>9, <1>10, CommandFollows DEF r
<1> QED BY <1>7, <1>9, <1>11

\* checkout
LEMMA CheckoutFollows ==
    ASSUME NEW on, WorkInv(on), NEW b \in Branch
    PROVE  GitFollows(GitCheckout(b), agreed, on)
<1> DEFINE w == [f \in File |-> IF IsChanged(f) THEN git.work[f] ELSE git.tree[b][f]]
           g == GitCheckout(b)
<1>1. g = [git EXCEPT !.head = b, !.work = w]
  BY GitFacts DEF GitCheckout, Repository
<1>2. w \in [File -> Int] /\ \A f \in File : w[f] \in (0 - git.made) .. git.made
  BY GitFacts DEF Written
<1>3. \A f \in File : \/ w[f] = git.work[f] \/ git.work[f] \in git.history \/ git.work[f] <= 0
  <2>1. ASSUME NEW f \in File, ~ IsChanged(f)
        PROVE  git.work[f] \in git.history \/ git.work[f] <= 0
    <3>1. git.work[f] = git.tree[git.head][f]
      BY <2>1 DEF IsChanged, Tree
    <3>2. git.tree[git.head][f] > 0 => git.tree[git.head][f] \in git.history
      BY GitFacts DEF Written
    <3>3. git.work[f] \in Int
      BY GitFacts
    <3> QED BY <3>1, <3>2, <3>3
  <2> QED BY <2>1
<1> HIDE DEF w, g
<1>4. /\ g \in Repository /\ g.work = w /\ g.index = git.index /\ g.stash = git.stash
      /\ g.made = git.made /\ g.entries = git.entries /\ g.tree = git.tree
      /\ g.history = git.history
  BY <1>1, <1>2, GitFacts DEF Repository
<1>5. /\ \A f \in DOMAIN g.index : g.index[f] \in (0 - git.made) .. git.made
      /\ \A c \in Branch, f \in File :
            /\ g.tree[c][f] \in (0 - git.made) .. git.made
            /\ g.tree[c][f] > 0 => g.tree[c][f] \in g.history
  BY <1>4, GitFacts DEF Written
<1>6. GitFollows(g, agreed, on)
  BY <1>2, <1>3, <1>4, <1>5, CommandFollows
<1> QED BY <1>6 DEF g

\* commit
LEMMA CommitFollows == ASSUME NEW on, WorkInv(on) PROVE GitFollows(GitCommit, agreed, on)
<1> DEFINE index == git.index
           t == [f \in File |-> IF f \in DOMAIN index THEN index[f] ELSE git.tree[git.head][f]]
           tree == [git.tree EXCEPT ![git.head] = t]
           history == git.history \cup Range(index)
           g == GitCommit
<1>1. /\ index \in Part /\ DOMAIN index \subseteq File
      /\ \A f \in DOMAIN index : index[f] \in (0 - git.made) .. git.made /\ index[f] \in Int
  BY GitFacts DEF Part, Written
<1>2. t \in [File -> Int]
  BY <1>1, GitFacts
<1>3. tree \in [Branch -> [File -> Int]]
  BY <1>2, GitFacts
<1>4. history \in SUBSET Int
  BY <1>1, GitFacts DEF Range
<1>5. g = [git EXCEPT !.tree = tree, !.history = history, !.index = <<>>]
  BY GitFacts DEF GitCommit, Repository
<1>6. ASSUME NEW b \in Branch, NEW f \in File
      PROVE  /\ tree[b][f] \in (0 - git.made) .. git.made
             /\ tree[b][f] > 0 => tree[b][f] \in history
  <2>1. CASE b = git.head /\ f \in DOMAIN index
    <3>1. tree[b][f] = index[f]
      BY <2>1, GitFacts
    <3> QED BY <1>1, <2>1, <3>1 DEF Range
  <2>2. CASE ~ (b = git.head /\ f \in DOMAIN index)
    <3>1. tree[b][f] = git.tree[b][f]
      BY <2>2, GitFacts
    <3> QED BY <3>1, GitFacts DEF Written
  <2> QED BY <2>1, <2>2
<1> HIDE DEF tree, history, g
<1>7. /\ g \in Repository /\ g.work = git.work /\ g.index = <<>> /\ g.stash = git.stash
      /\ g.made = git.made /\ g.entries = git.entries /\ g.tree = tree /\ g.history = history
  BY <1>3, <1>4, <1>5, GitFacts, NothingIs DEF Repository
<1>8. \A f \in File : g.work[f] \in (0 - git.made) .. git.made
  BY <1>7, GitFacts DEF Written
<1>9. git.history \subseteq g.history
  BY <1>7 DEF history
<1>10. DOMAIN g.index = {}
  BY <1>7, NothingIs
<1>11. GitFollows(g, agreed, on)
  BY <1>6, <1>7, <1>8, <1>9, <1>10, CommandFollows
<1> QED BY <1>11 DEF g

\* What is put into the working directory may be given up with what it replaces.
LEMMA ReplacedFollows ==
    ASSUME NEW on, WorkInv(on), NEW files \in SUBSET File, NEW g \in Repository,
           g.stash = git.stash, g.made = git.made, g.entries = git.entries, g.tree = git.tree,
           g.history = git.history,
           \A f \in File : g.work[f] \in (0 - git.made) .. git.made,
           \A f \in DOMAIN g.index : g.index[f] \in (0 - git.made) .. git.made,
           \A f \in File : f \notin files => g.work[f] = git.work[f]
    PROVE  GitFollows(g, agreed \cup Range(WorkOf(files)), on)
<1> DEFINE given == agreed \cup Range(WorkOf(files))
<1>2. \A f \in files : git.work[f] \in given
  BY WorkOfIs DEF Range
<1>3. agreed \subseteq given
  OBVIOUS
<1> HIDE DEF given
<1>4. \A b \in Branch, f \in File :
          /\ g.tree[b][f] \in (0 - git.made) .. git.made
          /\ g.tree[b][f] > 0 => g.tree[b][f] \in g.history
  BY GitFacts DEF Written
<1>5. \A f \in File : g.work[f] = git.work[f] \/ git.work[f] \in given
  BY <1>2
<1>8. GitFollows(g, given, on)
  BY <1>3, <1>4, <1>5, CommandFollows
<1> QED BY <1>8 DEF given

LEMMA TrashFollows ==
    ASSUME NEW on, WorkInv(on), NEW moved \in SUBSET File,
           NEW g, g = [git EXCEPT !.work = [f \in File |-> IF f \in moved THEN 0 ELSE @[f]]]
    PROVE  GitFollows(g, agreed \cup Range(WorkOf(moved)), on)
<1> DEFINE w == [f \in File |-> IF f \in moved THEN 0 ELSE git.work[f]]
<1>1. w \in [File -> Int] /\ \A f \in File : w[f] \in (0 - git.made) .. git.made
  BY GitFacts DEF Written
<1>2. g = [git EXCEPT !.work = w, !.index = git.index]
  BY GitFacts DEF Repository
<1>3. \A f \in DOMAIN git.index : git.index[f] \in (0 - git.made) .. git.made
  BY GitFacts DEF Written
<1>4. \A f \in File : f \notin moved => w[f] = git.work[f]
  OBVIOUS
<1> HIDE DEF w
<1>5. /\ g \in Repository /\ g.work = w /\ g.index = git.index /\ g.stash = git.stash
      /\ g.made = git.made /\ g.entries = git.entries /\ g.tree = git.tree
      /\ g.history = git.history
  BY <1>1, <1>2, GitFacts DEF Repository
<1> QED BY <1>1, <1>3, <1>4, <1>5, ReplacedFollows

LEMMA ResetFollows ==
    ASSUME NEW on, WorkInv(on), NEW files \in SUBSET File
    PROVE  GitFollows(ResetFiles(files), agreed \cup Range(WorkOf(files)), on)
<1> DEFINE w == [f \in File |-> IF f \in files /\ Tree[f] # 0 THEN Tree[f] ELSE git.work[f]]
           index == Restrict(git.index, (DOMAIN git.index) \ files)
           g == ResetFiles(files)
<1>1. w \in [File -> Int] /\ \A f \in File : w[f] \in (0 - git.made) .. git.made
  BY GitFacts DEF Written, Tree
<1>2. index \in Part /\ \A f \in DOMAIN index : index[f] \in (0 - git.made) .. git.made
  <2>1. (DOMAIN git.index) \ files \in SUBSET File
    BY GitFacts
  <2>2. \A f \in DOMAIN git.index : git.index[f] \in Int
    BY GitFacts DEF Part
  <2>3. index \in [(DOMAIN git.index) \ files -> Int]
    BY <2>2 DEF Restrict
  <2> QED BY <2>1, <2>3, GitFacts DEF Part, Restrict, Written
<1>3. g = [git EXCEPT !.work = w, !.index = index]
  BY GitFacts DEF ResetFiles, Repository
<1>4. \A f \in File : f \notin files => w[f] = git.work[f]
  OBVIOUS
<1> HIDE DEF w, index, g
<1>5. /\ g \in Repository /\ g.work = w /\ g.index = index /\ g.stash = git.stash
      /\ g.made = git.made /\ g.entries = git.entries /\ g.tree = git.tree
      /\ g.history = git.history
  BY <1>1, <1>2, <1>3, GitFacts DEF Repository
<1>6. GitFollows(g, agreed \cup Range(WorkOf(files)), on)
  BY <1>1, <1>2, <1>4, <1>5, ReplacedFollows
<1> QED BY <1>6 DEF g

-----------------------------------------------------------------------------
\* The editor writes over a file. What was there is given up.
LEMMA EditStep == ASSUME NEW on, WorkInv(on), NEW f \in File, Edit(f) PROVE WorkInv(on)'
<1> DEFINE n == git.made + 1
           w == [git.work EXCEPT ![f] = n]
<1>1. git' = [git EXCEPT !.made = n, !.work = w] /\ agreed' = agreed \cup {git.work[f]}
  BY GitFacts DEF Edit, Repository
<1>2. n \in Nat /\ w \in [File -> Int] /\ git.made \in Nat /\ git.made < n
  BY GitFacts
<1>3. w[f] = n /\ \A h \in File : h # f => w[h] = git.work[h]
  BY GitFacts
<1> HIDE DEF n, w
<1>4. /\ git' \in Repository /\ git'.work = w /\ git'.index = git.index
      /\ git'.stash = git.stash /\ git'.made = n /\ git'.entries = git.entries
      /\ git'.tree = git.tree /\ git'.history = git.history
  BY <1>1, <1>2, GitFacts DEF Repository
<1>5. \A x \in (0 - git.made) .. git.made : x \in (0 - n) .. n
  BY <1>2
<1>6. Written(git')
  <2>1. ASSUME NEW h \in File PROVE w[h] \in (0 - n) .. n
    <3>1. CASE h = f
      BY <1>2, <1>3, <3>1
    <3>2. CASE h # f
      BY <1>3, <1>5, <3>2, GitFacts DEF Written
    <3> QED BY <3>1, <3>2
  <2> QED BY <1>4, <1>5, <2>1, GitFacts DEF Written
<1>7. Numbered(git')
  BY <1>4, GitFacts DEF Numbered
<1>8. \A k : HeldIn(git, agreed, k) => HeldIn(git', agreed', k)
  <2>1. ASSUME NEW k, NEW h \in File, git.work[h] = k PROVE HeldIn(git', agreed', k)
    BY <1>1, <1>3, <1>4, <2>1 DEF HeldIn
  <2> QED BY <1>1, <1>4, <2>1 DEF HeldIn
<1>9. ASSUME on PROVE NoWorkLost'
  <2>1. \A k \in 1 .. git.made : HeldIn(git, agreed, k)
    BY <1>9, GitFacts, WorkIsHeld DEF WorkInv, NoWorkLost
  <2>2. HeldIn(git', agreed', n)
    BY <1>3, <1>4 DEF HeldIn
  <2>3. \A k \in 1 .. n : k = n \/ k \in 1 .. git.made
    BY <1>2 DEF n
  <2>4. \A k \in 1 .. git'.made : HeldIn(git', agreed', k)
    BY <1>4, <1>8, <2>1, <2>2, <2>3
  <2> QED BY <1>4, <2>4, WorkIsHeld DEF NoWorkLost
<1>10. ASSUME NEW p \in Task, task[p] \notin Loading
       PROVE  HandlerOK(task[p], git', agreed', on)
  <2> DEFINE h == task[p]
  <2>0. HandlerTyped(h) /\ (on => ReliesOn(h, git, agreed))
    BY <1>10 DEF WorkInv, HandlersOK, HandlerOK
  <2> HIDE DEF h
  <2>1. \A sha : Entries(git', sha) = Entries(git, sha)
    BY <1>4 DEF Entries
  <2>2. \A sha : IsReplaced(git, sha) => IsReplaced(git', sha)
    BY <1>4, <2>1 DEF IsReplaced
  <2>3. ASSUME NEW sha, GivenUp(git, agreed, sha) PROVE GivenUp(git', agreed', sha)
    <3>1. ASSUME NEW i \in Entries(git, sha), NEW e \in File, e \in DOMAIN git.stash[i].files
          PROVE  \/ git.stash[i].files[e] \in agreed'
                 \/ \E d \in File : w[d] = git.stash[i].files[e]
      BY <1>1, <1>3, <2>3, <3>1 DEF GivenUp
    <3> QED BY <1>4, <2>1, <3>1 DEF GivenUp
  <2>4. ASSUME on PROVE ReliesOn(h, git', agreed')
    BY <1>4, <2>0, <2>1, <2>2, <2>3, <2>4 DEF ReliesOn
  <2> QED BY <2>0, <2>4 DEF HandlerOK, h
<1>11. UNCHANGED <<view, popup, task, setting>>
  BY DEF Edit
<1>12. WorkTyped'
  BY <1>4, <1>11 DEF WorkInv, WorkTyped, PopupTyped
<1>13. KnownStashes' /\ UntrackedAreShown'
  BY <1>4, <1>11 DEF WorkInv, KnownStashes, Known, UntrackedAreShown, ShownFiles
<1>14. HandlersOK(on)' /\ OneCommit'
  BY <1>10, <1>11 DEF WorkInv, HandlersOK, OneCommit
<1> QED BY <1>6, <1>7, <1>9, <1>12, <1>13, <1>14 DEF WorkInv

-----------------------------------------------------------------------------
(* The steps of a handler.                                                   *)

LEMMA HandlerIs ==
    ASSUME NEW on, WorkInv(on), NEW t \in Task
    PROVE  /\ task[t] \in Loading \cup Handling \cup Committing
           /\ task[t].at \in {"readLast", "stageUntracked", "push", "find", "drop", "checkout",
                              "checkoutAgain", "readTransient", "findToPop", "pop", "trash", "reset"} =>
                task[t] \in Handling /\ HandlerOK(task[t], git, agreed, on)
           /\ task[t].at \in {"unstage", "stage", "commit"} =>
                task[t] \in Committing /\ HandlerOK(task[t], git, agreed, on)
           /\ \A at : [task EXCEPT ![t].at = at] = [task EXCEPT ![t] = [task[t] EXCEPT !.at = at]]
<1>1. task[t] \in Loading \cup Handling \cup Committing
  BY DEF WorkInv, WorkTyped
<1>2. task[t] \in Handling \cup Committing => HandlerOK(task[t], git, agreed, on)
  BY <1>1, JobIs DEF WorkInv, HandlersOK
<1>3. \A at : [task EXCEPT ![t].at = at] = [task EXCEPT ![t] = [task[t] EXCEPT !.at = at]]
  BY DEF WorkInv, WorkTyped
<1> QED BY <1>1, <1>2, <1>3, JobIs

\* A handler at a step where it relies on nothing.
LEMMA RestsOnNothing ==
    ASSUME NEW h \in Handling, HandlerTyped(h), NEW on, NEW g, NEW given,
           h.at \in {"checkout", "checkoutAgain", "readTransient", "findToPop", "trash", "reset"}
    PROVE  HandlerOK(h, g, given, on)
BY DEF HandlerOK, ReliesOn

LEMMA AfterStashIs ==
    ASSUME NEW h \in Handling, h.kind \in {"stash", "leave", "bring"}, NEW created \in BOOLEAN,
           NEW on, NEW g, NEW given, NEW j, j = AfterStash(h, created)
    PROVE  /\ j \in Loading \cup Handling /\ j.at \notin {"stash", "status"}
           /\ j.kind # "commit"
           /\ j \notin Loading => HandlerOK(j, g, given, on)
<1>1. CASE h.to # NoBranch
  <2>1. j = [h EXCEPT !.at = "checkout"]
    BY <1>1 DEF AfterStash
  <2>2. j \in Handling /\ j.at = "checkout" /\ j.to \in Branch /\ j.kind = h.kind
    BY <1>1, <2>1 DEF Handling
  <2>3. HandlerTyped(j)
    BY <2>2 DEF HandlerTyped
  <2> QED BY <2>2, <2>3, RestsOnNothing
<1>2. CASE h.to = NoBranch
  BY <1>2, Loadings DEF AfterStash
<1> QED BY <1>1, <1>2

LEMMA AfterDropIs ==
    ASSUME NEW h \in Handling, h.kind \in Stashing, NEW on, NEW g, NEW given, NEW j,
           j = AfterDrop(h)
    PROVE  /\ j \in Loading \cup Handling /\ j.at \notin {"stash", "status"}
           /\ j.kind # "commit"
           /\ j \notin Loading => HandlerOK(j, g, given, on)
<1>1. CASE h.kind = "drop"
  BY <1>1, Loadings DEF AfterDrop
<1>2. CASE h.kind \in {"pop", "bring"}
  BY <1>2, Loadings DEF AfterDrop
<1>3. CASE h.kind \notin {"drop", "pop", "bring"}
  <2>1. PICK created \in BOOLEAN : j = AfterStash(h, created)
    BY <1>3 DEF AfterDrop
  <2>2. h.kind \in {"stash", "leave", "bring"}
    BY <1>3 DEF Stashing
  <2> QED BY <2>1, <2>2, AfterStashIs
<1> QED BY <1>1, <1>2, <1>3

LEMMA CommitUnstageStep ==
    ASSUME NEW on, WorkInv(on), NEW t \in Task, CommitUnstage(t)
    PROVE  WorkInv(on)'
<1> DEFINE j == [task[t] EXCEPT !.at = "stage"]
<1>1. task[t] \in Committing /\ task' = [task EXCEPT ![t] = j]
  BY HandlerIs DEF CommitUnstage, Goto
<1>2. j \in Committing /\ j.at = "stage" /\ j.kind = "commit"
  BY <1>1 DEF Committing
<1>3. git' = [git EXCEPT !.index = <<>>]
  BY DEF CommitUnstage, UnstageAll
<1>4. GitFollows(git', agreed, on) /\ git'.index = <<>>
      /\ git'.stash = git.stash /\ git'.entries = git.entries /\ git'.work = git.work
  BY <1>3, NothingIs, IndexFollows
<1>5. UNCHANGED <<view, popup, setting, agreed>>
  BY DEF CommitUnstage
<1> HIDE DEF j
<1>8. task[t].kind = "commit"
  BY <1>1 DEF Committing
<1>7. OthersOK(t, on)
  BY <1>1, <1>4, <1>5, OthersKeep
<1>6. HandlerOK(j, git', agreed', on)
  BY <1>2, <1>4, NothingIs DEF HandlerOK, HandlerTyped, ReliesOn
<1> QED BY <1>1, <1>2, <1>4, <1>5, <1>6, <1>7, <1>8, CommandStep

LEMMA CommitStageStep ==
    ASSUME NEW on, WorkInv(on), NEW t \in Task, CommitStage(t)
    PROVE  WorkInv(on)'
<1> DEFINE j == [task[t] EXCEPT !.at = "commit"]
           files == task[t].files
           c == [f \in DOMAIN files |-> IF files[f] = "partial" THEN 0 - git.work[f]
                                        ELSE git.work[f]]
<1>1. task[t] \in Committing /\ (on => DOMAIN git.index = {}) /\ task' = [task EXCEPT ![t] = j]
  BY HandlerIs DEF CommitStage, Goto, HandlerOK, ReliesOn
<1>2. j \in Committing /\ j.at = "commit" /\ j.kind = "commit" /\ j.files = files
  BY <1>1 DEF Committing
<1>3. DOMAIN files \in SUBSET File
  BY <1>1 DEF Committing, Selected
<1>4. \A f \in DOMAIN files :
         /\ git.work[f] \in Int /\ git.work[f] \in (0 - git.made) .. git.made
         /\ 0 - git.work[f] \in (0 - git.made) .. git.made
  BY <1>3, GitFacts DEF Written
<1>5. c \in Part /\ DOMAIN c = DOMAIN files
      /\ \A f \in DOMAIN c : c[f] \in (0 - git.made) .. git.made
  <2>1. c \in [DOMAIN files -> Int]
    BY <1>4
  <2> QED BY <1>3, <1>4, <2>1 DEF Part
<1>6. git' = [git EXCEPT !.index = IndexWith(c)]
  BY DEF CommitStage, StageFiles
<1>7. UNCHANGED <<view, popup, setting, agreed>>
  BY DEF CommitStage
<1> HIDE DEF j, c, files
<1>8. GitFollows(git', agreed, on) /\ git'.index = IndexWith(c)
      /\ git'.stash = git.stash /\ git'.entries = git.entries /\ git'.work = git.work
  BY <1>5, <1>6, IndexWithIs, IndexFollows
<1>9. on => DOMAIN git'.index \subseteq DOMAIN j.files
  BY <1>1, <1>2, <1>5, <1>8, IndexWithIs
<1>10. HandlerOK(j, git', agreed', on)
  BY <1>2, <1>9 DEF HandlerOK, HandlerTyped, ReliesOn
<1>11. task[t].kind = "commit"
  BY <1>1 DEF Committing
<1>12. OthersOK(t, on)
  BY <1>1, <1>7, <1>8, OthersKeep
<1> QED BY <1>1, <1>2, <1>7, <1>8, <1>10, <1>11, <1>12, CommandStep

LEMMA CommitStep ==
    ASSUME NEW on, WorkInv(on), NEW t \in Task, Commit(t)
    PROVE  WorkInv(on)'
<1>1. UNCHANGED <<view, popup, setting, agreed>>
  BY DEF Commit
<1>4. task[t] \in Committing /\ task[t].kind = "commit"
  BY HandlerIs DEF Commit, Committing
<1>2. CASE git' = GitCommit /\ task' = [task EXCEPT ![t] = [kind |-> "commit", at |-> "readStatus"]]
  <2>1. GitFollows(git', agreed', on)
    BY <1>1, <1>2, CommitFollows
  <2>2. git'.stash = git.stash /\ git'.entries = git.entries /\ git'.work = git.work
    BY <1>2, GitFacts DEF GitCommit, Repository
  <2>3. OthersOK(t, on)
    BY <1>1, <1>4, <2>2, OthersKeep
  <2> QED BY <1>1, <1>2, <1>4, <2>1, <2>3, Loadings, CommandStep
<1>3. CASE git' = git /\ task' = [task EXCEPT ![t] = Idle]
  <2>1. GitFollows(git', agreed', on)
    BY <1>1, <1>3, NothingFollows
  <2>2. OthersOK(t, on)
    BY <1>1, <1>3, OthersStay
  <2> QED BY <1>1, <1>3, <2>1, <2>2, Loadings, CommandStep
<1> QED BY <1>2, <1>3 DEF Commit, Become

LEMMA ReadLastEntryStep ==
    ASSUME NEW on, WorkInv(on), NEW t \in Task, ReadLastEntry(t)
    PROVE  WorkInv(on)'
<1> DEFINE last == LastEntry(git.stash, task[t].branch)
           j == [task[t] EXCEPT !.sha = last.sha, !.at = "stageUntracked"]
<1>1. /\ task[t] \in Handling /\ task[t].kind \in {"stash", "leave"}
      /\ task[t].kind = "bring" => task[t].to \in Branch
  BY HandlerIs DEF ReadLastEntry, HandlerOK, HandlerTyped
<1>2. task' = [task EXCEPT ![t] = j]
  BY DEF ReadLastEntry, WorkInv, WorkTyped
<1>3. /\ last.sha \in Nat /\ last.sha <= git.entries
      /\ \A i \in Entries(git, last.sha) : git.stash[i].branch = task[t].branch
  <2>1. CASE last = NoEntry
    <3>1. last.sha = 0
      BY <2>1 DEF NoEntry
    <3>2. \A i \in DOMAIN git.stash : git.stash[i].sha # 0
      BY GitFacts, EntryOf
    <3> QED BY <3>1, <3>2, GitFacts DEF Entries
  <2>2. CASE last # NoEntry
    <3>1. PICK i \in DOMAIN git.stash : last = git.stash[i] /\ git.stash[i].branch = task[t].branch
      BY <2>2, GitFacts, LastEntryIs
    <3> QED BY <3>1, OneEntry, GitFacts, EntryOf DEF Entries, Numbered
  <2> QED BY <2>1, <2>2
<1> HIDE DEF last
<1>4. /\ j \in Handling /\ j.at = "stageUntracked" /\ j.kind = task[t].kind
      /\ j.sha = last.sha /\ j.branch = task[t].branch
  BY <1>1, <1>3 DEF Handling
<1>5. UNCHANGED <<git, view, popup, setting, agreed>>
  BY DEF ReadLastEntry
<1> HIDE DEF j
<1>6. HandlerOK(j, git, agreed, on)
  BY <1>1, <1>3, <1>4 DEF HandlerOK, HandlerTyped, ReliesOn
<1>7. GitFollows(git', agreed', on)
  BY <1>5, NothingFollows
<1>8. OthersOK(t, on)
  BY <1>5, OthersStay
<1> QED BY <1>1, <1>2, <1>4, <1>5, <1>6, <1>7, <1>8, CommandStep

LEMMA StageUntrackedStep ==
    ASSUME NEW on, WorkInv(on), on => Apart, NEW t \in Task, StageUntracked(t)
    PROVE  WorkInv(on)'
<1> DEFINE files == {f \in view.untracked : IsChanged(f)}
           j == [task[t] EXCEPT !.at = "push"]
<1>1. /\ task[t] \in Handling /\ HandlerOK(task[t], git, agreed, on) /\ task[t].at = "stageUntracked"
      /\ task' = [task EXCEPT ![t] = j]
  BY HandlerIs DEF StageUntracked, Goto
<1>2. /\ j \in Handling /\ j.at = "push" /\ j.kind = task[t].kind /\ j.sha = task[t].sha
      /\ j.branch = task[t].branch /\ j.to = task[t].to
  BY <1>1 DEF Handling
<1>3. files \in SUBSET File
  BY DEF WorkInv, WorkTyped, View
<1>4. git' = [git EXCEPT !.index = IndexWith(WorkOf(files))]
      /\ UNCHANGED <<view, popup, setting, agreed>>
  BY DEF StageUntracked
<1> HIDE DEF files, j
<1>5. WorkOf(files) \in Part
      /\ \A f \in DOMAIN WorkOf(files) : WorkOf(files)[f] \in (0 - git.made) .. git.made
  BY <1>3, WorkOfIs
<1>6. GitFollows(git', agreed, on) /\ git'.stash = git.stash /\ git'.entries = git.entries
  BY <1>4, <1>5, IndexWithIs, IndexFollows
<1>7. HandlerOK(j, git', agreed', on)
  BY <1>1, <1>2, <1>4, <1>6 DEF HandlerOK, HandlerTyped, ReliesOn, Entries
<1>8. task[t].kind \in Stashing \ {"drop"}
  BY <1>1 DEF HandlerOK, HandlerTyped, Stashing
<1>9. OthersOK(t, on)
  BY <1>1, <1>8, OthersApart
<1>10. j.kind # "commit"
  BY <1>2, <1>8 DEF Stashing
<1> QED BY <1>1, <1>2, <1>4, <1>6, <1>7, <1>9, <1>10, CommandStep

LEMMA StashPushStep ==
    ASSUME NEW on, WorkInv(on), on => Apart, NEW t \in Task, StashPush(t)
    PROVE  WorkInv(on)'
<1> DEFINE h == task[t]
<1>1. h \in Handling /\ HandlerOK(h, git, agreed, on) /\ h.at = "push"
  BY HandlerIs DEF StashPush
<1>2. /\ h.kind = "bring" \/ h.kind \in {"stash", "leave"}
      /\ h.kind = "bring" => h.to \in Branch
      /\ h.sha \in Nat
      /\ on /\ h.kind # "bring" =>
           /\ h.sha <= git.entries
           /\ \A i \in Entries(git, h.sha) : git.stash[i].branch = h.branch
  BY <1>1 DEF HandlerOK, HandlerTyped, ReliesOn, Handling
<1>3. UNCHANGED <<view, popup, setting, agreed>>
  BY DEF StashPush
<1>6. h.kind \in Stashing \ {"drop"} /\ h.kind # "commit"
  BY <1>2 DEF Stashing
<1>7. OthersOK(t, on)
  BY <1>1, <1>6, OthersApart
<1> HIDE DEF h
<1>4. CASE /\ git' = GitStashPush(EntryBranch(h))
           /\ task' = [task EXCEPT ![t] =
                IF h.kind = "bring" THEN [h EXCEPT !.at = "readTransient"]
                ELSE IF h.sha # 0 THEN [h EXCEPT !.at = "find"]
                ELSE AfterStash(h, TRUE)]
  <2>1. EntryBranch(h) \in Branch
    BY <1>1, <1>2 DEF EntryBranch, Handling
  <2>2. /\ GitFollows(git', agreed, on) /\ DOMAIN git'.stash = 1 .. Len(git.stash) + 1
        /\ git'.stash[1].sha = git.entries + 1 /\ git'.stash[1].branch = EntryBranch(h)
        /\ \A i \in DOMAIN git.stash : git'.stash[i + 1] = git.stash[i]
    BY <1>4, <2>1, PushFollows
  <2>3. CASE h.kind = "bring"
    <3> DEFINE j == [h EXCEPT !.at = "readTransient"]
    <3>1. j \in Handling /\ j.at = "readTransient" /\ j.kind = "bring" /\ j.to \in Branch
      BY <1>1, <1>2, <2>3 DEF Handling
    <3>2. task' = [task EXCEPT ![t] = j]
      BY <1>4, <2>3
    <3> HIDE DEF j
    <3>3. HandlerOK(j, git', agreed', on)
      BY <3>1, RestsOnNothing DEF HandlerTyped
    <3> QED BY <1>3, <2>2, <3>1, <3>2, <3>3, <1>6, <1>7, CommandStep
  <2>4. CASE h.kind # "bring" /\ h.sha # 0
    <3> DEFINE j == [h EXCEPT !.at = "find"]
    <3>1. /\ j \in Handling /\ j.at = "find" /\ j.kind = h.kind /\ j.sha = h.sha
          /\ j.kind \in {"stash", "leave"}
      BY <1>1, <1>2, <2>4 DEF Handling
    <3>2. task' = [task EXCEPT ![t] = j]
      BY <1>4, <2>4
    <3> HIDE DEF j
    <3>3. ASSUME on, NEW i \in Entries(git', h.sha)
          PROVE  \E k \in 1 .. i - 1 : git'.stash[k].branch = git'.stash[i].branch
      <4>1. i \in 1 .. Len(git.stash) + 1 /\ git'.stash[i].sha = h.sha /\ Len(git.stash) \in Nat
        BY <2>2, GitFacts DEF Entries
      <4>a. h.sha \in Nat /\ h.sha <= git.entries /\ git.entries \in Nat
        BY <1>2, <2>4, <3>3, GitFacts
      <4>2. i # 1
        BY ONLY <2>2, <4>1, <4>a
      <4>3. i - 1 \in DOMAIN git.stash /\ (i - 1) + 1 = i
        BY <4>1, <4>2, GitFacts
      <4>4. git'.stash[i] = git.stash[i - 1]
        BY <2>2, <4>3
      <4>5. git.stash[i - 1].branch = h.branch
        BY <1>2, <2>4, <3>3, <4>1, <4>3, <4>4 DEF Entries
      <4>6. EntryBranch(h) = h.branch
        BY <2>4 DEF EntryBranch
      <4>7. 1 \in 1 .. i - 1
        BY <4>1, <4>2
      <4> QED BY <2>2, <4>4, <4>5, <4>6, <4>7
    <3>4. HandlerOK(j, git', agreed', on)
      BY <3>1, <3>3 DEF HandlerOK, HandlerTyped, ReliesOn, Stashing, IsReplaced
    <3> QED BY <1>3, <2>2, <3>1, <3>2, <3>4, <1>6, <1>7, CommandStep
  <2>5. CASE h.kind # "bring" /\ h.sha = 0
    <3>1. PICK created \in BOOLEAN : task' = [task EXCEPT ![t] = AfterStash(h, created)]
      BY <1>4, <2>5, Zenon
    <3>2. PICK j : j = AfterStash(h, created)
      OBVIOUS
    <3>3. /\ j \in Loading \cup Handling /\ j.at \notin {"stash", "status"}
          /\ j.kind # "commit"
          /\ j \notin Loading => HandlerOK(j, git', agreed', on)
      BY <1>1, <1>2, <3>2, AfterStashIs
    <3> QED BY <1>3, <2>2, <3>1, <3>2, <3>3, <1>6, <1>7, CommandStep
  <2> QED BY <2>3, <2>4, <2>5
<1>5. CASE /\ git' = git
           /\ task' = [task EXCEPT ![t] = IF h.kind = "bring" THEN RefreshRepository
                                          ELSE AfterStash(h, FALSE)]
  <2>1. GitFollows(git', agreed, on)
    BY <1>5, NothingFollows
  <2>2. CASE h.kind = "bring"
    <3>1. task' = [task EXCEPT ![t] = RefreshRepository]
      BY <1>5, <2>2
    <3> QED BY <1>3, <2>1, <3>1, Loadings, <1>6, <1>7, CommandStep
  <2>3. CASE h.kind # "bring"
    <3>1. PICK created \in BOOLEAN : task' = [task EXCEPT ![t] = AfterStash(h, created)]
      BY <1>5, <2>3, Zenon
    <3>2. PICK j : j = AfterStash(h, created)
      OBVIOUS
    <3>3. /\ j \in Loading \cup Handling /\ j.at \notin {"stash", "status"}
          /\ j.kind # "commit"
          /\ j \notin Loading => HandlerOK(j, git', agreed', on)
      BY <1>1, <1>2, <3>2, AfterStashIs
    <3> QED BY <1>3, <2>1, <3>1, <3>2, <3>3, <1>6, <1>7, CommandStep
  <2> QED BY <2>2, <2>3
<1> QED BY <1>4, <1>5 DEF StashPush, Become, h

LEMMA FindEntryStep ==
    ASSUME NEW on, WorkInv(on), NEW t \in Task, FindEntry(t)
    PROVE  WorkInv(on)'
<1> DEFINE h == task[t]
           i == PlaceOf(h.sha)
           to == IF h.at = "find" THEN "drop" ELSE "pop"
           j == [h EXCEPT !.at = to, !.place = i]
<1>1. h \in Handling /\ HandlerOK(h, git, agreed, on) /\ h.at \in {"find", "findToPop"}
  BY HandlerIs DEF FindEntry
<1>2. i = 0 \/ i \in Entries(git, h.sha)
  BY DEF PlaceOf, Entries
<1>3. UNCHANGED <<git, view, popup, setting, agreed>>
  BY DEF FindEntry
<1>4. GitFollows(git', agreed', on) /\ OthersOK(t, on)
  BY <1>3, NothingFollows, OthersStay
<1>7. h.kind \in Stashing /\ h.kind # "commit"
  BY <1>1 DEF HandlerOK, HandlerTyped, Stashing
<1>5. CASE i = 0
  <2>1. task' = [task EXCEPT ![t] = AfterDrop(h)]
    BY <1>5 DEF FindEntry, Become
  <2> QED BY <1>1, <1>3, <1>4, <1>7, <2>1, AfterDropIs, CommandStep
<1>6. CASE i # 0
  <2>1. task' = [task EXCEPT ![t] = j]
    BY <1>6 DEF FindEntry, Become
  <2>2. i \in Entries(git, h.sha) /\ i \in Nat
    BY <1>2, <1>6, GitFacts DEF Entries
  <2>5. to \in {"drop", "pop"} /\ (to = "drop" <=> h.at = "find")
    BY <1>1
  <2> HIDE DEF i, h, to
  <2>3. /\ j \in Handling /\ j.at = to /\ j.place = i /\ j.sha = h.sha /\ j.kind = h.kind
        /\ j.to = h.to
    BY <1>1, <2>2, <2>5 DEF Handling
  <2> HIDE DEF j
  <2>4. HandlerOK(j, git', agreed', on)
    BY <1>1, <1>3, <1>7, <2>2, <2>3, <2>5 DEF HandlerOK, HandlerTyped, ReliesOn
  <2> QED BY <1>3, <1>4, <1>7, <2>1, <2>3, <2>4, <2>5, CommandStep
<1> QED BY <1>5, <1>6

LEMMA DropEntryStep ==
    ASSUME NEW on, WorkInv(on), on => Apart, NEW t \in Task, DropEntry(t)
    PROVE  WorkInv(on)'
<1> DEFINE h == task[t]
<1>1. h \in Handling /\ HandlerOK(h, git, agreed, on) /\ h.at = "drop"
  BY HandlerIs DEF DropEntry
<1>2. on => /\ h.place \in DOMAIN git.stash /\ git.stash[h.place].sha = h.sha
            /\ h.place \in Entries(git, h.sha)
            /\ \/ GivenUp(git, agreed, h.sha)
               \/ h.kind \in {"stash", "leave"} /\ IsReplaced(git, h.sha)
  BY <1>1 DEF HandlerOK, ReliesOn, Entries
<1>5. h.kind \in Stashing
  BY <1>1 DEF HandlerOK, HandlerTyped
<1>3. task' = [task EXCEPT ![t] = AfterDrop(h)] /\ UNCHANGED <<view, popup, setting>>
  BY DEF DropEntry, Become
<1> HIDE DEF h
<1>4. GitFollows(git', agreed', on)
  <2>1. CASE git' = git /\ agreed' = agreed
    BY <2>1, NothingFollows
  <2>2. CASE /\ git' = GitStashDrop(h.place)
             /\ h.place \in DOMAIN git.stash
             /\ agreed' = IF h.kind \in {"stash", "leave"} THEN agreed \cup Replaced(h.sha)
                          ELSE agreed
    <3>1. agreed \subseteq agreed'
      BY <2>2
    <3>2. ASSUME on, NEW f \in DOMAIN git.stash[h.place].files
          PROVE  \/ git.stash[h.place].files[f] \in agreed'
                 \/ \E e \in File : git.work[e] = git.stash[h.place].files[f]
      <4>1. CASE GivenUp(git, agreed, h.sha)
        <5>1. f \in File
          BY <1>2, <3>2, GitFacts, EntryOf
        <5> QED BY <1>2, <3>1, <3>2, <4>1, <5>1 DEF GivenUp
      <4>2. CASE h.kind \in {"stash", "leave"} /\ IsReplaced(git, h.sha)
        <5>1. \E k \in 1 .. h.place - 1 : git.stash[k].branch = git.stash[h.place].branch
          BY <1>2, <3>2, <4>2 DEF IsReplaced
        <5>2. Range(git.stash[h.place].files) \subseteq Replaced(h.sha)
          BY <1>2, <3>2, <5>1 DEF Replaced
        <5>3. git.stash[h.place].files[f] \in Range(git.stash[h.place].files)
          BY DEF Range
        <5> QED BY <2>2, <4>2, <5>2, <5>3
      <4> QED BY <1>2, <3>2, <4>1, <4>2
    <3> QED BY <2>2, <3>1, <3>2, DropFollows
  <2> QED BY <2>1, <2>2 DEF DropEntry, h
<1>6. OthersOK(t, on)
  <2>1. git'.index = git.index
    BY GitFacts DEF DropEntry, GitStashDrop, Repository
  <2> QED BY <1>1, <1>5, <2>1, OthersApart DEF h
<1> QED BY <1>1, <1>3, <1>4, <1>5, <1>6, AfterDropIs, CommandStep

LEMMA CheckoutGitStep ==
    ASSUME NEW on, WorkInv(on), on => Apart, NEW t \in Task, CheckoutGit(t)
    PROVE  WorkInv(on)'
<1> DEFINE h == task[t]
<1>1. h \in Handling /\ h.at \in {"checkout", "checkoutAgain"} /\ h.to \in Branch
      /\ h.kind \in Stashing \ {"drop"} /\ h.kind # "commit" /\ HandlerTyped(h)
  BY HandlerIs DEF CheckoutGit, HandlerOK, HandlerTyped, Stashing
<1>2. UNCHANGED <<view, popup, setting, agreed>>
  BY DEF CheckoutGit
<1>8. OthersOK(t, on)
  BY <1>1, OthersApart
<1> HIDE DEF h
<1>3. CASE task' = [task EXCEPT ![t] = RefreshRepository] /\ (git' = git \/ git' = GitCheckout(h.to))
  <2>1. GitFollows(git', agreed', on)
    BY <1>1, <1>2, <1>3, NothingFollows, CheckoutFollows
  <2> QED BY <1>2, <1>3, <2>1, <1>8, Loadings, CommandStep
<1>4. CASE /\ h.kind = "bring"
           /\ task' = [task EXCEPT ![t] = [h EXCEPT !.at = "findToPop"]] /\ git' = GitCheckout(h.to)
  <2> DEFINE j == [h EXCEPT !.at = "findToPop"]
  <2>1. j \in Handling /\ j.at = "findToPop" /\ j.to \in Branch /\ j.kind = "bring"
    BY <1>1, <1>4 DEF Handling
  <2>2. task' = [task EXCEPT ![t] = j]
    BY <1>4
  <2> HIDE DEF j
  <2>3. HandlerOK(j, git', agreed', on)
    BY <2>1, RestsOnNothing DEF HandlerTyped
  <2>4. GitFollows(git', agreed', on)
    BY <1>1, <1>2, <1>4, CheckoutFollows
  <2> QED BY <1>2, <1>8, <2>1, <2>2, <2>3, <2>4, CommandStep
<1>5. CASE /\ task' = [task EXCEPT ![t] = [h EXCEPT !.at = "stageUntracked"]]
           /\ h.kind = "bring" /\ git' = git
  <2> DEFINE j == [h EXCEPT !.at = "stageUntracked"]
  <2>1. j \in Handling /\ j.at = "stageUntracked" /\ j.kind = "bring" /\ j.to \in Branch
    BY <1>1, <1>5 DEF Handling
  <2>2. task' = [task EXCEPT ![t] = j]
    BY <1>5
  <2> HIDE DEF j
  <2>3. HandlerOK(j, git', agreed', on)
    BY <2>1 DEF HandlerOK, HandlerTyped, ReliesOn
  <2>4. GitFollows(git', agreed', on)
    BY <1>2, <1>5, NothingFollows
  <2> QED BY <1>2, <1>8, <2>1, <2>2, <2>3, <2>4, CommandStep
<1>6. \A at : Goto(t, at) => task' = [task EXCEPT ![t] = [h EXCEPT !.at = at]]
  BY HandlerIs DEF Goto, h
<1>7. \/ /\ git' = GitCheckout(h.to) /\ (h.at = "checkoutAgain" => h.kind = "bring")
         /\ task' = [task EXCEPT ![t] = IF h.at = "checkoutAgain" THEN [h EXCEPT !.at = "findToPop"]
                                        ELSE RefreshRepository]
      \/ h.kind = "bring" /\ Goto(t, "stageUntracked") /\ git' = git
      \/ task' = [task EXCEPT ![t] = RefreshRepository] /\ git' = git
  BY <1>1 DEF CheckoutGit, Become, HandlerTyped, h
<1> QED BY <1>3, <1>4, <1>5, <1>6, <1>7

LEMMA ReadTransientEntryStep ==
    ASSUME NEW on, WorkInv(on), NEW t \in Task, ReadTransientEntry(t)
    PROVE  WorkInv(on)'
<1> DEFINE h == task[t]
           e == LastEntry(git.stash, h.to)
           j == [h EXCEPT !.sha = e.sha, !.at = "checkoutAgain"]
<1>1. h \in Handling /\ h.at = "readTransient" /\ h.to \in Branch
      /\ h.kind = "bring"
  BY HandlerIs DEF ReadTransientEntry, HandlerOK, HandlerTyped
<1>2. UNCHANGED <<git, view, popup, setting, agreed>>
  BY DEF ReadTransientEntry
<1>3. GitFollows(git', agreed', on) /\ OthersOK(t, on)
  BY <1>2, NothingFollows, OthersStay
<1>4. CASE e = NoEntry
  <2>1. task' = [task EXCEPT ![t] = RefreshRepository]
    BY <1>4 DEF ReadTransientEntry, Become
  <2> QED BY <1>2, <1>3, <2>1, Loadings, CommandStep
<1>5. CASE e # NoEntry
  <2>1. task' = [task EXCEPT ![t] = j]
    BY <1>5 DEF ReadTransientEntry, Become
  <2>2. e.sha \in Nat
    BY <1>5, GitFacts, LastEntryIs, EntryOf
  <2> HIDE DEF h, e
  <2>3. j \in Handling /\ j.at = "checkoutAgain" /\ j.to \in Branch /\ j.kind = h.kind
    BY <1>1, <2>2 DEF Handling
  <2> HIDE DEF j
  <2>4. HandlerOK(j, git', agreed', on)
    BY <1>1, <2>3, RestsOnNothing DEF HandlerTyped
  <2> QED BY <1>1, <1>2, <1>3, <2>1, <2>3, <2>4, CommandStep
<1> QED BY <1>4, <1>5

LEMMA PopEntryStep ==
    ASSUME NEW on, WorkInv(on), on => Apart, NEW t \in Task, PopEntry(t)
    PROVE  WorkInv(on)'
<1> DEFINE h == task[t]
           i == h.place
           j == DropPopped(h)
<1>1. /\ h \in Handling /\ h.at = "pop" /\ (h.kind = "bring" => h.to \in Branch)
      /\ h.kind \in {"pop", "bring"} /\ (on => i \in Entries(git, h.sha))
  BY HandlerIs DEF PopEntry, HandlerOK, HandlerTyped, ReliesOn
<1>2. h.kind \in Stashing \ {"drop"} /\ h.kind # "commit"
  BY <1>1 DEF Stashing
<1>7. OthersOK(t, on)
  BY <1>1, <1>2, OthersApart
<1>3. UNCHANGED <<view, popup, setting, agreed>>
  BY DEF PopEntry
<1>4. CASE git' = git /\ task' = [task EXCEPT ![t] = RefreshRepository]
  <2>1. GitFollows(git', agreed', on)
    BY <1>3, <1>4, NothingFollows
  <2> QED BY <1>3, <1>4, <2>1, Loadings, <1>2, <1>7, CommandStep
<1>5. CASE /\ i \in DOMAIN git.stash /\ CanApply(git.stash[i])
           /\ git' = [GitStashApply(git.stash[i]) EXCEPT !.stash = RemoveAt(@, i)]
           /\ task' = [task EXCEPT ![t] = RefreshRepository]
  <2>2. GitFollows(git', agreed', on)
    BY <1>3, <1>5, ApplyFollows
  <2> QED BY <1>3, <1>5, <2>2, Loadings, <1>2, <1>7, CommandStep
<1>6. CASE /\ i \in DOMAIN git.stash /\ CanApply(git.stash[i])
           /\ git' = GitStashApply(git.stash[i]) /\ task' = [task EXCEPT ![t] = j]
  <2>1. i \in DOMAIN git.stash /\ (on => git.stash[i].sha = h.sha)
    BY <1>1, <1>6 DEF Entries
  <2> HIDE DEF i
  <2>2. /\ GitFollows(git', agreed', on)
        /\ \A f \in DOMAIN git.stash[i].files :
              \E e \in File : git'.work[e] = git.stash[i].files[f]
    BY <1>3, <1>6, <2>1, ApplyFollows
  <2>3. git'.stash = git.stash
    BY <1>6, GitFacts DEF GitStashApply, Repository
  <2>4. j \in Handling /\ j.at = "find" /\ j.sha = h.sha /\ j.kind = h.kind /\ j.to = h.to
    BY <1>1 DEF Handling, DropPopped
  <2>5. on => \A k \in Entries(git', h.sha) : k = i
    BY <2>1, <2>3, OneEntry DEF Entries
  <2> HIDE DEF j, h
  <2>6. on => GivenUp(git', agreed', h.sha)
    BY <2>2, <2>3, <2>5 DEF GivenUp
  <2>7. HandlerOK(j, git', agreed', on)
    BY <1>1, <1>2, <2>4, <2>6 DEF HandlerOK, HandlerTyped, ReliesOn
  <2> QED BY <1>3, <1>6, <2>2, <2>4, <2>7, <1>2, <1>7, CommandStep
<1> QED BY <1>4, <1>5, <1>6 DEF PopEntry, PopRefused, Become

LEMMA MoveItemsToTrashStep ==
    ASSUME NEW on, WorkInv(on), NEW t \in Task, MoveItemsToTrash(t)
    PROVE  WorkInv(on)'
<1> DEFINE h == task[t]
           j == [h EXCEPT !.at = "reset"]
<1>1. h \in Handling /\ h.at = "trash" /\ h.kind = "discard"
  BY HandlerIs DEF MoveItemsToTrash, HandlerOK, HandlerTyped
<1>2. PICK moved \in SUBSET h.files :
         /\ git' = [git EXCEPT !.work = [f \in File |-> IF f \in moved THEN 0 ELSE @[f]]]
         /\ agreed' = agreed \cup Range(WorkOf(moved))
         /\ Goto(t, "reset") \/ Become(t, Idle)
  BY DEF MoveItemsToTrash
<1>3. h.files \in SUBSET File
  BY <1>1 DEF Handling
<1>4. GitFollows(git', agreed', on)
  BY <1>2, <1>3, TrashFollows
<1>5. UNCHANGED <<view, popup, setting>>
  BY DEF MoveItemsToTrash
<1>8. OthersOK(t, on)
  <2>1. /\ git'.stash = git.stash /\ git'.entries = git.entries /\ git'.index = git.index
        /\ \A f \in File : git'.work[f] = IF f \in moved THEN 0 ELSE git.work[f]
    BY <1>2, GitFacts DEF Repository
  <2>2. \A f \in moved : git.work[f] \in agreed'
    BY <1>2, <1>3, WorkOfIs DEF Range
  <2> QED BY <1>2, <2>1, <2>2, OthersKeep
<1>6. CASE Become(t, Idle)
  BY <1>4, <1>5, <1>6, <1>8, Loadings, CommandStep DEF Become
<1>7. CASE Goto(t, "reset")
  <2>1. task' = [task EXCEPT ![t] = j]
    BY <1>7, HandlerIs DEF Goto
  <2> HIDE DEF h
  <2>2. j \in Handling /\ j.at = "reset" /\ j.kind = h.kind /\ j.to = h.to
    BY <1>1 DEF Handling
  <2> HIDE DEF j
  <2>3. HandlerOK(j, git', agreed', on)
    BY <1>1, <2>2, RestsOnNothing DEF HandlerTyped
  <2> QED BY <1>1, <1>4, <1>5, <1>8, <2>1, <2>2, <2>3, CommandStep
<1> QED BY <1>2, <1>6, <1>7

LEMMA ResetAndCheckoutIndexStep ==
    ASSUME NEW on, WorkInv(on), NEW t \in Task, ResetAndCheckoutIndex(t)
    PROVE  WorkInv(on)'
<1>1. task[t] \in Handling
  BY HandlerIs DEF ResetAndCheckoutIndex
<1>2. task[t].files \in SUBSET File
  BY <1>1 DEF Handling
<1>3. GitFollows(git', agreed', on)
  BY <1>2, NothingFollows, ResetFollows DEF ResetAndCheckoutIndex
<1>4. task' = [task EXCEPT ![t] = RefreshRepository] /\ UNCHANGED <<view, popup, setting>>
  BY DEF ResetAndCheckoutIndex, Become
<1>5. OthersOK(t, on)
  <2>1. CASE git' = git /\ agreed' = agreed
    BY <2>1, OthersStay
  <2>2. CASE git' = ResetFiles(task[t].files) /\ agreed' = agreed \cup Range(WorkOf(task[t].files))
    <3>1. /\ git'.stash = git.stash /\ git'.entries = git.entries
          /\ DOMAIN git'.index \subseteq DOMAIN git.index
          /\ \A f \in File : f \notin task[t].files => git'.work[f] = git.work[f]
      BY <2>2, GitFacts DEF Repository, ResetFiles, Restrict
    <3>2. \A f \in task[t].files : git.work[f] \in agreed'
      BY <1>2, <2>2, WorkOfIs DEF Range
    <3> QED BY <2>2, <3>1, <3>2, OthersKeep
  <2> QED BY <2>1, <2>2 DEF ResetAndCheckoutIndex
<1> QED BY <1>3, <1>4, <1>5, Loadings, CommandStep

LEMMA HandleStep ==
    ASSUME NEW on, WorkInv(on), on => Apart, NEW t \in Task, Handle(t)
    PROVE  WorkInv(on)'
BY CommitUnstageStep, CommitStageStep, CommitStep, ReadLastEntryStep, StageUntrackedStep,
   StashPushStep, FindEntryStep, DropEntryStep, CheckoutGitStep, ReadTransientEntryStep,
   PopEntryStep, MoveItemsToTrashStep, ResetAndCheckoutIndexStep DEF Handle

-----------------------------------------------------------------------------
LEMMA WorkInit == ASSUME NEW on, Init PROVE WorkInv(on)
<1> SUFFICES WorkInv(on)
  OBVIOUS
<1>1. PICK b \in Branch, tree \in [Branch -> [File -> {0, 1}]], dirty \in SUBSET File :
    /\ git = [head |-> b, tree |-> tree, index |-> <<>>, stash |-> <<>>,
              work |-> [f \in File |-> IF f \in dirty THEN 2 ELSE tree[b][f]],
              entries |-> 0, made |-> 2, history |-> {1}]
    /\ view = [head |-> b, files |-> [f \in dirty |-> "all"], stash |-> <<>>,
               untracked |-> {f \in dirty : tree[b][f] = 0}]
    /\ popup = NoPopup
    /\ task = [p \in Task \cup Refresher |-> Idle]
    /\ setting \in Setting
    /\ agreed = {0} \cup IF dirty = {} THEN {2} ELSE {}
  BY Zenon DEF Init
<1> DEFINE w == [f \in File |-> IF f \in dirty THEN 2 ELSE tree[b][f]]
           files == [f \in dirty |-> "all"]
           untracked == {f \in dirty : tree[b][f] = 0}
<1>2. w \in [File -> {0, 1, 2}] /\ \A f \in dirty : w[f] = 2
  OBVIOUS
<1>3. files \in [dirty -> {"all", "none", "partial"}] /\ untracked \subseteq dirty
  OBVIOUS
<1>4. files \in Selected /\ DOMAIN files = dirty
  BY <1>3 DEF Selected
<1>5. <<>> \in Seq(Entry) /\ Len(<<>>) = 0
  OBVIOUS
<1>6. tree \in [Branch -> [File -> Int]] /\ w \in [File -> Int]
  BY <1>2
<1>7. /\ git.head = b /\ git.tree = tree /\ git.index = <<>> /\ git.stash = <<>>
      /\ git.work = w /\ git.entries = 0 /\ git.made = 2 /\ git.history = {1}
  BY <1>1
<1>8. view.head = b /\ view.files = files /\ view.stash = <<>> /\ view.untracked = untracked
  BY <1>1
<1> HIDE DEF w, files, untracked
<1>9. git \in Repository
  BY <1>1, <1>5, <1>6, NothingIs DEF Repository, w
<1>10. view \in View
  BY <1>1, <1>3, <1>4, <1>5 DEF View, files, untracked
<1>11. WorkTyped
  <2>1. PopupTyped
    BY <1>1 DEF PopupTyped, NoPopup
  <2>2. task \in [Task \cup Refresher -> Loading \cup Handling \cup Committing]
        /\ \A r \in Refresher : task[r] \in Loading
    BY <1>1, Loadings
  <2> QED BY <1>1, <1>9, <1>10, <2>1, <2>2 DEF WorkTyped
<1>12. DOMAIN git.stash = {} /\ DOMAIN git.index = {} /\ DOMAIN view.stash = {}
  BY <1>5, <1>7, <1>8, NothingIs
<1>13. Written(git)
  BY <1>2, <1>7, <1>12 DEF Written
<1>14. Numbered(git)
  BY <1>12 DEF Numbered
<1>15. KnownStashes /\ UntrackedAreShown /\ HandlersOK(on) /\ OneCommit
  <2>1. \A p \in Task \cup Refresher : task[p] = Idle
    BY <1>1
  <2>2. KnownStashes
    BY <1>12, <2>1, Loadings DEF KnownStashes, Known
  <2>3. UntrackedAreShown
    BY <1>3, <1>4, <1>8, <2>1, Loadings DEF UntrackedAreShown, ShownFiles
  <2>4. HandlersOK(on) /\ OneCommit
    BY <2>1, Loadings DEF HandlersOK, OneCommit
  <2> QED BY <2>2, <2>3, <2>4
<1>16. NoWorkLost
  <2>1. HeldIn(git, agreed, 1)
    BY <1>7 DEF HeldIn
  <2>2. HeldIn(git, agreed, 2)
    <3>1. CASE dirty = {}
      BY <1>1, <3>1 DEF HeldIn
    <3>2. CASE dirty # {}
      BY <1>2, <1>7, <3>2 DEF HeldIn
    <3> QED BY <3>1, <3>2
  <2>3. \A k \in 1 .. git.made : HeldIn(git, agreed, k)
    BY <1>7, <2>1, <2>2
  <2> QED BY <1>9, <2>3, WorkIsHeld DEF NoWorkLost
<1> QED BY <1>11, <1>13, <1>14, <1>15, <1>16 DEF WorkInv

LEMMA WorkNext == ASSUME NEW on, WorkInv(on), on => Apart, [Next]_vars PROVE WorkInv(on)'
<1>1. ASSUME NEW t \in Task, Click(t) PROVE WorkInv(on)'
  BY <1>1, ClickStep
<1>2. ASSUME NEW r \in Refresher, Refresh(r) PROVE WorkInv(on)'
  BY <1>2, RefreshStep
<1>3. ASSUME NEW f \in File, Edit(f) PROVE WorkInv(on)'
  BY <1>3, EditStep
<1>4. CASE Select
  BY <1>4, SelectStep
<1>5. ASSUME NEW t \in Task, Answer(t) PROVE WorkInv(on)'
  BY <1>5, AnswerStep
<1>6. ASSUME NEW t \in Task, Handle(t) PROVE WorkInv(on)'
  BY <1>6, HandleStep
<1>7. ASSUME NEW p \in Task \cup Refresher, Load(p) PROVE WorkInv(on)'
  BY <1>7, LoadStep
<1>8. CASE UNCHANGED vars
  BY <1>8, Popups, PopupStep DEF vars
<1> QED BY <1>1, <1>2, <1>3, <1>4, <1>5, <1>6, <1>7, <1>8 DEF Next

\* A component's steps are those of the specification in which it is by itself.
LEMMA StepsOfComponents ==
    /\ EitherSpec => Init /\ [][Next]_vars
    /\ EitherSpec => Comparing!Init /\ [][Comparing!Next]_Comparing!vars
<1>1. EitherInit => Init /\ Comparing!Init
  BY Zenon DEF EitherInit
<1>2. [EitherNext]_<<part, vars, compareVars>> =>
         [Next]_vars /\ [Comparing!Next]_Comparing!vars
  <2> SUFFICES ASSUME [EitherNext]_<<part, vars, compareVars>>
               PROVE  [Next]_vars /\ [Comparing!Next]_Comparing!vars
    OBVIOUS
  <2>1. CASE Next /\ UNCHANGED <<part, compareVars>>
    BY <2>1 DEF compareVars, Comparing!vars
  <2>2. CASE Comparing!Next /\ UNCHANGED <<part, vars>>
    BY <2>2 DEF vars
  <2>3. CASE UNCHANGED <<part, vars, compareVars>>
    BY <2>3 DEF vars, compareVars, Comparing!vars
  <2> QED BY <2>1, <2>2, <2>3, Zenon DEF EitherNext
<1> QED BY <1>1, <1>2, PTL DEF EitherSpec

\* No content is lost that the user did not give up, by any number of handlers with
\* the editor, selections and refreshes between their steps, while they keep Apart.  The
\* app does not see to that itself: two handlers that overlap on the stash do lose work.
THEOREM WorkIsKept ==
    EitherSpec /\ []Apart => []NoWorkLost
<1>1. Init => WorkInv(TRUE)
  BY WorkInit
<1>2. WorkInv(TRUE) /\ Apart /\ [Next]_vars => WorkInv(TRUE)'
  BY WorkNext
<1>3. WorkInv(TRUE) => NoWorkLost
  BY DEF WorkInv
<1> QED BY <1>1, <1>2, <1>3, StepsOfComponents, PTL

\* Only a commit changes what a branch has.
LEMMA TreeStays ==
    ASSUME NEW on, WorkInv(on), [Next]_vars, ~ \E t \in Task : Commit(t)
    PROVE  git'.tree = git.tree
<1>0. git \in Repository
  BY GitFacts
<1>1. ASSUME NEW t \in Task, Click(t) PROVE git' = git
  BY <1>1 DEF Click, CheckoutBranch, CreateStashForCurrentBranch, PopStash, DropStash,
              CommitIncludedChanges, DiscardChanges
<1>2. ASSUME NEW r \in Refresher, Refresh(r) PROVE git' = git
  BY <1>2 DEF Refresh
<1>3. ASSUME NEW f \in File, Edit(f) PROVE git'.tree = git.tree
  BY <1>0, <1>3 DEF Edit, Repository
<1>4. CASE Select
  BY <1>4 DEF Select, SelectFile, IncludeAllFiles
<1>5. ASSUME NEW t \in Task, Answer(t) PROVE git' = git
  BY <1>5 DEF Answer, SubmitSwitch, SubmitOverwrite, DismissPopup
<1>6. ASSUME NEW t \in Task, Handle(t) PROVE git'.tree = git.tree
  <2>1. CASE CommitUnstage(t) \/ CommitStage(t) \/ StageUntracked(t)
    BY <1>0, <2>1 DEF CommitUnstage, CommitStage, StageUntracked, Repository
  <2>2. CASE ReadLastEntry(t) \/ FindEntry(t) \/ ReadTransientEntry(t)
    BY <2>2 DEF ReadLastEntry, FindEntry, ReadTransientEntry
  <2>3. CASE StashPush(t)
    BY <1>0, <2>3 DEF StashPush, GitStashPush, Repository
  <2>4. CASE DropEntry(t)
    BY <1>0, <2>4 DEF DropEntry, GitStashDrop, Repository
  <2>5. CASE CheckoutGit(t)
    <3>1. git' = GitCheckout(task[t].to) \/ git' = git
      BY <2>5 DEF CheckoutGit
    <3>2. GitCheckout(task[t].to).tree = git.tree
      BY <1>0 DEF GitCheckout, Repository
    <3> QED BY <3>1, <3>2
  <2>6. CASE PopEntry(t)
    BY <1>0, <2>6 DEF PopEntry, GitStashApply, Repository
  <2>7. CASE MoveItemsToTrash(t)
    BY <1>0, <2>7 DEF MoveItemsToTrash, Repository
  <2>8. CASE ResetAndCheckoutIndex(t)
    BY <1>0, <2>8 DEF ResetAndCheckoutIndex, ResetFiles, Repository
  <2> QED BY <1>6, <2>1, <2>2, <2>3, <2>4, <2>5, <2>6, <2>7, <2>8 DEF Handle
<1>7. ASSUME NEW p \in Task \cup Refresher, Load(p) PROVE git' = git
  BY <1>7 DEF Load, LoadStatusRead, LoadStatusApply, LoadStashEntriesRead, LoadStashEntriesApply
<1>8. CASE UNCHANGED vars
  BY <1>8 DEF vars
<1> QED BY <1>1, <1>2, <1>3, <1>4, <1>5, <1>6, <1>7, <1>8 DEF Next

\* Nothing gets into the index between the step that stages what was selected and the
\* commit, and the index was empty before, whatever a stash or a restore left in it; for
\* any number of handlers that keep Apart.
THEOREM CommitsAreOfSelection ==
    EitherSpec /\ []Apart => CommitIsOfSelection
<1>1. ASSUME WorkInv(TRUE), [Next]_vars, NEW t \in Task, NEW f \in File,
             task[t].at = "commit", git.tree[git.head][f] # git'.tree[git.head][f]
      PROVE  f \in DOMAIN task[t].files
  <2>1. PICK u \in Task : Commit(u)
    BY <1>1, TreeStays
  <2>2. git' = GitCommit /\ task[u].at = "commit"
    BY <1>1, <2>1 DEF Commit
  <2>3. DOMAIN git.index \subseteq DOMAIN task[t].files
    BY <1>1, HandlerIs DEF HandlerOK, ReliesOn
  <2>4. git'.tree = [git.tree EXCEPT ![git.head] = [h \in File |->
                      IF h \in DOMAIN git.index THEN git.index[h] ELSE git.tree[git.head][h]]]
    BY <1>1, <2>2, GitFacts DEF GitCommit, Repository
  <2>5. f \in DOMAIN git.index
    BY <1>1, <2>4, GitFacts
  <2> QED BY <2>3, <2>5
<1>2. WorkInv(TRUE) /\ [Next]_vars =>
        [\A t \in Task, f \in File :
           task[t].at = "commit" /\ git.tree[git.head][f] # git'.tree[git.head][f]
             => f \in DOMAIN task[t].files]_vars
  BY <1>1
<1>3. Init => WorkInv(TRUE)
  BY WorkInit
<1>4. WorkInv(TRUE) /\ Apart /\ [Next]_vars => WorkInv(TRUE)'
  BY WorkNext
<1> QED BY <1>2, <1>3, <1>4, StepsOfComponents, PTL DEF CommitIsOfSelection

-----------------------------------------------------------------------------
(* The list of commits.                                                      *)

Commits == Comparing!Commit

Request ==
  [kind : {"first"}, tip : Tip, skip : {0}, answer : Seq(Commits) \cup {None}]
  \cup [kind : {"next"}, onto : Seq(Commits), skip : Nat, answer : Seq(Commits) \cup {None}]
  \cup [kind : {"compare"}, branch : Branch]

CompareTyped ==
  /\ head \in Tip /\ moves \in 0 .. MaxMoves /\ tip \in Tip
  /\ form \in Branch \cup {"history"} /\ listTip \in Tip \cup {None}
  /\ list \in [kind : {"history"}, commits : Seq(Commits)]
              \cup [kind : {"compare"}, branch : Branch]
  /\ loads \in SUBSET Request
  /\ merge \in Branch \cup {None} /\ status \in Branch \cup {"loading", None}
  /\ status = "loading" => merge # None

\* A key is in flight exactly while the one request for it is.
KeysAreRequests ==
  /\ \A n : n \in keys <=> \E l \in loads : Comparing!IsBatch(l) /\ l.skip = n
  /\ \A l, m \in loads : Comparing!IsBatch(l) /\ Comparing!IsBatch(m) /\ l.skip = m.skip
         => l = m

\* While HEAD has not moved, each request has its part of the history of HEAD.
PartsOfHistory ==
  moves = 0 =>
    /\ list.kind = "history" => IsPrefix(list.commits, History[head])
    /\ \A l \in loads :
         /\ l.kind = "next" => IsPrefix(l.onto, History[head]) /\ l.skip = Len(l.onto)
         /\ Comparing!IsBatch(l) /\ l.answer # None => l.answer = Comparing!GitLog(head, l.skip)

CompareInv == CompareTyped /\ KeysAreRequests /\ PartsOfHistory

LEMMA CompareFacts ==
    /\ \A t \in Tip : History[t] \in Seq(Commits) /\ Len(History[t]) > 0
    /\ Batch \in Nat \ {0} /\ MaxMoves \in Nat
    /\ "history" \notin Branch /\ "loading" \notin Branch
    /\ None # "history" /\ None # "loading" /\ None \notin Branch
BY CompareAssumed DEF Comparing!CompareAssumption, Commits

LEMMA LeastOfTwo ==
    ASSUME NEW a \in Nat, NEW b \in Nat
    PROVE  Min({a, b}) = IF a <= b THEN a ELSE b
<1>1. \E x \in {a, b} : \A y \in {a, b} : x <= y
  OBVIOUS
<1>2. Min({a, b}) \in {a, b} /\ \A y \in {a, b} : Min({a, b}) <= y
  BY <1>1 DEF Min
<1> QED BY <1>2

\* git log goes on where the list ends.
LEMMA LogContinues ==
    ASSUME NEW t \in Tip, NEW s \in Seq(Commits), IsPrefix(s, History[t])
    PROVE  /\ Comparing!GitLog(t, Len(s)) \in Seq(Commits)
           /\ IsPrefix(s \o Comparing!GitLog(t, Len(s)), History[t])
<1> DEFINE h == History[t]
           k == Len(s)
           n == Min({k + Batch, Len(h)})
           l == SubSeq(h, k + 1, n)
<1>1. h \in Seq(Commits) /\ Len(h) \in Nat /\ k \in Nat /\ Batch \in Nat
  BY CompareFacts
<1>2. k <= Len(h) /\ s = SubSeq(h, 1, k)
  BY <1>1, SubSeqFull DEF IsPrefix
<1>3. Comparing!GitLog(t, k) = l
  BY DEF Comparing!GitLog, Comparing!Min, Min
<1>4. n = IF k + Batch <= Len(h) THEN k + Batch ELSE Len(h)
  BY <1>1, LeastOfTwo
<1> HIDE DEF n, k, h
<1>5. n \in k .. Len(h)
  BY <1>1, <1>2, <1>4
<1>6. l \in Seq(Commits)
  <2>1. k + 1 \in Int /\ n \in Int /\ \A i \in k + 1 .. n : h[i] \in Commits
    BY <1>1, <1>5
  <2> QED BY <2>1, SubSeqProperties
<1>7. s \o l = SubSeq(h, 1, n)
  <2>1. 1 \in 1 .. Len(h) + 1 /\ k \in 1 - 1 .. Len(h)
    BY <1>1, <1>2
  <2>2. SubSeq(h, 1, k) \o SubSeq(h, k + 1, n) = SubSeq(h, 1, n)
    BY <1>1, <1>5, <2>1, ConcatAdjacentSubSeq
  <2> QED BY <1>2, <2>2
<1>8. SubSeq(h, 1, n) \in Seq(Commits) /\ Len(SubSeq(h, 1, n)) = n
  <2>1. n \in Nat /\ \A i \in 1 .. n : h[i] \in Commits
    BY <1>1, <1>5
  <2> QED BY <2>1, SubSeqProperties
<1>9. IsPrefix(SubSeq(h, 1, n), h)
  <2>1. SubSeq(SubSeq(h, 1, n), 1, n) = SubSeq(h, 1, n)
    BY <1>8, SubSeqFull
  <2>2. n <= Len(h)
    BY <1>1, <1>5
  <2> QED BY <1>8, <2>1, <2>2 DEF IsPrefix
<1> QED BY <1>3, <1>6, <1>7, <1>9 DEF h, k

LEMMA RequestIs ==
    ASSUME NEW l \in Request
    PROVE  /\ Comparing!IsBatch(l) <=> l.kind \in {"first", "next"}
           /\ l.kind = "first" =>
                l \in [kind : {"first"}, tip : Tip, skip : {0}, answer : Seq(Commits) \cup {None}]
           /\ l.kind = "next" =>
                l \in [kind : {"next"}, onto : Seq(Commits), skip : Nat,
                      answer : Seq(Commits) \cup {None}]
           /\ l.kind = "compare" => l \in [kind : {"compare"}, branch : Branch]
           /\ l.kind \in {"first", "next", "compare"}
BY DEF Request, Comparing!IsBatch

\* A request is made, if there is none for the same batch.
LEMMA BatchRequested ==
    ASSUME CompareInv, NEW l \in Request, Comparing!LoadCommitBatch(l), l.answer = None,
           l.kind \in {"first", "next"},
           l.kind = "next" => l.skip = Len(l.onto) /\ (moves = 0 => IsPrefix(l.onto, History[head])),
           UNCHANGED <<head, moves, tip, form, listTip, list, merge, status>>
    PROVE  CompareInv'
<1>1. /\ l.skip \notin keys /\ keys' = keys \cup {l.skip} /\ loads' = loads \cup {l}
      /\ Comparing!IsBatch(l)
  BY DEF Comparing!LoadCommitBatch, Comparing!IsBatch
<1>2. CompareTyped'
  BY <1>1 DEF CompareInv, CompareTyped
<1>3. KeysAreRequests'
  BY <1>1 DEF CompareInv, KeysAreRequests
<1>4. PartsOfHistory'
  BY <1>1 DEF CompareInv, PartsOfHistory
<1> QED BY <1>2, <1>3, <1>4 DEF CompareInv

\* A request comes to its end.
LEMMA RequestEnds ==
    ASSUME CompareInv, NEW l \in loads, Comparing!Answered(l), UNCHANGED <<head, moves, tip>>,
           form' \in Branch \cup {"history"}, listTip' \in Tip \cup {None},
           list' \in [kind : {"history"}, commits : Seq(Commits)]
                     \cup [kind : {"compare"}, branch : Branch],
           moves = 0 /\ list'.kind = "history" => IsPrefix(list'.commits, History[head]),
           merge' \in Branch \cup {None}, status' \in Branch \cup {"loading", None},
           status' = "loading" => merge' # None
    PROVE  CompareInv'
<1>1. loads' = loads \ {l} /\ keys' = IF Comparing!IsBatch(l) THEN keys \ {l.skip} ELSE keys
  BY DEF Comparing!Answered
<1>2. CompareTyped'
  BY <1>1 DEF CompareInv, CompareTyped
<1>3. KeysAreRequests'
  <2>1. ASSUME NEW n
        PROVE  n \in keys' <=> \E m \in loads' : Comparing!IsBatch(m) /\ m.skip = n
    BY <1>1 DEF CompareInv, KeysAreRequests
  <2>2. ASSUME NEW m \in loads', NEW k \in loads', Comparing!IsBatch(m), Comparing!IsBatch(k),
               m.skip = k.skip
        PROVE  m = k
    BY <1>1, <2>2 DEF CompareInv, KeysAreRequests
  <2> QED BY <2>1, <2>2 DEF KeysAreRequests
<1>4. PartsOfHistory'
  BY <1>1 DEF CompareInv, PartsOfHistory
<1> QED BY <1>2, <1>3, <1>4 DEF CompareInv

LEMMA GitAnswersStep ==
    ASSUME CompareInv, NEW l \in loads, Comparing!GitAnswers(l)
    PROVE  CompareInv'
<1> DEFINE a == Comparing!GitLog(head, l.skip)
           m == [l EXCEPT !.answer = a]
<1>1. /\ l \in Request /\ Comparing!IsBatch(l) /\ loads' = (loads \ {l}) \cup {m}
      /\ UNCHANGED <<head, moves, tip, form, listTip, list, keys, merge, status>>
  BY DEF Comparing!GitAnswers, CompareInv, CompareTyped
<1>2. head \in Tip /\ l.skip \in Nat
  BY <1>1, RequestIs DEF CompareInv, CompareTyped
<1>3. a \in Seq(Commits)
  <2> DEFINE h == History[head]
             n == Min({l.skip + Batch, Len(h)})
  <2>1. h \in Seq(Commits) /\ Len(h) \in Nat
    BY <1>2, CompareFacts
  <2>2. n = IF l.skip + Batch <= Len(h) THEN l.skip + Batch ELSE Len(h)
    BY <1>2, <2>1, CompareFacts, LeastOfTwo
  <2>3. a = SubSeq(h, l.skip + 1, n)
    BY DEF Comparing!GitLog, Comparing!Min, Min
  <2> HIDE DEF h, n
  <2>4. n \in Int /\ n <= Len(h)
    BY <1>2, <2>1, <2>2, CompareFacts
  <2>5. ASSUME NEW i \in l.skip + 1 .. n
        PROVE  h[i] \in Commits
    <3>1. i \in 1 .. Len(h)
      BY <1>2, <2>1, <2>4
    <3> QED BY <2>1, <3>1
  <2>6. l.skip + 1 \in Int
    BY <1>2
  <2> QED BY <2>3, <2>4, <2>5, <2>6, SubSeqProperties
<1> HIDE DEF a
<1>4. /\ m \in Request /\ m.kind = l.kind /\ m.skip = l.skip /\ m.answer = a
      /\ l.kind = "next" => m.onto = l.onto
  <2>1. CASE l.kind = "first"
    <3>1. l \in [kind : {"first"}, tip : Tip, skip : {0}, answer : Seq(Commits) \cup {None}]
      BY <1>1, <2>1, RequestIs
    <3> QED BY <1>3, <2>1, <3>1 DEF Request
  <2>2. CASE l.kind = "next"
    <3>1. l \in [kind : {"next"}, onto : Seq(Commits), skip : Nat,
                 answer : Seq(Commits) \cup {None}]
      BY <1>1, <2>2, RequestIs
    <3> QED BY <1>3, <2>2, <3>1 DEF Request
  <2> QED BY <1>1, <2>1, <2>2, RequestIs
<1> HIDE DEF m
<1>5. Comparing!IsBatch(m)
  BY <1>1, <1>4 DEF Comparing!IsBatch
<1>6. CompareTyped'
  BY <1>1, <1>4 DEF CompareInv, CompareTyped
<1>7. KeysAreRequests'
  <2>1. ASSUME NEW n
        PROVE  n \in keys' <=> \E k \in loads' : Comparing!IsBatch(k) /\ k.skip = n
    BY <1>1, <1>4, <1>5 DEF CompareInv, KeysAreRequests
  <2>2. ASSUME NEW j \in loads', NEW k \in loads', Comparing!IsBatch(j), Comparing!IsBatch(k),
               j.skip = k.skip
        PROVE  j = k
    BY <1>1, <1>4, <1>5, <2>2 DEF CompareInv, KeysAreRequests
  <2> QED BY <2>1, <2>2 DEF KeysAreRequests
<1>8. PartsOfHistory'
  BY <1>1, <1>4 DEF CompareInv, PartsOfHistory, a
<1> QED BY <1>6, <1>7, <1>8 DEF CompareInv

\* The first batch is the beginning of what git log prints.
LEMMA LogBegins ==
    ASSUME NEW t \in Tip
    PROVE  IsPrefix(Comparing!GitLog(t, 0), History[t])
<1>1. << >> \in Seq(Commits) /\ Len(<< >>) = 0 /\ History[t] \in Seq(Commits)
  BY CompareFacts
<1>2. IsPrefix(<< >>, History[t])
  BY <1>1, SubSeqProperties DEF IsPrefix
<1>3. /\ Comparing!GitLog(t, 0) \in Seq(Commits)
      /\ IsPrefix(<< >> \o Comparing!GitLog(t, 0), History[t])
  BY <1>1, <1>2, LogContinues
<1>4. << >> \o Comparing!GitLog(t, 0) = Comparing!GitLog(t, 0)
  BY <1>3, ConcatEmptySeq
<1> QED BY <1>3, <1>4

LEMMA CompareBegins ==
    EitherInit => CompareInv
<1> SUFFICES ASSUME EitherInit PROVE CompareInv
  OBVIOUS
<1>1. Comparing!Init
  BY Zenon DEF EitherInit
<1>2. /\ head \in Tip /\ tip = head /\ moves = 0
      /\ form = "history" /\ listTip = None /\ list = [kind |-> "history", commits |-> << >>]
      /\ keys = {} /\ loads = {} /\ merge = None /\ status = None
  BY <1>1 DEF Comparing!Init, Comparing!Commits
<1>3. History[head] \in Seq(Commits) /\ << >> \in Seq(Commits) /\ MaxMoves \in Nat
  BY <1>2, CompareFacts
<1>4. IsPrefix(<< >>, History[head])
  BY <1>3, SubSeqProperties DEF IsPrefix
<1>5. CompareTyped
  BY <1>2, <1>3, CompareFacts DEF CompareTyped
<1>6. KeysAreRequests
  BY <1>2 DEF KeysAreRequests
<1>7. PartsOfHistory
  BY <1>2, <1>4 DEF PartsOfHistory
<1> QED BY <1>5, <1>6, <1>7 DEF CompareInv

LEMMA ExecuteHistoryStep ==
    ASSUME CompareInv, Comparing!ExecuteHistory
    PROVE  CompareInv'
<1>1. UNCHANGED <<head, moves, tip, form, listTip, list, merge, status>>
  BY DEF Comparing!ExecuteHistory
<1>2. CASE UNCHANGED <<keys, loads>>
  BY <1>1, <1>2 DEF CompareInv, CompareTyped, KeysAreRequests, PartsOfHistory
<1>3. CASE Comparing!LoadCommitBatch(Comparing!First(tip))
  <2> DEFINE l == Comparing!First(tip)
  <2>1. l = [kind |-> "first", tip |-> tip, skip |-> 0, answer |-> None]
    BY DEF Comparing!First
  <2>2. tip \in Tip
    BY DEF CompareInv, CompareTyped
  <2> HIDE DEF l
  <2>3. l \in Request /\ l.kind = "first" /\ l.answer = None
    BY <2>1, <2>2 DEF Request
  <2>4. Comparing!LoadCommitBatch(l)
    BY <1>3 DEF l
  <2> QED BY <1>1, <2>3, <2>4, BatchRequested
<1> QED BY <1>2, <1>3 DEF Comparing!ExecuteHistory

LEMMA ExecuteCompareStep ==
    ASSUME CompareInv, NEW b \in Branch, Comparing!ExecuteCompare(b)
    PROVE  CompareInv'
<1> DEFINE l == [kind |-> "compare", branch |-> b]
<1>1. /\ loads' = loads \cup {l}
      /\ UNCHANGED <<head, moves, tip, form, listTip, list, keys, merge, status>>
  BY DEF Comparing!ExecuteCompare, Comparing!Compare
<1>2. l \in Request /\ l.kind = "compare"
  BY DEF Request
<1> HIDE DEF l
<1>3. ~Comparing!IsBatch(l)
  BY <1>2 DEF Comparing!IsBatch
<1>4. CompareTyped'
  BY <1>1, <1>2 DEF CompareInv, CompareTyped
<1>5. KeysAreRequests'
  BY <1>1, <1>3 DEF CompareInv, KeysAreRequests
<1>6. PartsOfHistory'
  BY <1>1, <1>2, <1>3 DEF CompareInv, PartsOfHistory
<1> QED BY <1>4, <1>5, <1>6 DEF CompareInv

LEMMA LoadNextCommitBatchStep ==
    ASSUME CompareInv, Comparing!LoadNextCommitBatch
    PROVE  CompareInv'
<1> DEFINE l == Comparing!NextBatch(list.commits)
<1>1. /\ list.kind = "history" /\ Comparing!LoadCommitBatch(l)
      /\ UNCHANGED <<head, moves, tip, form, listTip, list, merge, status>>
  BY DEF Comparing!LoadNextCommitBatch, Comparing!IsHistory
<1>2. l = [kind |-> "next", onto |-> list.commits, skip |-> Len(list.commits), answer |-> None]
  BY DEF Comparing!NextBatch
<1> HIDE DEF l
<1>3. list.commits \in Seq(Commits) /\ Len(list.commits) \in Nat
  BY <1>1 DEF CompareInv, CompareTyped
<1>4. /\ l \in Request /\ l.kind = "next" /\ l.answer = None
      /\ l.onto = list.commits /\ l.skip = Len(list.commits)
  BY <1>2, <1>3 DEF Request
<1>5. moves = 0 => IsPrefix(l.onto, History[head])
  BY <1>1, <1>4 DEF CompareInv, PartsOfHistory
<1> QED BY <1>1, <1>4, <1>5, BatchRequested

LEMMA FirstLoadedStep ==
    ASSUME CompareInv, NEW l \in loads, Comparing!FirstLoaded(l)
    PROVE  CompareInv'
<1>1. /\ l.kind = "first" /\ l.answer # None /\ Comparing!Answered(l)
      /\ listTip' = l.tip /\ form' = "history"
      /\ list' = [kind |-> "history", commits |-> l.answer]
      /\ UNCHANGED <<head, moves, tip, merge, status>>
  BY DEF Comparing!FirstLoaded, Comparing!Commits
<1>2. l \in Request /\ head \in Tip
  BY DEF CompareInv, CompareTyped
<1>3. l.tip \in Tip /\ l.skip = 0 /\ l.answer \in Seq(Commits) /\ Comparing!IsBatch(l)
  BY <1>1, <1>2, RequestIs
<1>4. moves = 0 => IsPrefix(l.answer, History[head])
  BY <1>1, <1>2, <1>3, LogBegins DEF CompareInv, PartsOfHistory
<1>5. /\ list' \in [kind : {"history"}, commits : Seq(Commits)] /\ list'.commits = l.answer
      /\ list'.kind = "history"
  BY <1>1, <1>3
<1>6. /\ merge' \in Branch \cup {None} /\ status' \in Branch \cup {"loading", None}
      /\ status' = "loading" => merge' # None
  BY <1>1 DEF CompareInv, CompareTyped
<1> QED BY <1>1, <1>3, <1>4, <1>5, <1>6, RequestEnds

\* The batch asked for goes on where the list ended when it was asked for.
LEMMA NextLoadedStep ==
    ASSUME CompareInv, NEW l \in loads, Comparing!NextLoaded(l)
    PROVE  CompareInv'
<1>1. /\ l.kind = "next" /\ l.answer # None /\ Comparing!Answered(l)
      /\ list' = [kind |-> "history", commits |-> l.onto \o l.answer]
      /\ UNCHANGED <<head, moves, tip, form, listTip, merge, status>>
  BY DEF Comparing!NextLoaded, Comparing!Commits
<1>2. l \in Request /\ head \in Tip
  BY DEF CompareInv, CompareTyped
<1>3. l.onto \in Seq(Commits) /\ l.answer \in Seq(Commits) /\ Comparing!IsBatch(l)
  BY <1>1, <1>2, RequestIs
<1>4. moves = 0 => IsPrefix(l.onto \o l.answer, History[head])
  <2>1. SUFFICES ASSUME moves = 0 PROVE IsPrefix(l.onto \o l.answer, History[head])
    OBVIOUS
  <2>2. IsPrefix(l.onto, History[head]) /\ l.answer = Comparing!GitLog(head, Len(l.onto))
    BY <1>1, <1>3, <2>1 DEF CompareInv, PartsOfHistory
  <2> QED BY <1>2, <1>3, <2>2, LogContinues
<1>5. l.onto \o l.answer \in Seq(Commits)
  BY <1>3, ConcatProperties
<1>6. /\ list' \in [kind : {"history"}, commits : Seq(Commits)]
      /\ list'.commits = l.onto \o l.answer
  BY <1>1, <1>5
<1>7. /\ merge' \in Branch \cup {None} /\ status' \in Branch \cup {"loading", None}
      /\ status' = "loading" => merge' # None
      /\ form' \in Branch \cup {"history"} /\ listTip' \in Tip \cup {None}
  BY <1>1 DEF CompareInv, CompareTyped
<1> QED BY <1>1, <1>4, <1>6, <1>7, RequestEnds

LEMMA CompareLoadedStep ==
    ASSUME CompareInv, NEW l \in loads, Comparing!CompareLoaded(l)
    PROVE  CompareInv'
<1>1. /\ l.kind = "compare" /\ Comparing!Answered(l)
      /\ form' = l.branch /\ list' = [kind |-> "compare", branch |-> l.branch]
      /\ UNCHANGED <<head, moves, tip, listTip>>
      /\ \/ merge # None /\ status' = "loading" /\ merge' = merge
         \/ merge = None /\ merge' = l.branch /\ status' = "loading"
         \/ merge = None /\ merge' = merge /\ status' = None
  BY DEF Comparing!CompareLoaded, Comparing!Comparison
<1>2. l \in Request /\ listTip \in Tip \cup {None} /\ merge \in Branch \cup {None}
  BY DEF CompareInv, CompareTyped
<1>3. l.branch \in Branch
  BY <1>1, <1>2, RequestIs
<1>4. list' \in [kind : {"compare"}, branch : Branch] /\ list'.kind # "history"
  BY <1>1, <1>3
<1>5. /\ merge' \in Branch \cup {None} /\ status' \in Branch \cup {"loading", None}
      /\ status' = "loading" => merge' # None
  BY <1>1, <1>2, <1>3, CompareFacts
<1> QED BY <1>1, <1>2, <1>3, <1>4, <1>5, RequestEnds

LEMMA LoadFailedStep ==
    ASSUME CompareInv, NEW l \in loads, Comparing!LoadFailed(l)
    PROVE  CompareInv'
<1>1. /\ Comparing!Answered(l)
      /\ UNCHANGED <<head, moves, tip, form, listTip, list, merge, status>>
  BY DEF Comparing!LoadFailed
<1>2. /\ form' \in Branch \cup {"history"} /\ listTip' \in Tip \cup {None}
      /\ list' \in [kind : {"history"}, commits : Seq(Commits)]
                   \cup [kind : {"compare"}, branch : Branch]
      /\ merge' \in Branch \cup {None} /\ status' \in Branch \cup {"loading", None}
      /\ status' = "loading" => merge' # None
  BY <1>1 DEF CompareInv, CompareTyped
<1>3. moves = 0 /\ list'.kind = "history" => IsPrefix(list'.commits, History[head])
  BY <1>1 DEF CompareInv, PartsOfHistory
<1> QED BY <1>1, <1>2, <1>3, RequestEnds

LEMMA CompareNext ==
    CompareInv /\ [Comparing!Next]_compareVars => CompareInv'
<1> SUFFICES ASSUME CompareInv, [Comparing!Next]_compareVars PROVE CompareInv'
  OBVIOUS
<1>1. CASE UNCHANGED compareVars
  BY <1>1 DEF compareVars, CompareInv, CompareTyped, KeysAreRequests, PartsOfHistory
<1>2. ASSUME NEW t \in Tip, Comparing!MoveHead(t) PROVE CompareInv'
  <2>1. /\ moves < MaxMoves /\ head' = t /\ moves' = moves + 1
        /\ UNCHANGED <<tip, form, listTip, list, keys, loads, merge, status>>
    BY <1>2 DEF Comparing!MoveHead
  <2>2. moves \in 0 .. MaxMoves /\ MaxMoves \in Nat
    BY CompareFacts DEF CompareInv, CompareTyped
  <2>3. moves' \in 0 .. MaxMoves /\ moves' # 0
    BY <2>1, <2>2
  <2> QED BY <2>1, <2>3 DEF CompareInv, CompareTyped, KeysAreRequests, PartsOfHistory
<1>3. ASSUME Comparing!LoadStatus PROVE CompareInv'
  BY <1>3 DEF Comparing!LoadStatus, CompareInv, CompareTyped, KeysAreRequests, PartsOfHistory
<1>4. ASSUME Comparing!MergeTried PROVE CompareInv'
  <2>1. /\ merge' = None /\ status' \in {merge, None} /\ merge # None
        /\ UNCHANGED <<head, moves, tip, form, listTip, list, keys, loads>>
    BY <1>4 DEF Comparing!MergeTried
  <2>2. CompareTyped'
    BY <2>1, CompareFacts DEF CompareInv, CompareTyped
  <2> QED BY <2>1, <2>2 DEF CompareInv, KeysAreRequests, PartsOfHistory
<1>5. ASSUME NEW l \in loads,
             Comparing!GitAnswers(l) \/ Comparing!FirstLoaded(l) \/ Comparing!NextLoaded(l)
             \/ Comparing!CompareLoaded(l) \/ Comparing!LoadFailed(l)
      PROVE  CompareInv'
  BY <1>5, GitAnswersStep, FirstLoadedStep, NextLoadedStep, CompareLoadedStep, LoadFailedStep
<1>6. CASE Comparing!Next
  BY <1>2, <1>3, <1>4, <1>5, <1>6, ExecuteHistoryStep, ExecuteCompareStep,
     LoadNextCommitBatchStep
     DEF Comparing!Next
<1> QED BY <1>1, <1>6

\* While HEAD stays where it is, the history shown is the history of HEAD from its first
\* commit on: of two requests for a batch none is for the same part, and each goes on
\* where the list it is put behind ends, in whatever order git answers them.
THEOREM HistoryIsShown ==
    EitherSpec => []HistoryIsWhole
<1>1. EitherInit => CompareInv
  BY CompareBegins
<1>2. CompareInv /\ [EitherNext]_<<part, vars, compareVars>> => CompareInv'
  <2>1. [EitherNext]_<<part, vars, compareVars>> => [Comparing!Next]_compareVars
    BY Zenon DEF EitherNext, compareVars
  <2> QED BY <2>1, CompareNext
<1>3. CompareInv => HistoryIsWhole
  BY DEF CompareInv, PartsOfHistory, HistoryIsWhole, Comparing!HistoryIsWhole,
         Comparing!IsHistory, IsPrefix, Comparing!IsPrefix
<1> QED BY <1>1, <1>2, <1>3, PTL DEF EitherSpec

LEMMA WorkTypes ==
    ASSUME NEW on, WorkInv(on) PROVE TypeOK
<1> SUFFICES TypeOK
  OBVIOUS
<1>1. WorkTyped /\ Written(git) /\ Numbered(git) /\ UntrackedAreShown
  BY DEF WorkInv
<1>2. /\ git.head \in Branch /\ git.tree \in [Branch -> [File -> Int]]
      /\ git.work \in [File -> Int] /\ git.index \in Part /\ git.made \in Nat
      /\ view.head \in Branch /\ view.files \in Selected /\ setting \in Setting
  BY <1>1 DEF WorkTyped, Repository, View
<1>3. git.tree \in [Branch -> [File -> Content]]
  <2>1. ASSUME NEW b \in Branch, NEW f \in File
        PROVE  git.tree[b][f] \in Content
    BY <1>1, <2>1 DEF Written, Content
  <2>2. ASSUME NEW b \in Branch
        PROVE  git.tree[b] \in [File -> Content]
    <3>1. git.tree[b] \in [File -> Int]
      BY <1>2
    <3> QED BY <2>1, <3>1
  <2> QED BY <1>2, <2>2
<1>4. git.work \in [File -> Content]
  BY <1>1, <1>2 DEF Written, Content
<1>5. DOMAIN git.index \subseteq File /\ Range(git.index) \subseteq Content
  BY <1>1, <1>2 DEF Written, Content, Part, Range
<1>6. \A i, j \in DOMAIN git.stash : i < j => git.stash[i].sha > git.stash[j].sha
  BY <1>1 DEF Numbered
<1>7. /\ view.files \in [ShownFiles -> {"all", "none", "partial"}]
      /\ ShownFiles \subseteq File /\ view.untracked \subseteq ShownFiles
  BY <1>1, <1>2 DEF Selected, ShownFiles, UntrackedAreShown
<1>8. popup \in [kind : {"none", "switch", "overwrite"}, to : Branch \cup {NoBranch}]
  BY <1>1 DEF WorkTyped, PopupTyped
<1> QED BY <1>2, <1>3, <1>4, <1>5, <1>6, <1>7, <1>8 DEF TypeOK

LEMMA CompareTypes ==
    CompareInv => Comparing!TypeOK
<1> SUFFICES ASSUME CompareInv PROVE Comparing!TypeOK
  OBVIOUS
<1>1. CompareTyped /\ KeysAreRequests
  BY DEF CompareInv
<1>2. keys = {l.skip : l \in {k \in loads : Comparing!IsBatch(k)}}
  BY <1>1 DEF KeysAreRequests
<1>3. /\ Comparing!IsHistory(list) => list.commits \in Seq(Comparing!Commit)
      /\ ~Comparing!IsHistory(list) => list.branch \in Branch
  BY <1>1 DEF CompareTyped, Comparing!IsHistory, Commits
<1> QED BY <1>1, <1>2, <1>3 DEF CompareTyped, Comparing!TypeOK

\* The types of both components, however many handlers overlap: stash entries are
\* listed newest first, and a batch counts as in flight exactly while the one request
\* for it is.
THEOREM BranchesTypes ==
    EitherSpec => []BothTypeOK
<1>1. Init => WorkInv(FALSE)
  BY WorkInit
<1>2. WorkInv(FALSE) /\ [Next]_vars => WorkInv(FALSE)'
  BY WorkNext
<1>3. EitherInit => CompareInv
  BY CompareBegins
<1>4. CompareInv /\ [EitherNext]_<<part, vars, compareVars>> => CompareInv'
  <2>1. [EitherNext]_<<part, vars, compareVars>> => [Comparing!Next]_compareVars
    BY Zenon DEF EitherNext, compareVars
  <2> QED BY <2>1, CompareNext
<1>5. WorkInv(FALSE) /\ CompareInv => BothTypeOK
  BY WorkTypes, CompareTypes DEF BothTypeOK
<1> QED BY <1>1, <1>2, <1>3, <1>4, <1>5, StepsOfComponents, PTL DEF EitherSpec
====
