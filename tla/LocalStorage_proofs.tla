------------------------ MODULE LocalStorage_proofs ------------------------
(***************************************************************************)
(* What holds of the accounts, the tags to push and the lists of           *)
(* repositories for every value of the constants: MCLocalStorage has them   *)
(* side by side. Each part has an invariant of its own, which says of the   *)
(* calls, refreshes, pushes and loads that are under way what they have     *)
(* read and what they are going to write.                                   *)
(***************************************************************************)
EXTENDS MCLocalStorage, TLAPS

\* Of the accounts a refresh has read, which it will write back, there is one for
\* an endpoint as well.
OnePerEndpoint(as) == \A a, b \in as : a.endpoint = b.endpoint => a = b

OneInv ==
    /\ OnePerEndpoint(accounts) /\ OnePerEndpoint(users)
    /\ refreshing # None => OnePerEndpoint(refreshing)

\* What is saved has one entry for an endpoint if the accounts do.
LEMMA Saved ==
    ASSUME NEW as, OnePerEndpoint(as)
    PROVE  OnePerEndpoint(WithoutTokens(as))
<1> SUFFICES ASSUME NEW a \in as, NEW b \in as, Who(a).endpoint = Who(b).endpoint
             PROVE  Who(a) = Who(b)
  BY DEF OnePerEndpoint, WithoutTokens
<1>1. a.endpoint = b.endpoint
  BY DEF Who
<1> QED BY <1>1 DEF OnePerEndpoint

\* An account that takes the place of that of its endpoint is the only one.
LEMMA Replaced ==
    ASSUME NEW as, NEW new, OnePerEndpoint(as)
    PROVE  OnePerEndpoint({a \in as : a.endpoint # new.endpoint} \cup {new})
BY DEF OnePerEndpoint

LEMMA OneInit == Init => OneInv
BY DEF Init, OneInv, OnePerEndpoint

LEMMA OneStep ==
    ASSUME OneInv, [Next]_vars
    PROVE  OneInv'
<1> USE DEF OneInv
<1>1. CASE Load
  <2> PICK unreadable \in SUBSET users :
         accounts' = {[endpoint |-> i.endpoint, user |-> i.user, token |-> keychain[i]] :
                         i \in users \ unreadable}
    BY <1>1 DEF Load
  <2>1. OnePerEndpoint(accounts')
    BY DEF OnePerEndpoint
  <2> QED BY <1>1, <2>1 DEF Load, OnePerEndpoint
<1>2. CASE Refresh
  BY <1>2 DEF Refresh, OnePerEndpoint
<1>3. CASE Refreshed
  <2>1. accounts' = refreshing /\ OnePerEndpoint(accounts')
    BY <1>3 DEF Refreshed, OnePerEndpoint
  <2>2. users' = WithoutTokens(accounts')
    BY <1>3 DEF Refreshed, Save
  <2>3. OnePerEndpoint(users')
    BY <2>1, <2>2, Saved
  <2> QED BY <1>3, <2>1, <2>3 DEF Refreshed, OnePerEndpoint
<1>4. CASE Restart
  BY <1>4 DEF Restart, OnePerEndpoint
<1>5. ASSUME NEW o \in Op, NEW i \in Identity, AddAccount(o, i) PROVE OneInv'
  BY <1>5 DEF AddAccount, OnePerEndpoint
<1>6. ASSUME NEW o \in Op, NEW a \in accounts, RemoveAccount(o, a) PROVE OneInv'
  BY <1>6 DEF RemoveAccount, OnePerEndpoint
<1>7. ASSUME NEW o \in Op, KeychainAnswers(o) PROVE OneInv'
  BY <1>7 DEF KeychainAnswers, OnePerEndpoint
<1>8. ASSUME NEW o \in Op, Added(o) PROVE OneInv'
  <2>1. OnePerEndpoint(accounts')
    BY <1>8, Replaced DEF Added
  <2>2. OnePerEndpoint(users')
    BY <1>8, <2>1, Saved DEF Added, Save
  <2> QED BY <1>8, <2>1, <2>2 DEF Added, OnePerEndpoint
<1>9. ASSUME NEW o \in Op, Removed(o) PROVE OneInv'
  <2>1. OnePerEndpoint(accounts')
    BY <1>9 DEF Removed, OnePerEndpoint
  <2>2. OnePerEndpoint(users')
    BY <1>9, <2>1, Saved DEF Removed, Save
  <2> QED BY <1>9, <2>1, <2>2 DEF Removed, OnePerEndpoint
<1>10. ASSUME NEW o \in Op, Failed(o) PROVE OneInv'
  BY <1>10 DEF Failed, OnePerEndpoint
<1>11. CASE UNCHANGED vars
  BY <1>11 DEF vars, OnePerEndpoint
<1> QED
  BY <1>1, <1>2, <1>3, <1>4, <1>5, <1>6, <1>7, <1>8, <1>9, <1>10, <1>11 DEF Next

\* However sign-ins, sign-outs and the refresh overlap and wherever the program
\* ends: an endpoint has one account at most, in memory and in local storage.
THEOREM OneAccount == Spec => []OneAccountPerEndpoint
<1>1. Spec => []OneInv
  BY OneInit, OneStep, PTL DEF Spec
<1>2. OneInv => OneAccountPerEndpoint
  BY DEF OneInv, OnePerEndpoint, OneAccountPerEndpoint
<1> QED BY <1>1, <1>2, PTL

-----------------------------------------------------------------------------

\* A call of addAccount or removeAccount that is under way.
Active(o) == ops[o] # None
Caller(o) == Who(ops[o].account)

\* What the calls under way are, with what they wait for.
AccountsTyped ==
    /\ accounts \subseteq Account /\ users \subseteq Identity
    /\ keychain \in [Identity -> 0 .. MaxTokens]
    /\ phase \in {"loading", "loaded", "refreshed"}
    /\ refreshing # None => refreshing \subseteq Account
    /\ ops \in [Op -> Call \cup {None}]
    /\ issued \in 0 .. MaxTokens
    /\ raced \subseteq Identity /\ cut \subseteq Identity
    /\ WithoutTokens(accounts) \subseteq users

\* A call whose identity did not race has its endpoint for itself, and brings a
\* token that the keychain has once it is through.
CallsAlone ==
    \A o \in Op : Active(o) /\ Caller(o) \notin raced =>
       /\ \A p \in Op : Active(p) /\ ops[p].account.endpoint = ops[o].account.endpoint => p = o
       /\ ops[o].kind = "add" => ops[o].account.token # 0
       /\ ops[o].kind = "add" /\ ops[o].pc = "done"
              => keychain[Caller(o)] = ops[o].account.token

\* An identity that did not race and whose call the keychain has not answered.
Settled(i) == i \notin raced /\ \A o \in Op : Active(o) /\ Caller(o) = i => ops[o].pc # "done"

\* It has a token in the keychain, unless the program ended during its sign-out.
HasToken(i) == keychain[i] # 0 \/ i \in cut

InKeychain ==
    /\ \A a \in accounts : Settled(Who(a)) => keychain[Who(a)] = a.token /\ HasToken(Who(a))
    /\ \A i \in users : Settled(i) => HasToken(i)

\* What a refresh has read and did not race is as it was.
RefreshAlone ==
    refreshing # None =>
       \A a \in refreshing : Who(a) \notin raced =>
          a \in accounts /\ \A o \in Op : Active(o) => ops[o].account.endpoint # a.endpoint

NothingWhileLoading == phase = "loading" => refreshing = None /\ \A o \in Op : ~ Active(o)

AccountsInv == AccountsTyped /\ CallsAlone /\ InKeychain /\ RefreshAlone /\ NothingWhileLoading

LEMMA AccountsInit == Init => AccountsInv
BY AccountsAssumption DEF Init, AccountsInv, AccountsTyped, CallsAlone, InKeychain,
   RefreshAlone, NothingWhileLoading, Active, Caller, Settled, WithoutTokens, Identity

LEMMA WhoTyped ==
       \A a \in Account : Who(a) \in Identity /\ a.endpoint \in Endpoint /\ a.user \in User
                          /\ a.token \in 0 .. MaxTokens /\ Who(a).endpoint = a.endpoint
BY DEF Account, Identity, Who

LEMMA LoadStep == ASSUME AccountsInv, Load PROVE AccountsInv'
<1>1. PICK unreadable \in SUBSET users :
         accounts' = {[endpoint |-> i.endpoint, user |-> i.user, token |-> keychain[i]] :
                         i \in users \ unreadable}
    BY DEF Load
<1>2. /\ UNCHANGED <<users, keychain, refreshing, ops, issued, raced, cut>>
      /\ refreshing = None /\ \A o \in Op : ops[o] = None /\ phase' = "loaded"
  BY DEF AccountsInv, NothingWhileLoading, Load, Active, history
<1>3. ASSUME NEW a \in accounts'
      PROVE  a \in Account /\ Who(a) \in users /\ a.token = keychain[Who(a)]
  <2>1. PICK i \in users : a = [endpoint |-> i.endpoint, user |-> i.user, token |-> keychain[i]]
    BY <1>1
  <2>2. i \in Identity /\ Who(a) = i
    BY <2>1 DEF AccountsInv, AccountsTyped, Identity, Who
  <2> QED BY <2>1, <2>2 DEF AccountsInv, AccountsTyped, Identity, Account
<1>4. AccountsTyped'
  <2>1. accounts' \subseteq Account /\ WithoutTokens(accounts') \subseteq users
    BY <1>3 DEF WithoutTokens
  <2> QED BY <1>2, <2>1 DEF AccountsInv, AccountsTyped, Load
<1>5. InKeychain'
  BY <1>2, <1>3 DEF AccountsInv, InKeychain, HasToken, Settled, Active, Caller
<1> QED
  BY <1>2, <1>4, <1>5 DEF AccountsInv, CallsAlone, RefreshAlone, NothingWhileLoading, Active,
     Caller

\* The beginning of a call: whom it overlaps with has raced.
LEMMA BeginStep ==
    ASSUME AccountsInv, NEW o \in Op, NEW kind \in {"add", "remove"}, NEW a \in Account,
           kind = "add" => a.token # 0,
           Begin(o, kind, a), issued' \in 0 .. MaxTokens,
           UNCHANGED <<accounts, users, keychain, phase, refreshing>>
    PROVE  AccountsInv'
<1> DEFINE new == [kind |-> kind, account |-> a, pc |-> "keychain"]
<1>1. /\ ops[o] = None /\ phase # "loading" /\ ops' = [ops EXCEPT ![o] = new]
      /\ raced \subseteq raced' /\ cut' = cut
      /\ raced' \subseteq Identity
      /\ Races(a) => /\ Who(a) \in raced'
                     /\ \A b \in accounts : b.endpoint = a.endpoint => Who(b) \in raced'
                     /\ \A p \in Op : Active(p) => Caller(p) \in raced'
  BY WhoTyped DEF Begin, AccountsInv, AccountsTyped, Active, Caller, Call
<1>2. /\ \A p \in Op : p # o => (Active(p)' <=> Active(p)) /\ ops'[p] = ops[p]
      /\ ops'[o] = new
  BY <1>1 DEF AccountsInv, AccountsTyped, Active
<1>3. AccountsTyped'
  <2>1. ops' \in [Op -> Call \cup {None}]
    BY <1>1 DEF AccountsInv, AccountsTyped, Call
  <2> QED
    BY <1>1, <2>1 DEF AccountsInv, AccountsTyped
<1>4. CallsAlone'
  <2> SUFFICES ASSUME NEW p \in Op, Active(p)', Caller(p)' \notin raced'
               PROVE  /\ \A q \in Op : Active(q)' /\ ops'[q].account.endpoint = ops'[p].account.endpoint => q = p
                      /\ ops'[p].kind = "add" => ops'[p].account.token # 0
                      /\ ops'[p].kind = "add" /\ ops'[p].pc = "done"
                            => keychain'[Caller(p)'] = ops'[p].account.token
    BY DEF CallsAlone
  <2>1. CASE p = o
    <3>1. ~ Races(a)
      BY <1>1, <1>2, <2>1 DEF Caller
    <3>2. \A q \in Op : Active(q)' /\ ops'[q].account.endpoint = a.endpoint => q = o
      BY <1>2, <3>1 DEF Races, Active
    <3> QED BY <1>2, <2>1, <3>2
  <2>2. CASE p # o
    <3>1. ops'[p] = ops[p] /\ Active(p) /\ Caller(p) = Caller(p)' /\ Caller(p) \notin raced
      BY <1>1, <1>2, <2>2 DEF Caller
    <3>2. ops[p].account.endpoint # a.endpoint
      BY <1>1, <3>1 DEF Races, Active
    <3> QED BY <1>2, <3>1, <3>2 DEF AccountsInv, CallsAlone
  <2> QED BY <2>1, <2>2
<1>5. \A i : Settled(i)' => Settled(i)
  BY <1>1, <1>2 DEF Settled, Active, Caller
<1>6. InKeychain'
  BY <1>1, <1>5 DEF AccountsInv, InKeychain, HasToken
<1>7. RefreshAlone'
  <2> SUFFICES ASSUME refreshing # None, NEW b \in refreshing, Who(b) \notin raced',
                      NEW p \in Op, Active(p)'
               PROVE  b \in accounts /\ ops'[p].account.endpoint # b.endpoint
    BY <1>1 DEF AccountsInv, RefreshAlone
  <2>1. Races(a) /\ b \in accounts /\ (Active(p) => ops[p].account.endpoint # b.endpoint)
    BY <1>1 DEF Races, AccountsInv, RefreshAlone
  <2> QED BY <1>1, <1>2, <2>1
<1> QED
  BY <1>1, <1>3, <1>4, <1>6, <1>7 DEF AccountsInv, NothingWhileLoading

LEMMA KeychainStep == ASSUME AccountsInv, NEW o \in Op, KeychainAnswers(o) PROVE AccountsInv'
<1> DEFINE pc == ops'[o].pc
           w == Caller(o)
<1>1. /\ Active(o) /\ ops[o].pc = "keychain"
      /\ ops[o] \in Call
      /\ w \in Identity
      /\ UNCHANGED <<accounts, users, phase, refreshing, issued, raced>>
  BY WhoTyped DEF KeychainAnswers, AccountsInv, AccountsTyped, Active, Caller, Call
<1>2. /\ \A p \in Op : p # o => ops'[p] = ops[p]
      /\ pc \in {"done", "failed"}
      /\ ops'[o] = [ops[o] EXCEPT !.pc = pc] /\ ops'[o] \in Call
      /\ ops' \in [Op -> Call \cup {None}]
  BY <1>1 DEF KeychainAnswers, AccountsInv, AccountsTyped, Call
<1>3. /\ \A p \in Op : (Active(p)' <=> Active(p)) /\ Caller(p)' = Caller(p)
      /\ \A p \in Op : ops'[p].kind = ops[p].kind /\ ops'[p].account = ops[p].account
      /\ keychain' \in [Identity -> 0 .. MaxTokens]
      /\ \A i \in Identity : i # w => keychain'[i] = keychain[i]
      /\ pc = "failed" => keychain' = keychain /\ cut' = cut
      /\ cut' \subseteq cut /\ \A i : i # w => (i \in cut' <=> i \in cut)
      /\ pc = "done" /\ ops[o].kind = "add" => keychain'[w] = ops[o].account.token
  <2>1. \A p \in Op : ops'[p].kind = ops[p].kind /\ ops'[p].account = ops[p].account
    BY <1>1, <1>2 DEF Call
  <2>2. \A p \in Op : (Active(p)' <=> Active(p)) /\ Caller(p)' = Caller(p)
    <3>1. ops'[o] # None
      BY <1>2, AccountsAssumption DEF AccountsInv, AccountsTyped
    <3> QED BY <1>1, <1>2, <2>1, <3>1 DEF Active, Caller
  <2>3. ops[o].account.token \in 0 .. MaxTokens /\ w = Who(ops[o].account)
    BY <1>1 DEF Account, Caller, Call
  <2>4. CASE keychain' = keychain /\ cut' = cut /\ pc = "failed"
    BY <2>1, <2>2, <2>4 DEF AccountsInv, AccountsTyped
  <2>5. CASE /\ pc = "done" /\ cut' = IF ops[o].kind = "add" THEN cut \ {w} ELSE cut
             /\ keychain' = [keychain EXCEPT ![w] = IF ops[o].kind = "add" THEN ops[o].account.token ELSE 0]
    <3>1. keychain' \in [Identity -> 0 .. MaxTokens]
      BY <1>1, <2>3, <2>5, AccountsAssumption DEF AccountsInv, AccountsTyped
    <3> QED BY <1>1, <2>1, <2>2, <2>5, <3>1 DEF AccountsInv, AccountsTyped
  <2> QED BY <1>1, <2>4, <2>5 DEF KeychainAnswers, AccountsInv, AccountsTyped, Caller, Call
<1>4. AccountsTyped'
  BY <1>1, <1>2, <1>3 DEF AccountsInv, AccountsTyped
<1>5. CallsAlone'
  <2> SUFFICES ASSUME NEW p \in Op, Active(p), Caller(p) \notin raced
               PROVE  /\ \A q \in Op : Active(q) /\ ops[q].account.endpoint = ops[p].account.endpoint => q = p
                      /\ ops[p].kind = "add" => ops[p].account.token # 0
                      /\ ops[p].kind = "add" /\ ops'[p].pc = "done"
                            => keychain'[Caller(p)] = ops[p].account.token
    BY <1>1, <1>3 DEF CallsAlone
  <2>1. CASE p = o
    BY <1>2, <1>3, <2>1 DEF AccountsInv, CallsAlone
  <2>2. CASE p # o
    <3>1. ops[o].account.endpoint # ops[p].account.endpoint
      BY <1>1, <2>2 DEF AccountsInv, CallsAlone
    <3>2. ops[p].account \in Account /\ ops[o].account \in Account
      BY <1>1 DEF AccountsInv, AccountsTyped, Active, Call
    <3>3. Caller(p) # w /\ Caller(p) \in Identity
      BY <3>1, <3>2, WhoTyped DEF Caller
    <3> QED BY <1>2, <1>3, <2>2, <3>3 DEF AccountsInv, CallsAlone
  <2> QED BY <2>1, <2>2
<1>6. ASSUME NEW i \in Identity, Settled(i)'
      PROVE  Settled(i) /\ keychain'[i] = keychain[i] /\ (HasToken(i) => HasToken(i)')
  <2>1. Settled(i)
    BY <1>1, <1>2, <1>3, <1>6 DEF Settled
  <2>2. i = w => pc = "failed"
    BY <1>1, <1>2, <1>3, <1>6 DEF Settled
  <2> QED BY <1>3, <2>1, <2>2 DEF HasToken
<1>7. InKeychain'
  <2>1. \A a \in accounts : Who(a) \in Identity
    BY WhoTyped DEF AccountsInv, AccountsTyped
  <2> QED BY <1>1, <1>6, <2>1 DEF AccountsInv, AccountsTyped, InKeychain
<1>8. RefreshAlone'
  BY <1>1, <1>3 DEF AccountsInv, RefreshAlone
<1>9. NothingWhileLoading'
  BY <1>1, <1>3 DEF AccountsInv, NothingWhileLoading
<1> QED
  BY <1>4, <1>5, <1>7, <1>8, <1>9 DEF AccountsInv

\* The end of a call, whatever it leaves in memory and in local storage.
LEMMA OverStep ==
    ASSUME AccountsInv, NEW o \in Op, Active(o), Over(o),
           UNCHANGED <<keychain, phase, refreshing, issued, raced, cut>>,
           accounts' \subseteq Account,
           users' \subseteq Identity, WithoutTokens(accounts') \subseteq users',
           \A b : b.endpoint # ops[o].account.endpoint => (b \in accounts' <=> b \in accounts),
           \A b \in accounts' : Settled(Who(b))' /\ b.endpoint = ops[o].account.endpoint =>
              keychain[Who(b)] = b.token /\ HasToken(Who(b)),
           \A i \in users' : Settled(i)' => HasToken(i)
    PROVE  AccountsInv'
<1>1. /\ \A p \in Op : p # o => ops'[p] = ops[p]
      /\ ops'[o] = None
      /\ ops' \in [Op -> Call \cup {None}]
  BY DEF Over, AccountsInv, AccountsTyped
<1>2. AccountsTyped'
  BY <1>1 DEF AccountsInv, AccountsTyped
<1>3. CallsAlone'
  BY <1>1 DEF AccountsInv, CallsAlone, Active, Caller
<1>4. ASSUME NEW b \in accounts', Settled(Who(b))'
      PROVE  keychain[Who(b)] = b.token /\ HasToken(Who(b))
  <2>1. CASE b.endpoint = ops[o].account.endpoint
    BY <1>4, <2>1 DEF Settled
  <2>2. CASE b.endpoint # ops[o].account.endpoint
    <3>1. b \in accounts /\ b \in Account /\ ops[o].account \in Account
      BY <2>2 DEF AccountsInv, AccountsTyped, Active, Call
    <3>2. Who(b) # Caller(o)
      BY <2>2, <3>1, WhoTyped DEF Caller
    <3>3. Settled(Who(b))
      BY <1>1, <1>4, <3>2 DEF Settled, Active, Caller
    <3> QED BY <3>1, <3>3 DEF AccountsInv, InKeychain
  <2> QED BY <2>1, <2>2
<1>5. InKeychain'
  BY <1>4 DEF InKeychain, HasToken, Settled
<1>6. RefreshAlone'
  BY <1>1 DEF AccountsInv, RefreshAlone, Active
<1> QED
  BY <1>1, <1>2, <1>3, <1>5, <1>6 DEF AccountsInv, NothingWhileLoading, Active

\* Settled, after the end of call o.
LEMMA AfterOver ==
    ASSUME AccountsInv, NEW o \in Op, Active(o), Over(o), raced' = raced, NEW i, Settled(i)',
           ops[o].pc = "done" => i # Caller(o)
    PROVE  Settled(i)
BY DEF AccountsInv, AccountsTyped, Over, Settled, Active, Caller

LEMMA AddedStep == ASSUME AccountsInv, NEW o \in Op, Added(o) PROVE AccountsInv'
<1> DEFINE new == ops[o].account
<1>1. /\ Active(o) /\ ops[o] \in Call /\ ops[o].kind = "add" /\ ops[o].pc = "done" /\ Over(o)
      /\ accounts' = {a \in accounts : a.endpoint # new.endpoint} \cup {new}
      /\ users' = WithoutTokens(accounts')
      /\ UNCHANGED <<keychain, phase, refreshing, issued, raced, cut>>
  BY DEF history, Added, Save, Active, AccountsInv, AccountsTyped
<1>2. new \in Account /\ Who(new) = Caller(o)
  BY <1>1 DEF Call, Caller
<1>3. accounts' \subseteq Account /\ users' \subseteq Identity
  BY <1>1, <1>2, WhoTyped DEF AccountsInv, AccountsTyped, WithoutTokens
<1>4. ASSUME NEW b \in accounts', Settled(Who(b))'
      PROVE  keychain[Who(b)] = b.token /\ HasToken(Who(b))
  <2>1. CASE b = new
    BY <1>1, <1>2, <1>4, <2>1 DEF Settled, HasToken, AccountsInv, CallsAlone
  <2>2. CASE b # new
    <3>1. b \in accounts /\ b \in Account /\ b.endpoint # new.endpoint
      BY <1>1, <1>3, <2>2
    <3>2. Who(b) # Caller(o)
      BY <1>2, <3>1, WhoTyped
    <3>3. Settled(Who(b))
      BY <1>1, <1>4, <3>2, AfterOver
    <3> QED BY <3>1, <3>3 DEF AccountsInv, InKeychain
  <2> QED BY <2>1, <2>2
<1>5. \A i \in users' : Settled(i)' => HasToken(i)
  BY <1>1, <1>4 DEF WithoutTokens
<1>6. \A b : b.endpoint # new.endpoint => (b \in accounts' <=> b \in accounts)
  BY <1>1
<1> QED
  BY <1>1, <1>3, <1>4, <1>5, <1>6, OverStep

LEMMA RemovedStep == ASSUME AccountsInv, NEW o \in Op, Removed(o) PROVE AccountsInv'
<1>1. /\ Active(o) /\ ops[o] \in Call /\ ops[o].pc = "done" /\ Over(o)
      /\ accounts' = {a \in accounts : Who(a) # Caller(o)}
      /\ users' = WithoutTokens(accounts')
      /\ UNCHANGED <<keychain, phase, refreshing, issued, raced, cut>>
  BY DEF history, Removed, Save, Active, Caller, AccountsInv, AccountsTyped
<1>2. accounts' \subseteq accounts /\ accounts' \subseteq Account /\ users' \subseteq Identity
  BY <1>1, WhoTyped DEF AccountsInv, AccountsTyped, WithoutTokens
<1>3. \A b \in accounts' : Settled(Who(b))' => keychain[Who(b)] = b.token /\ HasToken(Who(b))
  BY <1>1, <1>2, AfterOver DEF AccountsInv, InKeychain
<1>4. \A i \in users' : Settled(i)' => HasToken(i)
  BY <1>1, <1>3 DEF WithoutTokens
<1>5. \A b : b.endpoint # ops[o].account.endpoint => (b \in accounts' <=> b \in accounts)
  BY <1>1 DEF Caller, Who
<1> QED
  BY <1>1, <1>2, <1>3, <1>4, <1>5, OverStep

LEMMA FailedStep == ASSUME AccountsInv, NEW o \in Op, Failed(o) PROVE AccountsInv'
<1>1. /\ Active(o) /\ ops[o] \in Call /\ ops[o].pc = "failed" /\ Over(o)
      /\ UNCHANGED <<accounts, users, keychain, phase, refreshing, issued, raced, cut>>
  BY DEF history, Failed, Active, AccountsInv, AccountsTyped
<1>2. \A i : Settled(i)' => Settled(i)
  BY <1>1, AfterOver
<1> QED
  BY <1>1, <1>2, OverStep DEF AccountsInv, AccountsTyped, InKeychain

LEMMA RefreshStep == ASSUME AccountsInv, Refresh PROVE AccountsInv'
<1>1. /\ refreshing' = accounts /\ phase' = "refreshed" /\ refreshing = None
      /\ UNCHANGED <<accounts, users, keychain, ops, issued, cut>>
      /\ raced \subseteq raced' /\ raced' \subseteq Identity
      /\ \A o \in Op : Active(o) => Caller(o) \in raced'
      /\ \A a \in accounts, o \in Op :
            Active(o) /\ ops[o].account.endpoint = a.endpoint => Who(a) \in raced'
  BY WhoTyped DEF Refresh, AccountsInv, AccountsTyped, Call, Active, Caller
<1> QED
  BY <1>1 DEF AccountsInv, AccountsTyped, CallsAlone, InKeychain, RefreshAlone,
     NothingWhileLoading, Settled, HasToken, Active, Caller

LEMMA RefreshedStep == ASSUME AccountsInv, Refreshed PROVE AccountsInv'
<1>1. /\ refreshing # None /\ accounts' = refreshing /\ refreshing' = None
      /\ users' = WithoutTokens(accounts')
      /\ UNCHANGED <<keychain, phase, ops, issued, raced, cut>>
  BY DEF history, Refreshed, Save
<1>2. accounts' \subseteq Account /\ users' \subseteq Identity
  BY <1>1, WhoTyped DEF AccountsInv, AccountsTyped, WithoutTokens
<1>3. ASSUME NEW b \in accounts', Settled(Who(b))'
      PROVE  keychain[Who(b)] = b.token /\ HasToken(Who(b))
  BY <1>1, <1>3 DEF AccountsInv, RefreshAlone, InKeychain, Settled, Active, Caller
<1>4. \A i \in users' : Settled(i)' => HasToken(i)
  BY <1>1, <1>3 DEF WithoutTokens
<1>5. AccountsTyped' /\ InKeychain'
  BY <1>1, <1>2, <1>3, <1>4 DEF AccountsInv, AccountsTyped, InKeychain, HasToken
<1> QED
  BY <1>1, <1>5 DEF AccountsInv, CallsAlone, RefreshAlone, NothingWhileLoading, Active, Caller

LEMMA RestartStep == ASSUME AccountsInv, Restart PROVE AccountsInv'
<1> DEFINE undone == {p \in Op : ops[p] # None /\ ops[p].kind = "remove" /\ ops[p].pc = "done"}
<1>1. /\ accounts' = {} /\ refreshing' = None /\ phase' = "loading"
      /\ ops' = [o \in Op |-> None]
      /\ UNCHANGED <<users, keychain, issued, raced>>
      /\ cut' = cut \cup {Who(ops[o].account) : o \in undone}
  BY DEF Restart
<1>2. cut' \subseteq Identity
  <2>1. \A o \in undone : ops[o].account \in Account
    BY DEF AccountsInv, AccountsTyped, Call
  <2> QED BY <1>1, <2>1, WhoTyped DEF AccountsInv, AccountsTyped
<1>3. ASSUME NEW i \in users, i \notin raced
      PROVE  HasToken(i)'
  <2>1. CASE Settled(i)
    BY <1>1, <1>3, <2>1 DEF AccountsInv, InKeychain, HasToken
  <2>2. CASE ~ Settled(i)
    <3>1. PICK o \in Op : Active(o) /\ Caller(o) = i /\ ops[o].pc = "done"
      BY <1>3, <2>2 DEF Settled
    <3>2. ops[o].kind \in {"add", "remove"}
      BY <3>1 DEF AccountsInv, AccountsTyped, Active, Call
    <3>3. CASE ops[o].kind = "add"
      BY <1>1, <1>3, <3>1, <3>3 DEF AccountsInv, CallsAlone, HasToken
    <3>4. CASE ops[o].kind = "remove"
      BY <1>1, <3>1, <3>4 DEF HasToken, Active, Caller
    <3> QED BY <3>2, <3>3, <3>4
  <2> QED BY <2>1, <2>2
<1>4. InKeychain'
  BY <1>1, <1>3 DEF InKeychain, Settled
<1> QED
  BY <1>1, <1>2, <1>4 DEF AccountsInv, AccountsTyped, CallsAlone, RefreshAlone,
     NothingWhileLoading, Active, WithoutTokens

LEMMA AccountsStoreStep == ASSUME AccountsInv, [Next]_vars PROVE AccountsInv'
<1>1. ASSUME NEW o \in Op, NEW i \in Identity, AddAccount(o, i) PROVE AccountsInv'
  <2> DEFINE a == [endpoint |-> i.endpoint, user |-> i.user, token |-> issued + 1]
  <2>1. a \in Account /\ a.token # 0 /\ issued' \in 0 .. MaxTokens /\ Begin(o, "add", a)
    BY <1>1, AccountsAssumption DEF AddAccount, Account, Identity, AccountsInv, AccountsTyped
  <2> QED BY <1>1, <2>1, BeginStep DEF AddAccount
<1>2. ASSUME NEW o \in Op, NEW a \in accounts, RemoveAccount(o, a) PROVE AccountsInv'
  BY <1>2, BeginStep DEF RemoveAccount, AccountsInv, AccountsTyped
<1>3. CASE UNCHANGED vars
  BY <1>3 DEF vars, history, AccountsInv, AccountsTyped, CallsAlone, InKeychain, RefreshAlone,
     NothingWhileLoading, Settled, HasToken, Active, Caller
<1> QED
  BY <1>1, <1>2, <1>3, LoadStep, RefreshStep, RefreshedStep, RestartStep, KeychainStep,
     AddedStep,
     RemovedStep, FailedStep DEF Next

\* Wherever the program ends, also between the keychain and local storage, and whoever
\* signs in and out before: an account that is in memory has its token in the keychain,
\* or the program ended during its sign-out, unless calls for its endpoint overlapped.
THEOREM StoredSurvives == Spec => []SurvivesRestart
<1>1. Spec => []AccountsInv
  BY AccountsInit, AccountsStoreStep, PTL DEF Spec
<1>2. AccountsInv => SurvivesRestart
  BY DEF AccountsInv, InKeychain, HasToken, Settled, Active, Caller, SurvivesRestart
<1> QED BY <1>1, <1>2, PTL

LEMMA AccountsTypes == AccountsInv => TypeOK
<1> SUFFICES ASSUME AccountsInv PROVE TypeOK
  OBVIOUS
<1>1. refreshing \in (SUBSET Account) \cup {None}
  BY DEF AccountsInv, AccountsTyped
<1>2. accounts \subseteq Account /\ WithoutTokens(accounts) \subseteq users
  BY DEF AccountsInv, AccountsTyped
<1> QED BY <1>1, <1>2 DEF AccountsInv, AccountsTyped, TypeOK


-----------------------------------------------------------------------------

TagCall == [kind : {"create", "delete"}, tag : Tag, pc : {"git", "refresh"}]

TagsTyped ==
    /\ local \subseteq Tag /\ remote \subseteq Tag
    /\ toPush \in Tags!List
    /\ localTags \in (SUBSET Tag) \cup {None}
    /\ call # None => call \in TagCall
    /\ read \in [Tags!Reader -> (SUBSET Tag) \cup {None}]
    /\ push # None => push \in Tags!List
    /\ pushed \in BOOLEAN /\ restarts \in 0 .. MaxRestarts
    /\ made \subseteq Tag /\ late \subseteq Tag

\* The call reads the tags when git is through with it; there is room for the tag
\* it makes, and the one it has deleted was not made since.
CallHandled ==
    /\ read["call"] # None => call # None /\ call.pc = "refresh"
    /\ call # None /\ call.kind = "create" => toPush[call.tag] < MaxListed
    /\ call # None /\ call.kind = "delete" /\ call.pc = "refresh" => call.tag \notin made

\* A tag that is not late is where it could be lost from: in every answer of git
\* the list is compared with, and in a push after which the list is cleared.
Unpushed == made \ late
UnpushedKept ==
  /\ made \subseteq local
  /\ Unpushed \subseteq Tags!Listed(toPush) \cup remote
  /\ \A r \in Tags!Reader : read[r] # None => Unpushed \subseteq read[r]
  /\ push # None => Unpushed \subseteq Tags!Listed(push) \cup remote
  /\ pushed => push # None /\ Tags!Listed(push) \subseteq remote

TagsInv == TagsTyped /\ CallHandled /\ UnpushedKept

LEMMA TagsBounds == MaxRestarts \in Nat /\ MaxListed \in Nat
BY TagsAssumed DEF Tags!TagsAssumption

LEMMA TagsInit == Tags!Init => TagsInv
<1> SUFFICES ASSUME Tags!Init PROVE TagsInv
  OBVIOUS
<1>1. toPush \in Tags!List /\ \A r \in Tags!Reader : read[r] = None
  BY TagsAssumed DEF Tags!TagsAssumption, Tags!Init, Tags!List
<1>2. TagsTyped
  <2>1. local \subseteq Tag /\ read \in [Tags!Reader -> (SUBSET Tag) \cup {None}]
    BY DEF Tags!Init
  <2>2. restarts \in 0 .. MaxRestarts
    BY TagsBounds DEF Tags!Init
  <2>3. remote = {} /\ localTags = None /\ call = None /\ push = None /\ pushed = FALSE
        /\ made = {} /\ late = {}
    BY DEF Tags!Init
  <2> QED BY <1>1, <2>1, <2>2, <2>3 DEF TagsTyped
<1>3. CallHandled /\ UnpushedKept
  BY <1>1 DEF Tags!Init, CallHandled, UnpushedKept, Unpushed, Tags!Reader
<1> QED
  BY <1>2, <1>3 DEF TagsInv

LEMMA ListOps ==
    ASSUME NEW list \in Tags!List
    PROVE  /\ \A t \in Tag : list[t] \in 0 .. MaxListed
           /\ \A tags : Tags!Found(list, tags) \in Tags!List /\ Tags!Listed(Tags!Found(list, tags)) = Tags!Listed(list) \cap tags
           /\ \A tags : \A t \in Tag : Tags!Found(list, tags)[t] <= list[t]
           /\ \A t \in Tag : Tags!Without(list, t) \in Tags!List /\ Tags!Listed(Tags!Without(list, t)) = Tags!Listed(list) \ {t}
           /\ \A t \in Tag : list[t] < MaxListed =>
                 /\ [list EXCEPT ![t] = @ + 1] \in Tags!List
                 /\ Tags!Listed([list EXCEPT ![t] = @ + 1]) = Tags!Listed(list) \cup {t}
BY TagsAssumed DEF Tags!TagsAssumption, Tags!List, Tags!Listed, Tags!Found, Tags!Without

\* createTag or deleteTag comes to its end with a list.
LEMMA FinishStep ==
    ASSUME TagsInv, NEW list \in Tags!List, call # None, call.pc = "refresh", Tags!Finish(list),
           call.kind = "create" => list[call.tag] < MaxListed,
           Unpushed \subseteq Tags!Listed(list) \cup remote,
           read' \in [Tags!Reader -> (SUBSET Tag) \cup {None}],
           \A r \in Tags!Reader : read'[r] # None => r # "call" /\ read'[r] = read[r],
           localTags' \in (SUBSET Tag) \cup {None},
           UNCHANGED <<local, remote, push, pushed, restarts>>
    PROVE  TagsInv'
<1>1. call \in TagCall
  BY DEF TagsInv, TagsTyped
<1>2. toPush' \in Tags!List /\ made' \subseteq Tag /\ late' \subseteq Tag /\ call' = None
  BY <1>1, ListOps DEF Tags!Finish, Tags!Afterwards, TagsInv, TagsTyped, TagCall
<1>3. TagsTyped' /\ CallHandled'
  BY <1>2 DEF TagsInv, TagsTyped, CallHandled, Tags!Reader
<1>4. made' \subseteq local /\ Unpushed' \subseteq Unpushed \cup {call.tag}
  BY DEF Tags!Finish, TagsInv, UnpushedKept, Unpushed
<1>5. \A t \in Unpushed' : t \in Tags!Listed(toPush') \cup remote
  <2>1. CASE call.kind = "create"
    <3>1. toPush' = [list EXCEPT ![call.tag] = @ + 1] /\ call.tag \in Tag
      BY <1>1, <2>1 DEF Tags!Finish, Tags!Afterwards, TagCall
    <3>2. Tags!Listed(toPush') = Tags!Listed(list) \cup {call.tag}
      BY <2>1, <3>1, ListOps
    <3> QED BY <1>4, <3>2
  <2>2. CASE call.kind = "delete"
    <3>1. made' = made /\ call.tag \notin made
      BY <2>2 DEF Tags!Finish, TagsInv, CallHandled
    <3>2. toPush' = Tags!Without(list, call.tag) /\ call.tag \in Tag
      BY <1>1, <2>2 DEF Tags!Finish, Tags!Afterwards, TagCall
    <3>3. Tags!Listed(toPush') = Tags!Listed(list) \ {call.tag}
      BY <3>2, ListOps
    <3>4. call.tag \notin Unpushed'
      BY <3>1 DEF Unpushed
    <3> QED BY <1>4, <3>3, <3>4
  <2>3. call.kind \in {"create", "delete"}
    BY <1>1 DEF TagCall
  <2> QED BY <2>1, <2>2, <2>3
<1>6. ASSUME NEW r \in Tags!Reader, read'[r] # None
      PROVE  Unpushed' \subseteq read'[r]
  <2>1. r \in TagRefresh /\ Unpushed \subseteq read[r] /\ read[r] # None
    BY <1>6 DEF Tags!Reader, TagsInv, UnpushedKept
  <2>2. call.tag \in Unpushed' => call.tag \in read[r]
    BY <2>1 DEF Tags!Finish, Unpushed
  <2> QED BY <1>4, <1>6, <2>1, <2>2
<1>7. push # None => Unpushed' \subseteq Tags!Listed(push) \cup remote
  BY <1>4 DEF Tags!Finish, TagsInv, UnpushedKept, Unpushed
<1> QED
  BY <1>3, <1>4, <1>5, <1>6, <1>7 DEF TagsInv, UnpushedKept

LEMMA TagsStep == ASSUME TagsInv, [Tags!Next]_Tags!vars PROVE TagsInv'
<1> USE DEF TagsInv
<1>1. ASSUME NEW t \in Tag, Tags!CreateTag(t) PROVE TagsInv'
  BY <1>1 DEF Tags!CreateTag, TagsTyped, CallHandled, UnpushedKept, Unpushed, TagCall
<1>2. ASSUME NEW t \in Tag, Tags!DeleteTag(t) PROVE TagsInv'
  BY <1>2 DEF Tags!DeleteTag, TagsTyped, CallHandled, UnpushedKept, Unpushed, TagCall
<1>3. ASSUME NEW t \in Tag, Tags!Outside(t) PROVE TagsInv'
  BY <1>3 DEF Tags!Outside, TagsTyped, CallHandled, UnpushedKept, Unpushed
<1>4. ASSUME NEW r \in Tags!Reader, Tags!GetAllTags(r) PROVE TagsInv'
  <2>1. read' \in [Tags!Reader -> (SUBSET Tag) \cup {None}] /\ read'[r] = local
        /\ \A s \in Tags!Reader : s # r => read'[s] = read[s]
    BY <1>4 DEF Tags!GetAllTags, TagsTyped
  <2>2. "call" \in Tags!Reader
    BY DEF Tags!Reader
  <2> QED BY <1>4, <2>1, <2>2 DEF Tags!GetAllTags, TagsTyped, CallHandled, UnpushedKept,
             Unpushed
<1>5. ASSUME NEW r \in Tags!Reader, Tags!RefreshTags(r) PROVE TagsInv'
  <2> DEFINE found == Tags!Found(toPush, read[r])
  <2>1. /\ read[r] # None /\ read[r] \in SUBSET Tag
        /\ read' \in [Tags!Reader -> (SUBSET Tag) \cup {None}]
        /\ read'[r] = None /\ \A s \in Tags!Reader : s # r => read'[s] = read[s]
        /\ localTags' = read[r]
        /\ "call" \in Tags!Reader
    BY <1>5 DEF Tags!RefreshTags, TagsTyped, Tags!Reader
  <2>2. /\ found \in Tags!List /\ Tags!Listed(found) = Tags!Listed(toPush) \cap read[r]
        /\ \A t \in Tag : found[t] <= toPush[t]
    BY ListOps DEF TagsTyped
  <2>3. Unpushed \subseteq Tags!Listed(found) \cup remote
    BY <2>1, <2>2 DEF UnpushedKept
  <2>4. call # None /\ call.kind = "create" => found[call.tag] < MaxListed
    <3>1. call # None => call.tag \in Tag
      BY DEF TagsTyped, TagCall
    <3> QED BY <2>2, <3>1, ListOps, TagsAssumed DEF CallHandled, Tags!TagsAssumption, TagsTyped
  <2> HIDE DEF found
  <2>5. CASE r = "call"
    BY <1>5, <2>1, <2>2, <2>3, <2>4, <2>5, FinishStep DEF Tags!RefreshTags, CallHandled, found
  <2>6. CASE r # "call"
    <3>1. toPush' = found /\ UNCHANGED <<local, remote, call, push, pushed, restarts, made, late>>
      BY <1>5, <2>6 DEF Tags!RefreshTags, found
    <3>2. TagsTyped' /\ CallHandled'
      BY <2>1, <2>2, <2>4, <2>6, <3>1 DEF TagsTyped, CallHandled
    <3>3. UnpushedKept'
      BY <2>1, <2>3, <3>1 DEF UnpushedKept, Unpushed
    <3> QED BY <3>2, <3>3
  <2> QED BY <2>5, <2>6
<1>6. CASE Tags!GitTag
  <2>1. "call" \in Tags!Reader /\ call \in TagCall /\ call # None /\ call.pc = "git" /\ read["call"] = None
    BY <1>6 DEF Tags!GitTag, TagsTyped, CallHandled, Tags!Reader
  <2> QED BY <1>6, <2>1 DEF Tags!GitTag, TagsTyped, CallHandled, UnpushedKept, Unpushed, TagCall
<1>7. CASE Tags!RefreshFailed
  BY <1>7, FinishStep DEF Tags!RefreshFailed, TagsTyped, CallHandled, UnpushedKept
<1>8. CASE Tags!PerformPush
  BY <1>8 DEF Tags!PerformPush, TagsTyped, CallHandled, UnpushedKept, Unpushed
<1>9. CASE Tags!GitPush
  <2>1. Tags!Listed(push) \subseteq Tag
    BY DEF Tags!Listed
  <2>2. CASE remote' = remote \cup Tags!Listed(push) /\ pushed' = TRUE /\ push' = push
    BY <1>9, <2>1, <2>2 DEF Tags!GitPush, TagsTyped, CallHandled, UnpushedKept, Unpushed
  <2>3. CASE /\ push' = None /\ UNCHANGED <<remote, pushed>>
             /\ late' = late \ {t \in Tags!Listed(toPush) :
                                  \A r \in Tags!Reader : read[r] # None => t \in read[r]}
    BY <1>9, <2>3 DEF Tags!GitPush, TagsTyped, CallHandled, UnpushedKept, Unpushed
  <2> QED BY <1>9, <2>2, <2>3 DEF Tags!GitPush
<1>10. CASE Tags!ClearTagsToPush
  <2>1. toPush' \in Tags!List /\ \A t \in Tag : toPush'[t] = 0
    BY <1>10, TagsAssumed DEF Tags!ClearTagsToPush, Tags!List, Tags!TagsAssumption
  <2>2. TagsTyped'
    BY <1>10, <2>1 DEF Tags!ClearTagsToPush, TagsTyped
  <2>3. Unpushed \subseteq remote
    BY <1>10 DEF Tags!ClearTagsToPush, UnpushedKept
  <2>4. UnpushedKept'
    BY <1>10, <2>3 DEF Tags!ClearTagsToPush, UnpushedKept, Unpushed
  <2>5. CallHandled'
    <3>1. call # None => call.tag \in Tag
      BY DEF TagsTyped, TagCall
    <3>2. call # None /\ call.kind = "create" => 0 < MaxListed
      BY <3>1, TagsBounds DEF CallHandled, TagsTyped, Tags!List
    <3> QED BY <1>10, <2>1, <3>1, <3>2 DEF Tags!ClearTagsToPush, CallHandled
  <2> QED BY <2>2, <2>4, <2>5
<1>11. CASE Tags!Restart
  <2>1. read' \in [Tags!Reader -> (SUBSET Tag) \cup {None}] /\ \A r \in Tags!Reader : read'[r] = None
    BY <1>11 DEF Tags!Restart
  <2>2. restarts' \in 0 .. MaxRestarts
    BY <1>11, TagsBounds DEF Tags!Restart, TagsTyped
  <2>3. "call" \in Tags!Reader
    BY DEF Tags!Reader
  <2> QED BY <1>11, <2>1, <2>2, <2>3 DEF Tags!Restart, TagsTyped, CallHandled, UnpushedKept,
             Unpushed
<1>12. CASE UNCHANGED Tags!vars
  BY <1>12 DEF Tags!vars, TagsTyped, CallHandled, UnpushedKept, Unpushed
<1> QED
  BY <1>1, <1>2, <1>3, <1>4, <1>5, <1>6, <1>7, <1>8, <1>9, <1>10, <1>11, <1>12 DEF Tags!Next

LEMMA TagsTypes == TagsInv => Tags!TypeOK
<1> SUFFICES ASSUME TagsInv PROVE Tags!TypeOK
  OBVIOUS
<1>1. call \in TagCall \cup {None} /\ push \in Tags!List \cup {None}
  BY DEF TagsInv, TagsTyped
<1> QED BY <1>1 DEF TagsInv, TagsTyped, CallHandled, UnpushedKept, TagCall, Tags!TypeOK

\* However refreshes, pushes, tags made and deleted, and restarts are mixed: a tag that
\* was made in the program is on its list until it is on the remote, unless it was made
\* during a push that did not fail, or between a refresh's read of the tags and its answer.
THEOREM TagsSurvive == Tags!Spec => []UnpushedIsListed
<1>1. Tags!Spec => []TagsInv
  BY TagsInit, TagsStep, PTL DEF Tags!Spec
<1>2. TagsInv => UnpushedIsListed
  BY DEF TagsInv, UnpushedKept, Unpushed, UnpushedIsListed, Tags!UnpushedIsListed
<1> QED BY <1>1, <1>2, PTL


-----------------------------------------------------------------------------

\* The user whose list is loaded.
LoadOf(l, u) == load[l] # None /\ load[l].user = u

ListsTyped ==
    /\ signedIn \in [Login -> Api!Object \cup {None}]
    /\ objects \in 0 .. MaxObjects /\ changes \in 0 .. MaxChanges
    /\ accountState \in [Login -> Api!AccountState \cup {None}]
    /\ load \in [RepositoriesLoad -> Api!LoadState \cup {None}]
    /\ server \in [Login -> SUBSET Repo] /\ asked \in [Login -> SUBSET Repo]
    /\ orphaned \subseteq Login
    /\ \A l \in RepositoriesLoad : load[l] # None => load[l].missing \subseteq load[l].repositories

\* A list has a load while it is loaded, and one only if nobody signed out meanwhile.
LoadsMatch ==
    /\ \A u \in Login : accountState[u] # None /\ accountState[u].loading =>
          \E l \in RepositoriesLoad : LoadOf(l, u)
    /\ \A l, k \in RepositoriesLoad :
          load[l] # None /\ load[k] # None /\ load[l].user = load[k].user =>
             l = k \/ load[l].user \in orphaned

\* Who has a list, and has not signed out during a load of it, is signed in.
SignedInIfLoaded ==
    \A u \in Login \ orphaned : accountState[u] # None => signedIn[u] # None

\* What a load has been sent is what the server has answered so far; the list
\* shown is the load's.
SentSoFar(l) ==
    LET u == load[l].user
    IN  /\ accountState[u] # None /\ accountState[u].loading
        /\ accountState[u].repositories = load[l].repositories
        /\ load[l].due \subseteq asked[u]
        /\ load[l].repositories \ load[l].missing = asked[u] \ load[l].due

ListsInv == 
    /\ ListsTyped /\ LoadsMatch /\ SignedInIfLoaded /\ Api!LoadedIsServers
    /\ \A l \in RepositoriesLoad :
          load[l] # None /\ load[l].user \notin orphaned => SentSoFar(l)

LEMMA ListsBounds == /\ MaxObjects \in Nat /\ MaxChanges \in Nat
                 /\ None \notin Api!Object /\ None \notin Api!AccountState /\ None \notin Api!LoadState
BY ApiAssumed DEF Api!ApiRepositoriesAssumption, Api!Object

LEMMA ListsInit == Api!Init => ListsInv
<1> SUFFICES ASSUME Api!Init PROVE ListsInv
  OBVIOUS
<1>1. ListsTyped
  <2>1. objects \in 0 .. MaxObjects /\ changes \in 0 .. MaxChanges
    BY ListsBounds DEF Api!Init
  <2> QED BY <2>1 DEF Api!Init, ListsTyped
<1> QED BY <1>1 DEF Api!Init, ListsInv, LoadsMatch, SignedInIfLoaded, Api!LoadedIsServers, LoadOf

\* The account of u is replaced or removed.
LEMMA AccountsStep ==
    ASSUME ListsInv, NEW u \in Login, NEW a \in Api!Object \cup {None},
           signedIn' = [signedIn EXCEPT ![u] = a], objects' \in 0 .. MaxObjects,
           orphaned \subseteq orphaned', orphaned' \subseteq Login,
           a = None => \A l \in RepositoriesLoad : LoadOf(l, u) => u \in orphaned',
           Api!AccountsChanged, UNCHANGED <<load, server, changes, asked>>
    PROVE  ListsInv'
<1>1. \A v \in Login :
         /\ signedIn'[v] \in Api!Object \cup {None}
         /\ v # u => signedIn'[v] = signedIn[v]
         /\ signedIn'[u] = a
         /\ accountState'[v] = IF accountState[v] = None \/ signedIn'[v] = None THEN None
                               ELSE [accountState[v] EXCEPT !.key = signedIn'[v]]
  BY DEF Api!AccountsChanged, ListsInv, ListsTyped
<1>2. \A v \in Login :
         IF accountState[v] = None \/ signedIn'[v] = None THEN accountState'[v] = None
         ELSE /\ accountState'[v] \in Api!AccountState /\ accountState'[v] # None
              /\ accountState'[v].repositories = accountState[v].repositories
              /\ accountState'[v].loading = accountState[v].loading
  <2> TAKE v \in Login
  <2>1. CASE accountState[v] # None /\ signedIn'[v] # None
    <3>1. accountState'[v] = [accountState[v] EXCEPT !.key = signedIn'[v]] /\ signedIn'[v] \in Api!Object
      BY <1>1, <2>1
    <3>2. accountState[v] \in Api!AccountState
      BY <2>1 DEF ListsInv, ListsTyped
    <3>3. accountState'[v] \in Api!AccountState
      BY <3>1, <3>2 DEF Api!AccountState
    <3> QED BY <2>1, <3>1, <3>2, <3>3, ListsBounds DEF Api!AccountState
  <2> QED BY <1>1, <2>1
<1>3. ListsTyped'
  <2>1. accountState' \in [Login -> Api!AccountState \cup {None}]
    BY <1>2 DEF Api!AccountsChanged
  <2> QED BY <2>1 DEF ListsInv, ListsTyped
<1>4. LoadsMatch' /\ Api!LoadedIsServers'
  BY <1>1, <1>2 DEF ListsInv, LoadsMatch, Api!LoadedIsServers, LoadOf
<1>5. ASSUME NEW l \in RepositoriesLoad, load[l] # None, load[l].user \notin orphaned'
      PROVE  SentSoFar(l)'
  <2>1. load[l].user \in Login /\ SentSoFar(l) /\ accountState[load[l].user] # None
    BY <1>5 DEF ListsInv, ListsTyped, Api!LoadState, LoadsMatch, SentSoFar
  <2>2. signedIn'[load[l].user] # None
    BY <1>1, <1>5, <2>1 DEF LoadOf, ListsInv, SignedInIfLoaded
  <2> QED BY <1>2, <2>1, <2>2 DEF SentSoFar
<1>6. SignedInIfLoaded'
  BY <1>1, <1>2 DEF ListsInv, SignedInIfLoaded
<1> QED BY <1>3, <1>4, <1>5, <1>6 DEF ListsInv

\* The state of u becomes s, with its load l; nobody else's changes.
LEMMA StateStep ==
    ASSUME ListsInv, NEW l \in RepositoriesLoad, NEW u \in Login,
           NEW object \in Api!Object, NEW repositories \in SUBSET Repo, NEW loading \in BOOLEAN,
           accountState' = Api!UpdateAccount(u, object, repositories, loading)
    PROVE  /\ accountState' \in [Login -> Api!AccountState \cup {None}]
           /\ \A v \in Login : v # u => accountState'[v] = accountState[v]
           /\ accountState'[u] # None
           /\ accountState'[u].repositories = repositories
           /\ accountState'[u].loading = loading
<1>1. /\ accountState'[u] = [key |-> IF accountState[u] = None THEN object ELSE accountState[u].key,
                             repositories |-> repositories, loading |-> loading]
      /\ \A v \in Login : v # u => accountState'[v] = accountState[v]
  BY DEF ListsInv, ListsTyped, Api!UpdateAccount
<1>2. accountState[u] # None => accountState[u].key \in Api!Object
  BY DEF ListsInv, ListsTyped, Api!AccountState
<1>3. accountState'[u] \in Api!AccountState
  BY <1>1, <1>2 DEF Api!AccountState
<1>4. accountState' \in [Login -> Api!AccountState \cup {None}]
  BY <1>3 DEF ListsInv, ListsTyped, Api!UpdateAccount
<1> QED BY <1>1, <1>3, <1>4, ListsBounds

LEMMA LoadRepositoriesStep ==
    ASSUME ListsInv, NEW l \in RepositoriesLoad, NEW u \in Login, Api!LoadRepositories(l, u)
    PROVE  ListsInv'
<1> DEFINE new == [user |-> u, account |-> signedIn[u], repositories |-> Api!Repositories(u),
                   missing |-> Api!Repositories(u), due |-> server[u]]
<1>1. /\ load[l] = None /\ signedIn[u] # None /\ ~ Api!Loading(u)
      /\ accountState' = Api!UpdateAccount(u, signedIn[u], Api!Repositories(u), TRUE)
      /\ load' = [load EXCEPT ![l] = new] /\ asked' = [asked EXCEPT ![u] = server[u]]
      /\ orphaned' = IF Api!InLoad(u) THEN orphaned ELSE orphaned \ {u}
      /\ UNCHANGED <<signedIn, objects, server, changes>>
  BY DEF Api!LoadRepositories
<1>2. signedIn[u] \in Api!Object /\ server[u] \in SUBSET Repo /\ Api!Repositories(u) \in SUBSET Repo
  BY <1>1 DEF ListsInv, ListsTyped, Api!Repositories, Api!AccountState
<1>3. new \in Api!LoadState
  BY <1>2 DEF Api!LoadState
<1>4. /\ accountState' \in [Login -> Api!AccountState \cup {None}]
      /\ \A v \in Login : v # u => accountState'[v] = accountState[v]
      /\ accountState'[u] # None /\ accountState'[u].loading
      /\ accountState'[u].repositories = Api!Repositories(u)
  BY <1>1, <1>2, StateStep
<1>5. /\ load'[l] = new /\ load'[l] # None
      /\ \A k \in RepositoriesLoad : k # l => load'[k] = load[k]
      /\ load' \in [RepositoriesLoad -> Api!LoadState \cup {None}]
  BY <1>1, <1>3, ListsBounds DEF ListsInv, ListsTyped
<1>6. /\ asked'[u] = server[u] /\ asked' \in [Login -> SUBSET Repo]
      /\ \A v \in Login : v # u => asked'[v] = asked[v]
  BY <1>1, <1>2 DEF ListsInv, ListsTyped
<1>7. /\ orphaned' \subseteq orphaned /\ \A v : v # u => (v \in orphaned' <=> v \in orphaned)
      /\ u \notin orphaned' => \A k \in RepositoriesLoad : load[k] # None => load[k].user # u
  BY <1>1 DEF ListsInv, SentSoFar, Api!Loading, Api!InLoad
<1>8. ListsTyped'
  BY <1>1, <1>4, <1>5, <1>6, <1>7 DEF ListsInv, ListsTyped
<1>9. new.user = u
  OBVIOUS
<1>10. /\ new.repositories = Api!Repositories(u) /\ new.missing = Api!Repositories(u)
       /\ new.due = server[u]
  OBVIOUS
<1> HIDE DEF new
<1>11. LoadsMatch'
  <2>1. \A v \in Login : accountState'[v] # None /\ accountState'[v].loading =>
          \E k \in RepositoriesLoad : LoadOf(k, v)'
    <3>1. LoadOf(l, u)'
      BY <1>5, <1>9 DEF LoadOf
    <3>2. \A k \in RepositoriesLoad, v \in Login : LoadOf(k, v) => LoadOf(k, v)'
      BY <1>1, <1>5 DEF LoadOf
    <3> QED BY <1>4, <3>1, <3>2 DEF ListsInv, LoadsMatch
  <2>2. ASSUME NEW j \in RepositoriesLoad, NEW k \in RepositoriesLoad,
               load'[j] # None, load'[k] # None, load'[j].user = load'[k].user,
               load'[j].user \notin orphaned'
        PROVE  j = k
    BY <1>5, <1>7, <1>9, <2>2 DEF ListsInv, LoadsMatch
  <2> QED BY <2>1, <2>2 DEF LoadsMatch
<1>12. Api!LoadedIsServers' /\ SignedInIfLoaded'
  <2>1. Api!LoadedIsServers /\ SignedInIfLoaded
    BY DEF ListsInv
  <2>2. Api!LoadedIsServers'
    BY <2>1, <1>4, <1>6, <1>7 DEF Api!LoadedIsServers
  <2>3. SignedInIfLoaded'
    BY <2>1, <1>1, <1>4, <1>7 DEF SignedInIfLoaded
  <2> QED BY <2>2, <2>3
<1>13. ASSUME NEW k \in RepositoriesLoad, load'[k] # None, load'[k].user \notin orphaned'
       PROVE  SentSoFar(k)'
  <2>1. CASE k = l
    BY <1>4, <1>5, <1>6, <1>9, <1>10, <2>1 DEF SentSoFar
  <2>2. CASE k # l
    <3>1. load'[k] = load[k] /\ load[k].user \in Login
      BY <1>5, <1>13, <2>2 DEF ListsInv, ListsTyped, Api!LoadState
    <3>2. load[k].user # u /\ load[k].user \notin orphaned
      BY <1>7, <1>13, <3>1
    <3>3. SentSoFar(k)
      BY <1>13, <3>1, <3>2 DEF ListsInv
    <3> QED BY <1>4, <1>6, <3>1, <3>2, <3>3 DEF SentSoFar
  <2> QED BY <2>1, <2>2
<1> QED BY <1>8, <1>11, <1>12, <1>13 DEF ListsInv

LEMMA AddPageStep ==
    ASSUME ListsInv, NEW l \in RepositoriesLoad, NEW page \in SUBSET Repo, Api!AddPage(l, page)
    PROVE  ListsInv'
<1> DEFINE u == load[l].user
           new == [load[l] EXCEPT !.repositories = @ \cup page, !.missing = @ \ page, !.due = @ \ page]
<1>1. /\ load[l] # None /\ page \subseteq load[l].due
      /\ load[l] \in Api!LoadState /\ u \in Login /\ load[l].account \in Api!Object
      /\ u \notin orphaned => SentSoFar(l)
      /\ load[l].missing \subseteq load[l].repositories
      /\ load' = [load EXCEPT ![l] = new]
      /\ UNCHANGED <<signedIn, objects, server, changes, asked, orphaned>>
  BY DEF Api!AddPage, ListsInv, ListsTyped, Api!LoadState
<1>2. new \in Api!LoadState
  BY <1>1 DEF Api!LoadState
<1>3. /\ load'[l] = new /\ load'[l] # None
      /\ \A k \in RepositoriesLoad : k # l => load'[k] = load[k]
      /\ load' \in [RepositoriesLoad -> Api!LoadState \cup {None}]
  BY <1>1, <1>2, ListsBounds DEF ListsInv, ListsTyped
<1>4. /\ new.user = u /\ new.repositories = load[l].repositories \cup page
      /\ new.missing = load[l].missing \ page /\ new.due = load[l].due \ page
      /\ new.repositories \in SUBSET Repo
  BY <1>1 DEF Api!LoadState
<1> HIDE DEF new
<1>5. /\ accountState' \in [Login -> Api!AccountState \cup {None}]
      /\ \A v \in Login : v # u => accountState'[v] = accountState[v]
      /\ accountState'[u] # None
      /\ accountState'[u].loading <=> Api!Loading(u)
      /\ accountState'[u].repositories = new.repositories
  <2>1. accountState' = Api!UpdateAccount(u, load[l].account, new.repositories, Api!Loading(u))
    BY <1>3 DEF Api!AddPage
  <2>2. CASE Api!Loading(u)
    <3>1. accountState' = Api!UpdateAccount(u, load[l].account, new.repositories, TRUE)
      BY <1>1, <2>1, <2>2 DEF Api!Loading, ListsInv, ListsTyped, Api!AccountState
    <3> QED BY <1>1, <1>4, <2>2, <3>1, StateStep
  <2>3. CASE ~ Api!Loading(u)
    <3>1. accountState' = Api!UpdateAccount(u, load[l].account, new.repositories, FALSE)
      BY <1>1, <2>1, <2>3 DEF Api!Loading, ListsInv, ListsTyped, Api!AccountState
    <3>2. /\ accountState' \in [Login -> Api!AccountState \cup {None}]
          /\ \A v \in Login : v # u => accountState'[v] = accountState[v]
          /\ accountState'[u] # None
          /\ accountState'[u].loading = FALSE
          /\ accountState'[u].repositories = new.repositories
      <4>1. /\ u \in Login /\ load[l].account \in Api!Object /\ new.repositories \in SUBSET Repo
            /\ FALSE \in BOOLEAN /\ ListsInv /\ l \in RepositoriesLoad
        BY <1>1, <1>4
      <4> HIDE DEF u
      <4> QED BY ONLY <3>1, <4>1, StateStep
    <3>3. ~ accountState'[u].loading
      BY ONLY <3>2
    <3> QED BY ONLY <2>3, <3>2, <3>3
  <2> QED BY <2>2, <2>3
<1>6. ListsTyped'
  BY <1>1, <1>3, <1>4, <1>5 DEF ListsInv, ListsTyped
<1>7. \A k \in RepositoriesLoad : (load'[k] # None <=> load[k] # None) /\ (load[k] # None => load'[k].user = load[k].user)
  BY <1>1, <1>3, <1>4
<1>8. LoadsMatch' /\ Api!LoadedIsServers' /\ SignedInIfLoaded'
  <2>1. \A v : \A k \in RepositoriesLoad : LoadOf(k, v)' <=> LoadOf(k, v)
    BY <1>7 DEF LoadOf
  <2>2. LoadsMatch'
    <3>1. LoadsMatch
      BY DEF ListsInv
    <3>2. \A v \in Login : accountState'[v] # None /\ accountState'[v].loading =>
             \E k \in RepositoriesLoad : LoadOf(k, v)'
      BY <1>5, <2>1, <3>1 DEF LoadsMatch, Api!Loading
    <3>3. \A j, k \in RepositoriesLoad :
             load'[j] # None /\ load'[k] # None /\ load'[j].user = load'[k].user =>
                j = k \/ load'[j].user \in orphaned'
      BY <1>1, <1>7, <3>1 DEF LoadsMatch
    <3> QED BY <3>2, <3>3 DEF LoadsMatch
  <2>3. u \notin orphaned => Api!Loading(u)
    BY <1>1 DEF SentSoFar, Api!Loading
  <2>4. Api!LoadedIsServers'
    BY <1>1, <1>5, <2>3 DEF ListsInv, Api!LoadedIsServers
  <2>5. SignedInIfLoaded'
    BY <1>1, <1>5, <2>3 DEF ListsInv, SignedInIfLoaded, Api!Loading
  <2> QED BY <2>2, <2>4, <2>5
<1>9. ASSUME NEW k \in RepositoriesLoad, load'[k] # None, load'[k].user \notin orphaned'
      PROVE  SentSoFar(k)'
  <2>1. CASE k = l
    BY <1>1, <1>3, <1>4, <1>5, <1>9, <2>1 DEF SentSoFar, Api!Loading
  <2>2. CASE k # l
    <3>1. load'[k] = load[k] /\ load[k].user # u /\ load[k].user \in Login
          /\ load[k].user \notin orphaned
      BY <1>1, <1>3, <1>9, <2>2 DEF ListsInv, ListsTyped, Api!LoadState, LoadsMatch
    <3>2. SentSoFar(k)
      BY <1>9, <3>1 DEF ListsInv
    <3> QED BY <1>1, <1>5, <3>1, <3>2 DEF SentSoFar
  <2> QED BY <2>1, <2>2
<1> QED BY <1>6, <1>8, <1>9 DEF ListsInv

LEMMA PageFailsStep ==
    ASSUME ListsInv, NEW l \in RepositoriesLoad, NEW rest \in SUBSET Repo,
           Api!PageFails(l, rest)
    PROVE  ListsInv'
<1> DEFINE u == load[l].user
           new == [load[l] EXCEPT !.due = rest]
<1>1. /\ load[l] # None /\ rest \subseteq load[l].due
      /\ load[l] \in Api!LoadState /\ u \in Login
      /\ u \notin orphaned => SentSoFar(l)
      /\ load' = [load EXCEPT ![l] = new]
      /\ asked' = [asked EXCEPT ![u] = @ \ (load[l].due \ rest)]
      /\ UNCHANGED <<signedIn, objects, accountState, server, changes, orphaned>>
  BY DEF Api!PageFails, ListsInv, ListsTyped, Api!LoadState
<1>2. /\ new \in Api!LoadState /\ new.user = u /\ new.due = rest
      /\ new.missing = load[l].missing /\ new.repositories = load[l].repositories
  BY <1>1 DEF Api!LoadState
<1>3. /\ load'[l] = new /\ load'[l] # None
      /\ \A k \in RepositoriesLoad : k # l => load'[k] = load[k]
      /\ load' \in [RepositoriesLoad -> Api!LoadState \cup {None}]
  BY <1>1, <1>2, ListsBounds DEF ListsInv, ListsTyped
<1>4. /\ asked'[u] = asked[u] \ (load[l].due \ rest)
      /\ \A v \in Login : v # u => asked'[v] = asked[v]
      /\ asked' \in [Login -> SUBSET Repo]
  BY <1>1 DEF ListsInv, ListsTyped
<1> HIDE DEF new
<1>5. ListsTyped'
  BY <1>1, <1>2, <1>3, <1>4 DEF ListsInv, ListsTyped
<1>6. \A k \in RepositoriesLoad : (load'[k] # None <=> load[k] # None) /\ (load[k] # None => load'[k].user = load[k].user)
  BY <1>1, <1>2, <1>3
<1>7. LoadsMatch' /\ Api!LoadedIsServers' /\ SignedInIfLoaded'
  <2>1. \A v : \A k \in RepositoriesLoad : LoadOf(k, v)' <=> LoadOf(k, v)
    BY <1>6 DEF LoadOf
  <2>2. LoadsMatch' /\ SignedInIfLoaded'
    BY <1>1, <1>6, <2>1 DEF ListsInv, LoadsMatch, SignedInIfLoaded
  <2>3. u \notin orphaned => accountState[u].loading
    BY <1>1 DEF SentSoFar
  <2> QED BY <1>1, <1>4, <2>2, <2>3 DEF ListsInv, Api!LoadedIsServers
<1>8. ASSUME NEW k \in RepositoriesLoad, load'[k] # None, load'[k].user \notin orphaned'
      PROVE  SentSoFar(k)'
  <2>1. CASE k = l
    BY <1>1, <1>2, <1>3, <1>4, <1>8, <2>1 DEF SentSoFar
  <2>2. CASE k # l
    <3>1. load'[k] = load[k] /\ load[k].user # u /\ load[k].user \in Login
          /\ load[k].user \notin orphaned
      BY <1>1, <1>3, <1>8, <2>2 DEF ListsInv, ListsTyped, Api!LoadState, LoadsMatch
    <3>2. SentSoFar(k)
      BY <1>8, <3>1 DEF ListsInv
    <3> QED BY <1>1, <1>4, <3>1, <3>2 DEF SentSoFar
  <2> QED BY <2>1, <2>2
<1> QED BY <1>5, <1>7, <1>8 DEF ListsInv

LEMMA LoadedStep ==
    ASSUME ListsInv, NEW l \in RepositoriesLoad, Api!Loaded(l)
    PROVE  ListsInv'
<1> DEFINE u == load[l].user
           found == IF load[l].missing # {} THEN load[l].repositories \ load[l].missing
                                            ELSE Api!Repositories(u)
<1>1. /\ load[l] # None /\ load[l].due = {}
      /\ load[l] \in Api!LoadState /\ u \in Login /\ load[l].account \in Api!Object
      /\ u \notin orphaned => SentSoFar(l)
      /\ load' = [load EXCEPT ![l] = None]
      /\ accountState' = Api!UpdateAccount(u, load[l].account, found, FALSE)
      /\ UNCHANGED <<signedIn, objects, server, changes, asked, orphaned>>
  BY DEF Api!Loaded, ListsInv, ListsTyped, Api!LoadState
<1>2. found \in SUBSET Repo
  BY <1>1 DEF Api!LoadState, Api!Repositories, ListsInv, ListsTyped, Api!AccountState
<1>3. u \notin orphaned => found = asked[u] /\ accountState[u] # None
  BY <1>1 DEF SentSoFar, Api!Repositories
<1> HIDE DEF found
<1>4. /\ accountState' \in [Login -> Api!AccountState \cup {None}]
      /\ \A v \in Login : v # u => accountState'[v] = accountState[v]
      /\ accountState'[u] # None /\ ~ accountState'[u].loading
      /\ accountState'[u].repositories = found
  BY <1>1, <1>2, StateStep
<1>5. /\ load'[l] = None /\ \A k \in RepositoriesLoad : k # l => load'[k] = load[k]
      /\ load' \in [RepositoriesLoad -> Api!LoadState \cup {None}]
  BY <1>1 DEF ListsInv, ListsTyped
<1>6. ListsTyped'
  BY <1>1, <1>4, <1>5 DEF ListsInv, ListsTyped
<1>7. LoadsMatch' /\ Api!LoadedIsServers' /\ SignedInIfLoaded'
  <2>1. \A k \in RepositoriesLoad, v \in Login : v # u /\ LoadOf(k, v) => LoadOf(k, v)'
    BY <1>5 DEF LoadOf
  <2>2. LoadsMatch'
    BY <1>1, <1>4, <1>5, <2>1 DEF ListsInv, LoadsMatch
  <2>3. SignedInIfLoaded'
    BY <1>1, <1>3, <1>4 DEF ListsInv, SignedInIfLoaded
  <2> QED BY <1>1, <1>3, <1>4, <2>2, <2>3 DEF ListsInv, Api!LoadedIsServers
<1>8. ASSUME NEW k \in RepositoriesLoad, load'[k] # None, load'[k].user \notin orphaned'
      PROVE  SentSoFar(k)'
  <2>1. load'[k] = load[k] /\ load[k].user # u /\ load[k].user \in Login
        /\ load[k].user \notin orphaned
    BY <1>1, <1>5, <1>8 DEF ListsInv, ListsTyped, Api!LoadState, LoadsMatch
  <2>2. accountState'[load'[k].user] = accountState[load[k].user] /\ load[k] # None /\ asked' = asked
    BY <1>1, <1>4, <1>8, <2>1
  <2>3. SentSoFar(k)
    BY <2>1, <2>2 DEF ListsInv
  <2> QED BY <2>1, <2>2, <2>3 DEF SentSoFar
<1> QED BY <1>6, <1>7, <1>8 DEF ListsInv

LEMMA ListsStep == ASSUME ListsInv, [Api!Next]_Api!vars PROVE ListsInv'
<1>1. ASSUME NEW u \in Login, Api!NewAccount(u) PROVE ListsInv'
  <2>1. objects + 1 \in Api!Object /\ objects' \in 0 .. MaxObjects
    BY <1>1, ListsBounds DEF Api!NewAccount, ListsInv, ListsTyped, Api!Object
  <2>2. objects + 1 # None
    BY <2>1, ListsBounds
  <2> QED BY <1>1, <2>1, <2>2, AccountsStep DEF Api!NewAccount, ListsInv, ListsTyped
<1>2. ASSUME NEW u \in Login, Api!SignOut(u) PROVE ListsInv'
  <2>1. /\ orphaned \subseteq orphaned' /\ orphaned' \subseteq Login
        /\ \A l \in RepositoriesLoad : LoadOf(l, u) => u \in orphaned'
    BY <1>2 DEF Api!SignOut, ListsInv, ListsTyped, LoadOf, Api!InLoad
  <2> QED BY <1>2, <2>1, AccountsStep DEF Api!SignOut, ListsInv, ListsTyped
<1>3. ASSUME NEW u \in Login, NEW repos \in SUBSET Repo, Api!ServerChanges(u, repos)
      PROVE ListsInv'
  <2>1. /\ changes' \in 0 .. MaxChanges /\ server' \in [Login -> SUBSET Repo]
        /\ UNCHANGED <<signedIn, objects, accountState, load, asked, orphaned>>
    BY <1>3, ListsBounds DEF Api!ServerChanges, ListsInv, ListsTyped
  <2> QED BY <2>1 DEF ListsInv, ListsTyped, LoadsMatch, LoadOf, SentSoFar, Api!LoadedIsServers,
             SignedInIfLoaded
<1>4. CASE UNCHANGED Api!vars
  BY <1>4 DEF Api!vars, ListsInv, ListsTyped, LoadsMatch, LoadOf, SentSoFar, Api!LoadedIsServers,
     SignedInIfLoaded
<1> QED
  BY <1>1, <1>2, <1>3, <1>4, LoadRepositoriesStep, AddPageStep, PageFailsStep,
     LoadedStep DEF Api!Next

LEMMA ListsTypes == ListsInv => Api!TypeOK
BY DEF ListsInv, ListsTyped, LoadsMatch, LoadOf, Api!TypeOK, Api!InLoad

\* A list that is not being loaded is what the server last answered with, however many
\* pages a load takes, whichever of them fail, and although the account is replaced
\* meanwhile; of who signs out while the own list is loaded, from the next load on that
\* no other is left beside.
THEOREM ListsAreServers == Api!Spec => []LoadedIsServers
<1>1. Api!Spec => []ListsInv
  BY ListsInit, ListsStep, PTL DEF Api!Spec
<1>2. ListsInv => LoadedIsServers
  BY DEF ListsInv, LoadedIsServers, Api!LoadedIsServers
<1> QED BY <1>1, <1>2, PTL

-----------------------------------------------------------------------------

\* A behaviour of the three parts side by side is one of each of them.
LEMMA SideBySide == AnySpec => Spec /\ Tags!Spec /\ Api!Spec
<1>1. AnyInit => Init /\ Tags!Init /\ Api!Init
  BY DEF AnyInit
<1>2. [AnyNext]_<<part, vars, tagVars, apiVars>>
        => [Next]_vars /\ [Tags!Next]_Tags!vars /\ [Api!Next]_Api!vars
  BY DEF AnyNext, vars, tagVars, apiVars, Tags!vars, Api!vars
<1> QED BY <1>1, <1>2, PTL DEF AnySpec, Spec, Tags!Spec, Api!Spec

\* The variables of all three keep their types in every behaviour of the three.
THEOREM LocalTypes == AnySpec => []AllTypeOK
<1>1. Spec => []AccountsInv
  BY AccountsInit, AccountsStoreStep, PTL DEF Spec
<1>2. Tags!Spec => []TagsInv
  BY TagsInit, TagsStep, PTL DEF Tags!Spec
<1>3. Api!Spec => []ListsInv
  BY ListsInit, ListsStep, PTL DEF Api!Spec
<1>4. AccountsInv /\ TagsInv /\ ListsInv => AllTypeOK
  BY AccountsTypes, TagsTypes, ListsTypes DEF AllTypeOK
<1> QED BY <1>1, <1>2, <1>3, <1>4, SideBySide, PTL
=============================================================================
