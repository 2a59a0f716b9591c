-------------------------- MODULE StorefrontProofs --------------------------
(***************************************************************************)
(* The safety properties of Storefront, for any number of browsers,        *)
(* customers, accounts, addresses and payments.                            *)
(***************************************************************************)
EXTENDS Storefront, TLAPS, FiniteSetTheorems

\* Each account that was created and not merged away is one row.
RowIsAccount ==
  /\ \A u \in UserId : subject[u] # NoOne <=> account[u] # 0
  /\ \A u \in UserId : account[u] <= created
  /\ \A u, v \in Rows : account[u] = account[v] => u = v
  /\ ledger \subseteq Rows
  /\ \A u \in UserId : balance[u] > 0 => u \in ledger

\* What a row's account had is its own, and nothing is said of accounts to come.
HeirsKnown ==
  /\ \A u \in Rows : heir[account[u]] = account[u]
  /\ \A k \in Account : k > created => heir[k] = k
  /\ \A k \in Account : k <= created => heir[k] <= created

\* Cookies and pages know only accounts that exist or existed.
NoneFromTheFuture ==
  /\ \A b \in Browser : cookie[b] # NoCookie => cookie[b].account <= created
  /\ page # NoPage => page.account <= created

\* The ledger has the purchase, whether or not the deposit says so yet.
Issued(d) ==
  \/ deposit[d].state = "credited"
  \/ Running("mark") /\ hook.deposit = d

\* The tokens of a payment went to the account that has the address, or to one
\* that was merged into it, unless the hook was misled.  Its ledger row keeps the
\* account from being merged into an id without a row.  What was paid to has an
\* owner, with a row or without.
CreditFollowsAddress ==
  \A d \in Deposit :
    /\ deposit[d].state # "waiting" =>
         deposit[d].address \in Address /\ owner[deposit[d].address] # 0
    /\ Issued(d) /\ d \notin misled =>
         LET u == owner[deposit[d].address] IN
           /\ creditedTo[d] \in Account
           /\ u \in ledger
           /\ account[u] = heir[creditedTo[d]]

\* The hook that runs is of a confirmed deposit, and the id it holds has no row,
\* or still has the address, unless the hook was misled.
HookKnows ==
  hook # NoHook =>
    /\ deposit[hook.deposit].state = "confirmed"
    /\ hook.next = "insert" /\ hook.deposit \notin misled /\ hook.user \in Rows =>
         owner[deposit[hook.deposit].address] = hook.user

\* A page says "credited", or is about to, when a payment to its address is.
ShownIsCredited ==
  /\ page = NoPage => replies = {}
  /\ page # NoPage /\ (page.shows = "credited" \/ "credited" \in replies) =>
       \E d \in Paid(page.address) : deposit[d].state = "credited"

People == RowIsAccount /\ HeirsKnown /\ OneAccountEach
SafeInv ==
  /\ TypeOK /\ People /\ NoneFromTheFuture
  /\ SessionIsOwn /\ AddressIsOwn /\ CreditFollowsAddress /\ HookKnows
  /\ ShownIsCredited

\* latestDepositStatus returns the state of a payment to the address.
LEMMA StatusIsOfPayment ==
  ASSUME TypeOK, NEW a \in Address
  PROVE  /\ Status(a) \in States
         /\ Status(a) = "credited" =>
              \E d \in Paid(a) : deposit[d].state = "credited"
<1>1. CASE Latest(a) = {}
  BY <1>1 DEF Status, States
<1>2. CASE Latest(a) # {}
  <2>1. PICK d \in Latest(a) : d = CHOOSE e \in Latest(a) : TRUE
    BY <1>2
  <2>2. d \in Paid(a) /\ d \in Deposit
    BY DEF Latest, Paid
  <2>3. Status(a) = deposit[d].state
    BY <1>2, <2>1 DEF Status
  <2>4. deposit[d].state \in States
    BY <2>2 DEF TypeOK
  <2> QED
    BY <2>2, <2>3, <2>4
<1> QED
  BY <1>1, <1>2

\* A new row has a new id and stands for a new account.
LEMMA NewRowFacts ==
  ASSUME SafeInv, NEW b \in Browser, NEW u \in UserId,
         creating[b] # NoOne, NewRow(b, u)
  PROVE  /\ u \notin Rows /\ account[u] = 0 /\ subject[u] = NoOne
         /\ created + 1 \in Account /\ created \in Nat
         /\ created' = created + 1
         /\ subject' = [subject EXCEPT ![u] = creating[b]]
         /\ account' = [account EXCEPT ![u] = created + 1]
         /\ cookie' = [cookie EXCEPT ![b] = [uid |-> u, account |-> created + 1]]
         /\ Rows' = Rows \cup {u}
         /\ heir' = heir
         /\ misled' = IF Running("insert") /\ hook.user = u
                      THEN misled \cup {hook.deposit} ELSE misled
         /\ creating[b] \in Identity
<1> USE DEF SafeInv
<1>1. u \in Nat
  BY StorefrontAssumption
<1>2. u \notin Rows
  <2>1. \A v \in Rows : v < u
    BY DEF NewRow, NextUserId
  <2> QED
    BY <1>1, <2>1
<1>3. subject[u] = NoOne /\ account[u] = 0
  BY <1>2 DEF Rows, People, RowIsAccount
<1>4. created + 1 \in Account /\ created \in Nat
  BY StorefrontAssumption DEF NewRow, TypeOK, Account
<1>5. creating[b] \in Identity
  BY DEF TypeOK
<1>6. /\ created' = created + 1
      /\ subject' = [subject EXCEPT ![u] = creating[b]]
      /\ account' = [account EXCEPT ![u] = created + 1]
      /\ cookie' = [cookie EXCEPT ![b] = [uid |-> u, account |-> created + 1]]
      /\ heir' = heir
      /\ misled' = IF Running("insert") /\ hook.user = u
                   THEN misled \cup {hook.deposit} ELSE misled
  BY DEF NewRow, Issue, Running
<1>7. Rows' = Rows \cup {u}
  BY <1>6 DEF TypeOK, Rows
<1> QED
  BY <1>2, <1>3, <1>4, <1>5, <1>6, <1>7

\* A row has an account.
LEMMA RowFacts ==
  ASSUME SafeInv, NEW u \in Rows
  PROVE  /\ u \in UserId /\ account[u] \in Account
         /\ heir[account[u]] = account[u]
  BY DEF SafeInv, TypeOK, Rows, People, RowIsAccount, HeirsKnown

-----------------------------------------------------------------------------
(* Initially.                                                              *)

\* Nobody has an account at first.
LEMMA InitSafe == Init => SafeInv
<1> SUFFICES ASSUME Init PROVE SafeInv
  OBVIOUS
<1>1. TypeOK
  BY StorefrontAssumption DEF Init, TypeOK, NoDeposit, States, Texts, Account
<1>2. Rows = {}
  BY DEF Init, Rows
<1>3. People
  BY <1>2, StorefrontAssumption
     DEF Init, People, RowIsAccount, HeirsKnown, OneAccountEach, Account
<1>4. NoneFromTheFuture /\ SessionIsOwn /\ AddressIsOwn
  BY DEF Init, NoneFromTheFuture, SessionIsOwn, AddressIsOwn, Followed
<1>5. CreditFollowsAddress /\ HookKnows /\ ShownIsCredited
  BY DEF Init, CreditFollowsAddress, Issued, Running, HookKnows, ShownIsCredited, NoDeposit
<1> QED
  BY <1>1, <1>3, <1>4, <1>5 DEF SafeInv

-----------------------------------------------------------------------------
(* Steps of the page.                                                      *)

Elsewhere ==
  UNCHANGED <<people, books, owner, sessions, payments, history>>

\* A page that stays the page of the same address and account keeps the
\* invariant if what it says, now or soon, is so.
LEMMA PageKeeps ==
  ASSUME SafeInv, Elsewhere,
         page' \in Page \cup {NoPage}, replies' \subseteq Texts,
         page' # NoPage => /\ page # NoPage
                           /\ page'.address = page.address
                           /\ page'.account = page.account,
         page' = NoPage => replies' = {},
         page' # NoPage /\ (page'.shows = "credited" \/ "credited" \in replies') =>
           \E d \in Paid(page.address) : deposit[d].state = "credited"
  PROVE  SafeInv'
<1> USE DEF SafeInv
<1>1. /\ UNCHANGED <<subject, account, created, heir>>
      /\ UNCHANGED <<balance, ledger, owner, cookie, creating>>
      /\ UNCHANGED <<deposit, hook, creditedTo, plays, strayed, misled>>
  BY DEF Elsewhere, people, books, sessions, payments, history
<1>2. TypeOK'
  BY <1>1 DEF TypeOK
<1>3. Rows' = Rows /\ \A a : Paid(a)' = Paid(a)
  BY <1>1 DEF Rows, Paid
<1>4. People'
  BY <1>1, <1>3 DEF People, RowIsAccount, HeirsKnown, OneAccountEach
<1>5. NoneFromTheFuture'
  BY <1>1 DEF NoneFromTheFuture
<1>6. SessionIsOwn'
  BY <1>1 DEF SessionIsOwn, Own
<1>7. AddressIsOwn'
  BY <1>1, <1>3 DEF AddressIsOwn, Followed
<1>8. CreditFollowsAddress' /\ HookKnows'
  BY <1>1, <1>3 DEF CreditFollowsAddress, Issued, Running, HookKnows
<1>9. ShownIsCredited'
  BY <1>1 DEF ShownIsCredited, Paid
<1> QED
  BY <1>2, <1>4, <1>5, <1>6, <1>7, <1>8, <1>9

PageStep ==
  \/ Leave \/ Connect \/ Tick \/ WriteTimeout \/ StreamEnds \/ Poll
  \/ \E text \in Texts : Answered(text)

\* The page, its stream and its polls say nothing that did not happen.
LEMMA PageStepSafe ==
  ASSUME SafeInv, PageStep
  PROVE  SafeInv'
<1> USE DEF SafeInv
<1>1. Elsewhere
  BY DEF PageStep, Leave, Connect, Tick, WriteTimeout, StreamEnds, Poll, Answered,
         Elsewhere
<1>2. CASE Leave
  BY <1>1, <1>2, PageKeeps DEF Leave
<1>3. page # NoPage => page \in Page
  BY DEF TypeOK
<1>4. replies \subseteq Texts
  BY DEF TypeOK
<1>5. ASSUME page # NoPage, NEW f \in {"stream", "late"}, NEW l \in States \cup {""}
      PROVE  /\ [page EXCEPT !.feed = f] \in Page
             /\ Polling(page) \in Page
             /\ \A s \in Texts : /\ [Polling(page) EXCEPT !.shows = s] \in Page
                                 /\ [page EXCEPT !.shows = s] \in Page
                                 /\ [page EXCEPT !.shows = s, !.last = l] \in Page
  BY <1>3, <1>5 DEF Page, Polling
<1>6. page # NoPage =>
        /\ Status(page.address) \in States
        /\ Status(page.address) = "credited" =>
             \E d \in Paid(page.address) : deposit[d].state = "credited"
        /\ Render(Status(page.address)) \in Texts
        /\ Render(Status(page.address)) = "credited" =>
             Status(page.address) = "credited"
  <2>1. page # NoPage => page.address \in Address
    BY <1>3 DEF Page
  <2>2. \A s \in States : Render(s) \in Texts /\ (Render(s) = "credited" => s = "credited")
    BY DEF Render, States, Texts
  <2> QED
    BY <2>1, <2>2, StatusIsOfPayment
<1>7. page # NoPage /\ (page.shows = "credited" \/ "credited" \in replies) =>
        \E d \in Paid(page.address) : deposit[d].state = "credited"
  BY DEF ShownIsCredited
<1>8. ASSUME page # NoPage, page' # NoPage, page' \in Page, replies' \subseteq Texts,
             page'.address = page.address, page'.account = page.account,
             page'.shows = "credited" \/ "credited" \in replies' =>
               \/ page.shows = "credited" \/ "credited" \in replies
               \/ Status(page.address) = "credited"
      PROVE  SafeInv'
  BY <1>1, <1>6, <1>7, <1>8, PageKeeps
<1>9. ASSUME page # NoPage, page' \in Page, replies' \subseteq Texts,
             page'.address = page.address, page'.account = page.account,
             \/ page'.shows = page.shows
             \/ page'.shows \in replies
             \/ page'.shows = Render(Status(page.address)),
             replies' \subseteq replies \cup {Render(Status(page.address))}
      PROVE  SafeInv'
  BY <1>6, <1>8, <1>9, NothingAssumption
<1> QED
  <2>1. CASE Connect
    BY <1>3, <1>4, <1>5, <1>9, <2>1 DEF Connect, On, Polling, Page
  <2>2. CASE Tick
    BY <1>3, <1>4, <1>5, <1>6, <1>9, <2>2 DEF Tick, On, Polling, Page
  <2>3. CASE WriteTimeout
    BY <1>3, <1>4, <1>5, <1>9, <2>3 DEF WriteTimeout, On, Page
  <2>4. CASE StreamEnds
    BY <1>3, <1>4, <1>5, <1>9, <2>4 DEF StreamEnds, On, Polling, Page
  <2>5. CASE Poll
    BY <1>3, <1>4, <1>6, <1>9, <2>5 DEF Poll, On, Page
  <2>6. ASSUME NEW text \in Texts, Answered(text)
        PROVE  SafeInv'
    BY <1>3, <1>4, <1>5, <1>9, <2>6 DEF Answered, Page, ShownIsCredited
  <2> QED
    BY <1>2, <2>1, <2>2, <2>3, <2>4, <2>5, <2>6 DEF PageStep

-----------------------------------------------------------------------------
(* Steps of sessions.                                                      *)

\* Cookies that denote their accounts keep the invariant.
LEMMA SessionKeeps ==
  ASSUME SafeInv,
         UNCHANGED <<people, books, owner, browsing, payments, history>>,
         creating' \in [Browser -> Identity \cup {NoOne}],
         cookie' \in [Browser -> Cookie \cup {NoCookie}],
         \A b \in Browser :
           \/ cookie'[b] \in {cookie[b], NoCookie}
           \/ /\ cookie'[b].uid \in Rows
              /\ cookie'[b].account = account[cookie'[b].uid]
  PROVE  SafeInv'
<1> USE DEF SafeInv
<1>1. /\ UNCHANGED <<subject, account, created, heir>>
      /\ UNCHANGED <<balance, ledger, owner, page, replies>>
      /\ UNCHANGED <<deposit, hook, creditedTo, plays, strayed, misled>>
  BY DEF people, books, browsing, payments, history
<1>2. TypeOK'
  BY <1>1 DEF TypeOK
<1>3. Rows' = Rows /\ \A a : Paid(a)' = Paid(a)
  BY <1>1 DEF Rows, Paid
<1>4. People'
  BY <1>1, <1>3 DEF People, RowIsAccount, HeirsKnown, OneAccountEach
<1>5. NoneFromTheFuture'
  BY <1>1 DEF NoneFromTheFuture, People, RowIsAccount, Rows
<1>6. SessionIsOwn'
  BY <1>1 DEF SessionIsOwn, Own
<1>7. AddressIsOwn'
  BY <1>1, <1>3 DEF AddressIsOwn, Followed
<1>8. CreditFollowsAddress' /\ HookKnows' /\ ShownIsCredited'
  BY <1>1, <1>3 DEF CreditFollowsAddress, Issued, Running, HookKnows, ShownIsCredited
<1> QED
  BY <1>2, <1>4, <1>5, <1>6, <1>7, <1>8

\* A returning customer gets a session of the account that is theirs.
LEMMA SignInSafe ==
  ASSUME SafeInv, NEW b \in Browser, NEW i \in Identity, SignIn(b, i)
  PROVE  SafeInv'
<1> USE DEF SafeInv
<1>1. CASE \E u \in Rows : subject[u] = i /\ Issue(b, u, account[u]) /\ UNCHANGED creating
  <2>1. PICK u \in Rows : Issue(b, u, account[u]) /\ UNCHANGED creating
    BY <1>1
  <2>2. u \in UserId /\ account[u] \in Account
    BY RowFacts
  <2>3. [uid |-> u, account |-> account[u]] \in Cookie
    BY <2>2 DEF Cookie
  <2> QED
    BY <2>1, <2>2, <2>3, SessionKeeps DEF SignIn, Issue, TypeOK
<1>2. CASE creating' = [creating EXCEPT ![b] = i] /\ UNCHANGED cookie
  BY <1>2, SessionKeeps DEF SignIn, TypeOK
<1> QED
  BY <1>1, <1>2 DEF SignIn

\* Giving up a session leaves the others.
LEMMA LogoutSafe ==
  ASSUME SafeInv, NEW b \in Browser, Logout(b)
  PROVE  SafeInv'
BY SessionKeeps DEF SafeInv, TypeOK, Logout

\* The new account is nobody's heir, and cookies with its row's id that are
\* still about are of accounts that were merged away.
LEMMA CreateSafe ==
  ASSUME SafeInv, NEW b \in Browser, Create(b)
  PROVE  SafeInv'
<1> USE DEF SafeInv
<1>1. CASE UNCHANGED <<people, cookie, misled>>
  BY <1>1, SessionKeeps DEF Create, TypeOK, history
<1>2. CASE (\A u \in Rows : subject[u] # creating[b]) /\ \E u \in UserId : NewRow(b, u)
  <2>1. PICK u \in UserId : NewRow(b, u)
    BY <1>2
  <2>2. /\ u \notin Rows /\ account[u] = 0 /\ subject[u] = NoOne
        /\ created + 1 \in Account /\ created \in Nat
        /\ created' = created + 1
        /\ subject' = [subject EXCEPT ![u] = creating[b]]
        /\ account' = [account EXCEPT ![u] = created + 1]
        /\ cookie' = [cookie EXCEPT ![b] = [uid |-> u, account |-> created + 1]]
        /\ Rows' = Rows \cup {u}
        /\ heir' = heir
        /\ misled' = IF Running("insert") /\ hook.user = u
                     THEN misled \cup {hook.deposit} ELSE misled
        /\ creating[b] \in Identity
    BY <2>1, NewRowFacts DEF Create
  <2>3. /\ UNCHANGED <<balance, ledger, owner, page, replies>>
        /\ UNCHANGED <<deposit, hook, creditedTo, plays, strayed>>
        /\ creating' = [creating EXCEPT ![b] = NoOne]
    BY DEF Create, books, browsing, payments
  <2>4. TypeOK'
    <3>1. created' \in 0..MaxAccounts
      BY <2>2, StorefrontAssumption DEF Account
    <3>2. [uid |-> u, account |-> created + 1] \in Cookie
      BY <2>2 DEF Cookie
    <3>3. misled' \subseteq Deposit
      BY <2>2 DEF TypeOK, Running, Hook
    <3> QED
      BY <2>2, <2>3, <3>1, <3>2, <3>3 DEF TypeOK
  <2>5. \A v \in Rows : /\ v \in UserId /\ v # u
                        /\ subject'[v] = subject[v] /\ account'[v] = account[v]
                        /\ account[v] \in Account /\ account[v] <= created
    BY <2>2, RowFacts DEF TypeOK, People, RowIsAccount
  <2>6. subject'[u] = creating[b] /\ account'[u] = created + 1 /\ subject'[u] # NoOne
    BY <2>2, StorefrontAssumption DEF TypeOK
  <2>7. RowIsAccount'
    <3>1. \A v \in UserId : subject'[v] # NoOne <=> account'[v] # 0
      BY <2>2, <2>6 DEF People, RowIsAccount, TypeOK
    <3>2. \A v \in UserId : account'[v] <= created'
      BY <2>2, <2>6 DEF People, RowIsAccount, TypeOK, Account
    <3>3. ASSUME NEW v \in Rows', NEW w \in Rows', account'[v] = account'[w]
          PROVE  v = w
      BY <2>2, <2>5, <2>6, <3>3 DEF People, RowIsAccount, Account
    <3>4. ledger' \subseteq Rows' /\ \A v \in UserId : balance'[v] > 0 => v \in ledger'
      BY <2>2, <2>3 DEF People, RowIsAccount
    <3> QED
      BY <3>1, <3>2, <3>3, <3>4 DEF RowIsAccount
  <2>8. HeirsKnown'
    <3>1. heir[created + 1] = created + 1
      BY <2>2 DEF People, HeirsKnown
    <3>2. \A v \in Rows' : heir'[account'[v]] = account'[v]
      BY <2>2, <2>5, <2>6, <3>1 DEF People, HeirsKnown
    <3>3. \A k \in Account : k > created' => heir'[k] = k
      BY <2>2 DEF People, HeirsKnown, Account
    <3>4. \A k \in Account : k <= created' => heir'[k] <= created'
      <4> SUFFICES ASSUME NEW k \in Account, k <= created + 1
                   PROVE  heir[k] <= created + 1
        BY <2>2
      <4>1. k \in Nat /\ heir[k] \in Nat
        BY StorefrontAssumption DEF TypeOK, Account
      <4>2. k <= created \/ k = created + 1
        BY <2>2, <4>1
      <4>3. k <= created => heir[k] <= created
        BY DEF People, HeirsKnown
      <4> QED
        BY <2>2, <3>1, <4>1, <4>2, <4>3
    <3> QED
      BY <3>2, <3>3, <3>4 DEF HeirsKnown
  <2>9. OneAccountEach'
    BY <1>2, <2>2, <2>5, <2>6 DEF People, OneAccountEach
  <2>10. NoneFromTheFuture'
    <3>1. \A c \in Browser : cookie'[c] # NoCookie => cookie'[c].account <= created'
      BY <2>2 DEF NoneFromTheFuture, TypeOK, Cookie, Account
    <3>2. page' # NoPage => page'.account <= created'
      <4>1. page # NoPage => page.account \in Nat
        <5>1. \A k \in Account \cup {0} : k \in Nat
          BY StorefrontAssumption DEF Account
        <5>2. page # NoPage => page.account \in Account \cup {0}
          BY DEF TypeOK, Page
        <5> QED
          BY <5>1, <5>2
      <4> QED
        BY <2>2, <2>3, <4>1 DEF NoneFromTheFuture
    <3> QED
      BY <3>1, <3>2 DEF NoneFromTheFuture
  <2>11. SessionIsOwn'
    <3> SUFFICES ASSUME NEW c \in Browser, cookie'[c] # NoCookie
                 PROVE  \/ account'[cookie'[c].uid] = cookie'[c].account
                        \/ heir'[cookie'[c].account] # cookie'[c].account
      BY DEF SessionIsOwn, Own
    <3>1. CASE c = b
      BY <2>2, <2>6, <3>1 DEF TypeOK
    <3>2. CASE c # b
      <4>1. cookie'[c] = cookie[c] /\ cookie[c] \in Cookie
        BY <2>2, <3>2 DEF TypeOK
      <4>2. CASE cookie[c].uid = u
        <5>1. account[cookie[c].uid] # cookie[c].account
          BY <2>2, <4>1, <4>2 DEF Cookie, Account
        <5> QED
          BY <2>2, <4>1, <5>1 DEF SessionIsOwn, Own
      <4>3. CASE cookie[c].uid # u
        BY <2>2, <4>1, <4>3 DEF SessionIsOwn, Own, Cookie, TypeOK
      <4> QED
        BY <4>2, <4>3
    <3> QED
      BY <3>1, <3>2
  <2>12. AddressIsOwn'
    BY <2>2, <2>3, <2>5 DEF AddressIsOwn, Followed
  <2>13. CreditFollowsAddress'
    <3>1. misled \subseteq misled' /\ \A d \in Deposit : Issued(d)' = Issued(d)
      BY <2>2, <2>3 DEF Issued, Running
    <3>2. \A v \in ledger : account'[v] = account[v]
      BY <2>5 DEF People, RowIsAccount
    <3> QED
      BY <2>2, <2>3, <3>1, <3>2 DEF CreditFollowsAddress
  <2>14. HookKnows'
    BY <2>2, <2>3 DEF HookKnows, Running
  <2>15. ShownIsCredited'
    BY <2>2, <2>3 DEF ShownIsCredited, Paid
  <2> QED
    BY <2>4, <2>7, <2>8, <2>9, <2>10, <2>11, <2>12, <2>13, <2>14, <2>15 DEF People
<1> QED
  BY <1>1, <1>2 DEF Create

-----------------------------------------------------------------------------
(* Purchases, payments and redemptions.                                    *)

\* The owners of other addresses stay, and the page that opens shows an address
\* of its session.
LEMMA StartPurchaseSafe ==
  ASSUME SafeInv, NEW b \in Browser, StartPurchase(b)
  PROVE  SafeInv'
<1> USE DEF SafeInv
<1> DEFINE u == cookie[b].uid
<1>1. cookie[b] \in Cookie /\ cookie[b] # NoCookie
  BY DEF StartPurchase, SignedIn, TypeOK
<1>2. u \in UserId /\ u # 0 /\ cookie[b].account \in Account
  BY <1>1, StorefrontAssumption DEF Cookie
<1>3. PICK a \in Address :
        /\ \/ a \in Assigned(u) /\ UNCHANGED owner
           \/ /\ Assigned(u) = {} /\ a \in Oldest
              /\ owner' = [owner EXCEPT ![a] = u]
        /\ Show(b, a)
  BY DEF StartPurchase
<1> HIDE DEF u
<1>4. /\ owner' \in [Address -> UserId \cup {0}]
      /\ owner'[a] = u
      /\ \A x \in Address : owner[x] # 0 => owner'[x] = owner[x]
  BY <1>2, <1>3 DEF Assigned, Oldest, TypeOK
<1>5. /\ UNCHANGED <<subject, account, created, heir>>
      /\ UNCHANGED <<balance, ledger, cookie, creating>>
      /\ UNCHANGED <<deposit, hook, creditedTo, plays, strayed, misled>>
  BY DEF StartPurchase, people, books, sessions, payments, history
<1>6. Rows' = Rows /\ \A x : Paid(x)' = Paid(x)
  BY <1>5 DEF Rows, Paid
<1>7. \A r \in Rows : r # 0
  BY StorefrontAssumption DEF Rows
<1>8. CreditFollowsAddress' /\ HookKnows'
  <2>1. \A v \in ledger : v # 0
    BY <1>7 DEF People, RowIsAccount
  <2>2. \A d \in Deposit : Issued(d)' = Issued(d) /\ (Issued(d) => deposit[d].state # "waiting")
    BY <1>5 DEF Issued, Running, HookKnows
  <2>3. CreditFollowsAddress'
    BY <1>4, <1>5, <1>6, <2>1, <2>2 DEF CreditFollowsAddress
  <2>4. hook # NoHook => deposit[hook.deposit].address \in Address
    BY DEF HookKnows, CreditFollowsAddress, TypeOK, Hook
  <2>5. HookKnows'
    BY <1>4, <1>5, <1>6, <1>7, <2>4 DEF HookKnows
  <2> QED
    BY <2>3, <2>5
<1>9. SessionIsOwn' /\ People'
  BY <1>5, <1>6 DEF SessionIsOwn, Own, People, RowIsAccount, HeirsKnown, OneAccountEach
<1>10. CASE UNCHANGED browsing
  <2>1. UNCHANGED <<page, replies>>
    BY <1>10 DEF browsing
  <2>2. TypeOK'
    BY <1>4, <1>5, <2>1 DEF TypeOK
  <2>3. AddressIsOwn'
    BY <1>4, <1>5, <1>6, <1>7, <2>1 DEF AddressIsOwn, Followed, TypeOK, Page
  <2>4. NoneFromTheFuture' /\ ShownIsCredited'
    BY <1>5, <1>6, <2>1 DEF NoneFromTheFuture, ShownIsCredited
  <2> QED
    BY <1>8, <1>9, <2>2, <2>3, <2>4
<1>11. CASE /\ page = NoPage
            /\ page' = [viewer |-> b, address |-> a,
                        account |-> IF Own(b) THEN cookie[b].account ELSE 0,
                        shows |-> "waiting", feed |-> "connect", last |-> ""]
            /\ replies' = {}
  <2>1. page' \in Page
    BY <1>2, <1>11 DEF Page, Texts
  <2>2. TypeOK'
    BY <1>4, <1>5, <1>11, <2>1 DEF TypeOK
  <2>3. AddressIsOwn'
    <3> SUFFICES ASSUME page'.account # 0
                 PROVE  owner'[a] \in Rows' /\ account'[owner'[a]] = heir'[page'.account]
      BY <1>11 DEF AddressIsOwn, Followed
    <3>1. account[u] = cookie[b].account /\ page'.account = account[u]
      BY <1>11 DEF Own, u
    <3>2. u \in Rows
      BY <1>2, <3>1 DEF Rows, People, RowIsAccount, Account
    <3> QED
      BY <1>4, <1>5, <1>6, <3>1, <3>2, RowFacts
  <2>4. NoneFromTheFuture'
    <3>1. 0 <= created
      BY DEF TypeOK
    <3>2. cookie[b].account <= created
      BY <1>1 DEF NoneFromTheFuture
    <3> QED
      BY <1>5, <1>11, <3>1, <3>2 DEF NoneFromTheFuture
  <2>5. ShownIsCredited'
    BY <1>11 DEF ShownIsCredited
  <2> QED
    BY <1>8, <1>9, <2>2, <2>3, <2>4, <2>5
<1> QED
  BY <1>3, <1>10, <1>11 DEF Show

\* Payments and redemptions leave people, sessions, addresses and the page.
LEMMA BooksKeep ==
  ASSUME SafeInv, UNCHANGED <<people, owner, sessions, browsing>>, TypeOK',
         ledger' \subseteq Rows,
         \A u \in UserId : balance'[u] > 0 => u \in ledger',
         \A d \in Deposit : deposit[d].state = "credited" => deposit'[d] = deposit[d],
         CreditFollowsAddress', HookKnows'
  PROVE  SafeInv'
<1> USE DEF SafeInv
<1>1. /\ UNCHANGED <<subject, account, created, heir>>
      /\ UNCHANGED <<owner, cookie, creating, page, replies>>
  BY DEF people, sessions, browsing
<1>2. Rows' = Rows
  BY <1>1 DEF Rows
<1>3. People'
  BY <1>1, <1>2 DEF People, RowIsAccount, HeirsKnown, OneAccountEach
<1>4. NoneFromTheFuture' /\ SessionIsOwn' /\ AddressIsOwn'
  BY <1>1, <1>2 DEF NoneFromTheFuture, SessionIsOwn, Own, AddressIsOwn, Followed
<1>5. ShownIsCredited'
  BY <1>1 DEF ShownIsCredited, Paid
<1> QED
  BY <1>3, <1>4, <1>5

\* A deposit that is not credited, and has no hook, changes.
LEMMA DepositMoves ==
  ASSUME SafeInv, UNCHANGED <<people, books, owner, sessions, browsing, history>>,
         UNCHANGED <<hook, creditedTo>>, hook = NoHook,
         NEW d \in Deposit, NEW a \in Address, owner[a] # 0,
         NEW s \in {"seen", "confirmed", "orphaned"},
         deposit[d].state # "credited",
         deposit' = [deposit EXCEPT ![d] = [address |-> a, state |-> s]]
  PROVE  SafeInv'
<1> USE DEF SafeInv
<1>1. /\ UNCHANGED <<subject, account, created, heir, balance, ledger>>
      /\ UNCHANGED <<owner, cookie, creating, page, replies>>
      /\ UNCHANGED <<hook, creditedTo, plays, strayed, misled>>
  BY DEF people, books, sessions, browsing, history
<1>2. /\ deposit'[d] = [address |-> a, state |-> s]
      /\ \A e \in Deposit \ {d} : deposit'[e] = deposit[e]
  BY DEF TypeOK
<1>3. TypeOK'
  <2>1. deposit' \in [Deposit -> [address : Address \cup {0}, state : States]]
    BY DEF TypeOK, States
  <2> QED
    BY <1>1, <2>1 DEF TypeOK
<1>4. \A e \in Deposit : Issued(e)' => Issued(e) /\ e # d
  BY <1>1, <1>2 DEF Issued, Running
<1>5. CreditFollowsAddress'
  BY <1>1, <1>2, <1>4 DEF CreditFollowsAddress
<1>6. HookKnows'
  BY <1>1 DEF HookKnows
<1> QED
  BY <1>1, <1>2, <1>3, <1>5, <1>6, BooksKeep DEF People, RowIsAccount

\* A payment comes to an address that was handed out.
LEMMA PaySafe ==
  ASSUME SafeInv, NEW a \in Address, Pay(a)
  PROVE  SafeInv'
<1>1. PICK d \in Deposit :
        /\ deposit[d] = NoDeposit
        /\ deposit' = [deposit EXCEPT ![d] = [address |-> a, state |-> "seen"]]
  BY DEF Pay
<1>2. deposit[d].state # "credited"
  BY <1>1 DEF NoDeposit
<1>3. /\ UNCHANGED <<people, books, owner, sessions, browsing, history>>
      /\ UNCHANGED <<hook, creditedTo>>
      /\ hook = NoHook /\ owner[a] # 0
  BY DEF Pay
<1> QED
  BY <1>1, <1>2, <1>3, DepositMoves

\* A deposit is confirmed or orphaned.
LEMMA AdvanceSafe ==
  ASSUME SafeInv, NEW d \in Deposit, Advance(d)
  PROVE  SafeInv'
<1>1. PICK s \in {"confirmed", "orphaned"} :
        deposit' = [deposit EXCEPT ![d].state = s]
  BY DEF Advance
<1>2. deposit[d].state \in {"seen", "confirmed"}
  BY DEF Advance
<1>3. deposit[d].address \in Address /\ owner[deposit[d].address] # 0
  BY <1>2 DEF SafeInv, CreditFollowsAddress
<1>4. deposit' = [deposit EXCEPT ![d] = [address |-> deposit[d].address, state |-> s]]
  <2>1. deposit[d] \in [address : Address \cup {0}, state : States]
    BY DEF SafeInv, TypeOK
  <2>2. [deposit[d] EXCEPT !.state = s] = [address |-> deposit[d].address, state |-> s]
    BY <2>1
  <2> QED
    BY <1>1, <2>2
<1> QED
  BY <1>2, <1>3, <1>4, DepositMoves DEF Advance

\* The hook has the owner of the address when it starts.
LEMMA ReadUserSafe ==
  ASSUME SafeInv, NEW d \in Deposit, ReadUser(d)
  PROVE  SafeInv'
<1> USE DEF SafeInv
<1>1. /\ UNCHANGED <<subject, account, created, heir, balance, ledger>>
      /\ UNCHANGED <<owner, cookie, creating, page, replies>>
      /\ UNCHANGED <<deposit, creditedTo, plays, strayed, misled>>
      /\ UNCHANGED <<people, owner, sessions, browsing>>
      /\ hook = NoHook /\ deposit[d].state = "confirmed"
      /\ hook' = [deposit |-> d, user |-> owner[deposit[d].address], next |-> "insert"]
  BY DEF ReadUser, people, books, sessions, browsing, history
<1>2. owner[deposit[d].address] \in UserId
  BY <1>1 DEF CreditFollowsAddress, TypeOK
<1>3. TypeOK'
  <2>1. hook' \in Hook
    BY <1>1, <1>2 DEF Hook
  <2> QED
    BY <1>1, <2>1 DEF TypeOK
<1>4. CreditFollowsAddress'
  BY <1>1 DEF CreditFollowsAddress, Issued, Running
<1>5. HookKnows'
  BY <1>1 DEF HookKnows
<1> QED
  BY <1>1, <1>3, <1>4, <1>5, BooksKeep DEF People, RowIsAccount

\* The hook credits the account that has the address, unless it was misled.
LEMMA CreditPurchaseSafe ==
  ASSUME SafeInv, CreditPurchase
  PROVE  SafeInv'
<1> USE DEF SafeInv
<1> DEFINE d == hook.deposit
           u == hook.user
<1>1. /\ hook # NoHook /\ hook.next = "insert" /\ u \in Rows
      /\ balance' = [balance EXCEPT ![u] = @ + 1]
      /\ ledger' = ledger \cup {u}
      /\ creditedTo' = [creditedTo EXCEPT ![d] = account[u]]
      /\ hook' = [hook EXCEPT !.next = "mark"]
      /\ UNCHANGED <<subject, account, created, heir>>
      /\ UNCHANGED <<owner, cookie, creating, page, replies>>
      /\ UNCHANGED <<deposit, plays, strayed, misled>>
      /\ UNCHANGED <<people, owner, sessions, browsing>>
  BY DEF CreditPurchase, Running, people, sessions, browsing, history
<1>2. u \in UserId /\ account[u] \in Account /\ heir[account[u]] = account[u]
  BY <1>1, RowFacts
<1>3. hook \in Hook /\ d \in Deposit
  BY <1>1 DEF TypeOK, Hook
<1>4. hook' \in Hook /\ hook'.deposit = d /\ hook'.next = "mark" /\ hook' # NoHook
  BY <1>1, <1>3, NothingAssumption DEF Hook
<1>5. TypeOK'
  <2>1. balance' \in [UserId -> Nat] /\ ledger' \subseteq UserId
    BY <1>1, <1>2 DEF TypeOK
  <2>2. creditedTo' \in [Deposit -> Account \cup {0}]
    BY <1>1, <1>2 DEF TypeOK
  <2> QED
    BY <1>1, <1>4, <2>1, <2>2 DEF TypeOK
<1>6. /\ creditedTo'[d] = account[u]
      /\ \A e \in Deposit \ {d} : creditedTo'[e] = creditedTo[e]
  BY <1>1, <1>3 DEF TypeOK
<1>7. CreditFollowsAddress'
  <2> SUFFICES ASSUME NEW e \in Deposit, Issued(e)', e \notin misled
               PROVE  /\ creditedTo'[e] \in Account
                      /\ owner[deposit[e].address] \in ledger'
                      /\ account[owner[deposit[e].address]] = heir[creditedTo'[e]]
    BY <1>1 DEF CreditFollowsAddress
  <2>1. CASE e = d
    <3>1. owner[deposit[d].address] = u
      BY <1>1, <2>1 DEF HookKnows
    <3> QED
      BY <1>1, <1>2, <1>6, <2>1, <3>1
  <2>2. CASE e # d
    <3>1. Issued(e)
      BY <1>1, <1>4, <2>2 DEF Issued, Running
    <3> QED
      BY <1>1, <1>6, <2>2, <3>1 DEF CreditFollowsAddress
  <2> QED
    BY <2>1, <2>2
<1>8. HookKnows'
  BY <1>1, <1>4 DEF HookKnows
<1>9. ledger' \subseteq Rows /\ \A v \in UserId : balance'[v] > 0 => v \in ledger'
  BY <1>1, <1>2 DEF TypeOK, People, RowIsAccount
<1> QED
  BY <1>1, <1>5, <1>7, <1>8, <1>9, BooksKeep

\* A hook that fails has credited nobody.
LEMMA HookFailsSafe ==
  ASSUME SafeInv, HookFails
  PROVE  SafeInv'
<1> USE DEF SafeInv
<1>1. /\ hook # NoHook /\ hook.next = "insert" /\ hook' = NoHook
      /\ misled' = misled \ {hook.deposit}
      /\ UNCHANGED <<subject, account, created, heir, balance, ledger>>
      /\ UNCHANGED <<owner, cookie, creating, page, replies>>
      /\ UNCHANGED <<deposit, creditedTo, plays, strayed>>
      /\ UNCHANGED <<people, owner, sessions, browsing>>
  BY DEF HookFails, Running, people, books, sessions, browsing
<1>2. TypeOK'
  BY <1>1 DEF TypeOK
<1>3. \A e \in Deposit : Issued(e)' => Issued(e) /\ e # hook.deposit
  BY <1>1 DEF Issued, Running, HookKnows
<1>4. CreditFollowsAddress'
  BY <1>1, <1>3 DEF CreditFollowsAddress
<1>5. HookKnows'
  BY <1>1 DEF HookKnows
<1> QED
  BY <1>1, <1>2, <1>4, <1>5, BooksKeep DEF People, RowIsAccount

\* The mark tells of a credit that is in the ledger.
LEMMA MarkCreditedSafe ==
  ASSUME SafeInv, MarkCredited
  PROVE  SafeInv'
<1> USE DEF SafeInv
<1> DEFINE d == hook.deposit
<1>1. /\ hook # NoHook /\ hook.next = "mark" /\ hook' = NoHook
      /\ deposit' = [deposit EXCEPT ![d].state = "credited"]
      /\ UNCHANGED <<subject, account, created, heir, balance, ledger>>
      /\ UNCHANGED <<owner, cookie, creating, page, replies>>
      /\ UNCHANGED <<creditedTo, plays, strayed, misled>>
      /\ UNCHANGED <<people, owner, sessions, browsing>>
  BY DEF MarkCredited, Running, people, books, sessions, browsing, history
<1>2. d \in Deposit /\ deposit[d].state = "confirmed"
  BY <1>1 DEF TypeOK, Hook, HookKnows
<1>3. /\ deposit'[d] = [deposit[d] EXCEPT !.state = "credited"]
      /\ deposit'[d].address = deposit[d].address
      /\ \A e \in Deposit \ {d} : deposit'[e] = deposit[e]
  BY <1>1, <1>2 DEF TypeOK
<1>4. TypeOK'
  <2>1. deposit' \in [Deposit -> [address : Address \cup {0}, state : States]]
    BY <1>1 DEF TypeOK, States
  <2> QED
    BY <1>1, <2>1 DEF TypeOK
<1>5. \A e \in Deposit : Issued(e)' => Issued(e)
  BY <1>1, <1>3 DEF Issued, Running
<1>6. \A e \in Deposit : deposit'[e].state # "waiting" => deposit[e].state # "waiting"
  BY <1>2, <1>3
<1>7. CreditFollowsAddress'
  <2>1. \A e \in Deposit : deposit'[e].address = deposit[e].address
    BY <1>3
  <2>2. owner' = owner /\ ledger' = ledger /\ account' = account /\ heir' = heir
        /\ creditedTo' = creditedTo /\ misled' = misled
    BY <1>1
  <2> QED
    BY <1>5, <1>6, <2>1, <2>2 DEF CreditFollowsAddress
<1>8. HookKnows'
  BY <1>1 DEF HookKnows
<1>9. \A e \in Deposit : deposit[e].state = "credited" => deposit'[e] = deposit[e]
  BY <1>2, <1>3
<1> QED
  BY <1>1, <1>4, <1>7, <1>8, <1>9, BooksKeep DEF People, RowIsAccount

\* A redemption spends what the row in the cookie has.
LEMMA RedeemSafe ==
  ASSUME SafeInv, NEW b \in Browser, Redeem(b)
  PROVE  SafeInv'
<1> USE DEF SafeInv
<1> DEFINE u == cookie[b].uid
<1>1. cookie[b] \in Cookie
  BY DEF Redeem, SignedIn, TypeOK
<1>2. u \in UserId /\ cookie[b].account \in Account
  BY <1>1 DEF Cookie
<1>3. /\ balance[u] > 0
      /\ balance' = [balance EXCEPT ![u] = @ - 1]
      /\ Played(cookie[b].account)
      /\ strayed' \subseteq strayed \cup {account[u], cookie[b].account}
      /\ UNCHANGED <<people, owner, sessions, browsing>>
      /\ UNCHANGED <<subject, account, created, heir>>
      /\ UNCHANGED <<owner, cookie, creating, page, replies>>
      /\ UNCHANGED <<ledger, deposit, hook, creditedTo, misled>>
  BY DEF Redeem, people, sessions, browsing, payments
<1>4. account[u] \in Account
  BY <1>2, <1>3, RowFacts DEF People, RowIsAccount
<1>5. TypeOK'
  <2>1. balance' \in [UserId -> Nat]
    BY <1>2, <1>3 DEF TypeOK
  <2>2. plays' \subseteq Account \X (1..MaxPlays)
    BY <1>2, <1>3 DEF Played, TypeOK
  <2>3. strayed' \subseteq Account
    BY <1>2, <1>3, <1>4 DEF TypeOK
  <2> QED
    BY <1>3, <2>1, <2>2, <2>3 DEF TypeOK
<1>6. \A v \in UserId : balance'[v] > 0 => v \in ledger
  BY <1>2, <1>3 DEF TypeOK, People, RowIsAccount
<1>7. Rows' = Rows
  BY <1>3 DEF Rows
<1>8. CreditFollowsAddress' /\ HookKnows'
  BY <1>3, <1>7 DEF CreditFollowsAddress, Issued, Running, HookKnows
<1> QED
  BY <1>3, <1>5, <1>6, <1>8, BooksKeep DEF People, RowIsAccount

-----------------------------------------------------------------------------
(* Merges.                                                                 *)

\* An account that had an heir gets the heir's heir, and no heir becomes the
\* account it came from again.
LEMMA MergeSafe ==
  ASSUME SafeInv, NEW from \in UserId, NEW to \in UserId, Merge(from, to)
  PROVE  SafeInv'
<1> USE DEF SafeInv
<1>1. /\ from # to /\ (from \in ledger => to \in Rows)
      /\ subject' = [subject EXCEPT ![from] = NoOne]
      /\ account' = [account EXCEPT ![from] = 0]
      /\ heir' = [k \in Account |->
           IF from \in Rows /\ heir[k] = account[from] THEN account[to] ELSE heir[k]]
      /\ balance' = [balance EXCEPT ![to] = @ + balance[from], ![from] = 0]
      /\ ledger' = IF from \in ledger THEN (ledger \ {from}) \cup {to} ELSE ledger
      /\ owner' = [a \in Address |-> IF owner[a] = from THEN to ELSE owner[a]]
      /\ UNCHANGED <<created, cookie, creating, page, replies>>
      /\ UNCHANGED <<deposit, hook, creditedTo, plays, strayed, misled>>
  BY DEF Merge, sessions, browsing, payments, history
<1>2. account[to] \in Account \cup {0} /\ (to \in Rows => heir[account[to]] = account[to])
  BY RowFacts DEF TypeOK
<1>3. Rows' = Rows \ {from}
  BY <1>1 DEF Rows, TypeOK
<1>4. \A v \in UserId \ {from} : account'[v] = account[v] /\ subject'[v] = subject[v]
  BY <1>1 DEF TypeOK
<1>5. account'[from] = 0 /\ subject'[from] = NoOne
  BY <1>1 DEF TypeOK
<1>6. TypeOK'
  <2>1. heir' \in [Account -> Account \cup {0}] /\ ledger' \subseteq UserId
    BY <1>1, <1>2 DEF TypeOK
  <2>2. balance' \in [UserId -> Nat]
    BY <1>1 DEF TypeOK
  <2>3. owner' \in [Address -> UserId \cup {0}]
    BY <1>1 DEF TypeOK
  <2> QED
    BY <1>1, <2>1, <2>2, <2>3 DEF TypeOK
<1>7. RowIsAccount'
  <2>1. \A v \in UserId : subject'[v] # NoOne <=> account'[v] # 0
    BY <1>4, <1>5 DEF People, RowIsAccount
  <2>2. \A v \in UserId : account'[v] <= created'
    BY <1>1, <1>4, <1>5 DEF People, RowIsAccount, TypeOK
  <2>3. \A v, w \in Rows' : account'[v] = account'[w] => v = w
    BY <1>3, <1>4 DEF People, RowIsAccount, Rows
  <2>4. ledger' \subseteq Rows'
    BY <1>1, <1>3 DEF People, RowIsAccount
  <2>5. \A v \in UserId : balance'[v] > 0 => v \in ledger'
    BY <1>1 DEF People, RowIsAccount, TypeOK
  <2> QED
    BY <2>1, <2>2, <2>3, <2>4, <2>5 DEF RowIsAccount
<1>8. \A v \in Rows' : v \in Rows /\ v \in UserId \ {from} /\ account'[v] = account[v]
                       /\ heir'[account[v]] = account[v]
  <2> SUFFICES ASSUME NEW v \in Rows'
               PROVE  v \in Rows /\ v \in UserId \ {from} /\ account'[v] = account[v]
                      /\ heir'[account[v]] = account[v]
    OBVIOUS
  <2>1. v \in Rows /\ v # from /\ v \in UserId /\ account'[v] = account[v]
    BY <1>3, <1>4 DEF Rows
  <2>2. account[v] \in Account /\ heir[account[v]] = account[v]
    BY <2>1, RowFacts
  <2>3. from \in Rows => account[v] # account[from]
    BY <2>1 DEF People, RowIsAccount
  <2> QED
    BY <1>1, <2>1, <2>2, <2>3
<1>9. HeirsKnown'
  <2>1. \A k \in Account : k > created' => heir'[k] = k
    <3> SUFFICES ASSUME NEW k \in Account, k > created
                 PROVE  heir'[k] = k
      BY <1>1
    <3>1. heir[k] = k
      BY DEF People, HeirsKnown
    <3>2. account[from] <= created
      BY DEF People, RowIsAccount
    <3>3. account[from] # k
      BY <3>2 DEF Account, TypeOK
    <3> QED
      BY <1>1, <3>1, <3>3
  <2>2. \A k \in Account : k <= created' => heir'[k] <= created'
    <3>1. account[to] <= created
      BY DEF People, RowIsAccount
    <3> QED
      BY <1>1, <3>1 DEF People, HeirsKnown
  <2> QED
    BY <1>8, <2>1, <2>2 DEF HeirsKnown
<1>10. OneAccountEach'
  BY <1>4, <1>8 DEF People, OneAccountEach
<1>11. NoneFromTheFuture'
  BY <1>1 DEF NoneFromTheFuture
<1>12. SessionIsOwn'
  <2> SUFFICES ASSUME NEW b \in Browser, cookie[b] # NoCookie,
                      account'[cookie[b].uid] # cookie[b].account
               PROVE  heir'[cookie[b].account] # cookie[b].account
    BY <1>1 DEF SessionIsOwn, Own
  <2> DEFINE u == cookie[b].uid
             k == cookie[b].account
  <2>1. u \in UserId /\ k \in Account /\ k # 0
    BY DEF TypeOK, Cookie, Account
  <2> HIDE DEF u, k
  <2>2. CASE account[u] = k
    <3>1. u = from /\ u \in Rows
      BY <1>4, <2>1, <2>2 DEF People, RowIsAccount, Rows, u, k
    <3>2. heir[k] = k /\ account[to] # k
      BY <1>1, <2>1, <2>2, <3>1, RowFacts DEF People, RowIsAccount, Rows
    <3> QED
      BY <1>1, <2>1, <2>2, <3>1, <3>2 DEF k
  <2>3. CASE account[u] # k
    <3>1. heir[k] # k
      BY <2>3 DEF SessionIsOwn, Own, u, k
    <3>2. account[to] # k
      BY <1>2, <2>1, <3>1 DEF People, RowIsAccount, Rows
    <3> QED
      BY <1>1, <2>1, <3>1, <3>2 DEF k
  <2> QED
    BY <2>2, <2>3
\* An address goes with its owner, and so does what was paid to it, unless the
\* owner goes nowhere.
<1>13. ASSUME NEW a \in Address, NEW k \in Account,
              owner[a] \in Rows, account[owner[a]] = heir[k],
              owner[a] = from => to \in Rows
       PROVE  owner'[a] \in Rows' /\ account'[owner'[a]] = heir'[k]
  <2>1. CASE owner[a] = from
    <3>1. owner'[a] = to
      BY <1>1, <2>1
    <3>2. to \in Rows' /\ account'[to] = account[to]
      BY <1>1, <1>3, <1>8, <1>13, <2>1
    <3> QED
      BY <1>1, <1>13, <2>1, <3>1, <3>2
  <2>2. CASE owner[a] # from
    <3>1. owner'[a] = owner[a] /\ owner[a] \in Rows'
      BY <1>1, <1>3, <1>13, <2>2
    <3>2. from \in Rows => account[from] # account[owner[a]]
      BY <1>13, <2>2 DEF People, RowIsAccount
    <3> QED
      BY <1>1, <1>8, <1>13, <3>1, <3>2
  <2> QED
    BY <2>1, <2>2
<1>14. AddressIsOwn'
  <2> SUFFICES ASSUME page # NoPage, page.account # 0, heir'[page.account] # 0
               PROVE  /\ owner'[page.address] \in Rows'
                      /\ account'[owner'[page.address]] = heir'[page.account]
    BY <1>1 DEF AddressIsOwn, Followed
  <2>1. page.address \in Address /\ page.account \in Account
    BY DEF TypeOK, Page
  <2>2. account[from] # 0 \/ from \notin Rows
    BY DEF People, RowIsAccount, Rows
  <2>3. heir[page.account] # 0
    BY <1>1, <2>1, <2>2
  <2>4. owner[page.address] \in Rows /\ account[owner[page.address]] = heir[page.account]
    BY <2>3 DEF AddressIsOwn, Followed
  <2>5. owner[page.address] = from => account[to] # 0
    BY <1>1, <2>1, <2>4
  <2>6. owner[page.address] = from => to \in Rows
    BY <2>5 DEF People, RowIsAccount, Rows
  <2> QED
    BY <1>13, <2>1, <2>4, <2>6
<1>15. CreditFollowsAddress' /\ HookKnows'
  <2>1. \A a \in Address : owner[a] # 0 => owner'[a] # 0
    BY <1>1, StorefrontAssumption
  <2>2. ASSUME NEW d \in Deposit, Issued(d), d \notin misled
        PROVE  /\ creditedTo[d] \in Account
               /\ owner'[deposit[d].address] \in ledger'
               /\ account'[owner'[deposit[d].address]] = heir'[creditedTo[d]]
    <3>1. deposit[d].address \in Address
      BY <2>2 DEF CreditFollowsAddress, Issued, Running, HookKnows
    <3>2. /\ creditedTo[d] \in Account
          /\ owner[deposit[d].address] \in ledger
          /\ account[owner[deposit[d].address]] = heir[creditedTo[d]]
      BY <2>2 DEF CreditFollowsAddress
    <3>3. owner'[deposit[d].address] \in ledger'
      BY <1>1, <3>1, <3>2
    <3>4. owner[deposit[d].address] \in Rows
      BY <3>2 DEF People, RowIsAccount
    <3> QED
      BY <1>1, <1>13, <3>1, <3>2, <3>3, <3>4
  <2>3. \A d \in Deposit : Issued(d)' = Issued(d)
    BY <1>1 DEF Issued, Running
  <2>4. CreditFollowsAddress'
    BY <1>1, <2>1, <2>2, <2>3 DEF CreditFollowsAddress
  <2>5. hook # NoHook => deposit[hook.deposit].address \in Address
    BY DEF HookKnows, CreditFollowsAddress, TypeOK, Hook
  <2>6. HookKnows'
    BY <1>1, <1>3, <2>5 DEF HookKnows
  <2> QED
    BY <2>4, <2>6
<1>16. ShownIsCredited'
  BY <1>1 DEF ShownIsCredited, Paid
<1> QED
  BY <1>6, <1>7, <1>9, <1>10, <1>11, <1>12, <1>14, <1>15, <1>16 DEF People

-----------------------------------------------------------------------------
(* The theorems.                                                           *)

\* Nothing happens.
LEMMA StutterSafe == SafeInv /\ UNCHANGED vars => SafeInv'
<1> SUFFICES ASSUME SafeInv, UNCHANGED vars PROVE SafeInv'
  OBVIOUS
<1>1. UNCHANGED <<people, books, owner, browsing, payments, history>>
  BY DEF vars
<1>2. UNCHANGED <<cookie, creating>>
  BY DEF vars, sessions
<1> QED
  BY <1>1, <1>2, SessionKeeps DEF SafeInv, TypeOK

\* Every step keeps the invariant.
LEMMA Inductive == SafeInv /\ [Next]_vars => SafeInv'
<1> SUFFICES ASSUME SafeInv, [Next]_vars PROVE SafeInv'
  OBVIOUS
<1>1. CASE PageStep
  BY <1>1, PageStepSafe
<1>2. ASSUME NEW b \in Browser, NEW i \in Identity, SignIn(b, i)
      PROVE  SafeInv'
  BY <1>2, SignInSafe
<1>3. ASSUME NEW b \in Browser, Create(b) \/ Logout(b) \/ StartPurchase(b) \/ Redeem(b)
      PROVE  SafeInv'
  BY <1>3, CreateSafe, LogoutSafe, StartPurchaseSafe, RedeemSafe
<1>4. ASSUME NEW a \in Address, Pay(a)
      PROVE  SafeInv'
  BY <1>4, PaySafe
<1>5. ASSUME NEW d \in Deposit, Advance(d) \/ ReadUser(d)
      PROVE  SafeInv'
  BY <1>5, AdvanceSafe, ReadUserSafe
<1>6. ASSUME NEW from \in UserId, NEW to \in UserId, Merge(from, to)
      PROVE  SafeInv'
  BY <1>6, MergeSafe
<1>7. CASE CreditPurchase \/ HookFails \/ MarkCredited
  BY <1>7, CreditPurchaseSafe, HookFailsSafe, MarkCreditedSafe
<1> QED
  BY <1>1, <1>2, <1>3, <1>4, <1>5, <1>6, <1>7, StutterSafe DEF Next, PageStep

\* The invariant holds in every reachable state, whatever sign-ins, merges,
\* payments and pages come in whatever order.
THEOREM Invariant == Spec => []SafeInv
  BY InitSafe, Inductive, PTL DEF Spec

\* Every state is well typed: no balance goes below zero, and what names a row,
\* an account or an address names one there can be.
THEOREM TypeCorrect == Spec => []TypeOK
<1>1. SafeInv => TypeOK
  BY DEF SafeInv
<1> QED
  BY <1>1, Invariant, PTL

\* Sign-ins that race never give a subject two accounts.
THEOREM OneAccount == Spec => []OneAccountEach
<1>1. SafeInv => OneAccountEach
  BY DEF SafeInv, People
<1> QED
  BY <1>1, Invariant, PTL

\* A session is its own account's until that is merged away.
THEOREM SessionsKeepApart == Spec => []SessionIsOwn
<1>1. SafeInv => SessionIsOwn
  BY DEF SafeInv
<1> QED
  BY <1>1, Invariant, PTL

\* The address on a page stays its account's, or its heir's, until the account is
\* merged into an id without a row.
THEOREM AddressesFollow == Spec => []AddressIsOwn
<1>1. SafeInv => AddressIsOwn
  BY DEF SafeInv
<1> QED
  BY <1>1, Invariant, PTL

\* A page says that tokens were added only when they were, and every payment its
\* address was credited for is its account's, unless the hook was misled.
THEOREM ShownIsTrue == Spec => []ShownCreditIsOwn
<1>1. ASSUME SafeInv
      PROVE  ShownCreditIsOwn
  <2> SUFFICES ASSUME Followed, page.shows = "credited"
               PROVE  /\ \E d \in Paid(page.address) : deposit[d].state = "credited"
                      /\ \A d \in Paid(page.address) :
                           deposit[d].state = "credited" /\ d \notin misled =>
                             heir[creditedTo[d]] = heir[page.account]
    BY DEF ShownCreditIsOwn
  <2>1. \E d \in Paid(page.address) : deposit[d].state = "credited"
    BY <1>1 DEF SafeInv, ShownIsCredited, Followed
  <2>2. account[owner[page.address]] = heir[page.account]
    BY <1>1 DEF SafeInv, AddressIsOwn
  <2>3. ASSUME NEW d \in Paid(page.address), deposit[d].state = "credited", d \notin misled
        PROVE  heir[creditedTo[d]] = heir[page.account]
    <3>1. d \in Deposit /\ deposit[d].address = page.address
      BY DEF Paid
    <3>2. account[owner[page.address]] = heir[creditedTo[d]]
      BY <1>1, <2>3, <3>1 DEF SafeInv, CreditFollowsAddress, Issued
    <3> QED
      BY <2>2, <3>2
  <2> QED
    BY <2>1, <2>3
<1> QED
  BY <1>1, Invariant, PTL

-----------------------------------------------------------------------------
(* The books of the accounts.                                              *)

\* Credits and redemptions are of accounts that exist or existed, and a deposit
\* without its credit is nobody's.
BooksKnown ==
  /\ \A d \in Deposit : /\ creditedTo[d] <= created
                        /\ creditedTo[d] # 0 => Issued(d)
  /\ \A play \in plays : play[1] <= created

BooksInv == BooksKnown /\ BalanceIsOwn

\* Accounts have finitely many payments and redemptions.
LEMMA BooksFinite ==
  ASSUME TypeOK, NEW A
  PROVE  /\ IsFiniteSet(Paying(A)) /\ Cardinality(Paying(A)) \in Nat
         /\ IsFiniteSet(Playing(A)) /\ Cardinality(Playing(A)) \in Nat
<1>1. Paying(A) \subseteq Deposit
  BY DEF Paying
<1>2. Playing(A) \subseteq Account \X (1..MaxPlays)
  BY DEF Playing, TypeOK
<1>3. IsFiniteSet(Account) /\ IsFiniteSet(1..MaxPlays)
  BY FS_Interval, StorefrontAssumption DEF Account
<1>4. IsFiniteSet(Account \X (1..MaxPlays))
  BY <1>3, FS_Product
<1>5. IsFiniteSet(Paying(A)) /\ IsFiniteSet(Playing(A))
  BY <1>1, <1>2, <1>4, FS_Subset, StorefrontAssumption
<1> QED BY <1>5, FS_CardinalityType

\* The books of two groups of accounts are the books of each.
LEMMA BooksOfBoth ==
  ASSUME TypeOK, NEW A, NEW B, A \cap B = {}
  PROVE  /\ Cardinality(Paying(A \cup B)) = Cardinality(Paying(A)) + Cardinality(Paying(B))
         /\ Cardinality(Playing(A \cup B)) = Cardinality(Playing(A)) + Cardinality(Playing(B))
<1>1. Paying(A \cup B) = Paying(A) \cup Paying(B) /\ Paying(A) \cap Paying(B) = {}
  BY DEF Paying
<1>2. Playing(A \cup B) = Playing(A) \cup Playing(B) /\ Playing(A) \cap Playing(B) = {}
  BY DEF Playing
<1>3. ASSUME NEW S, IsFiniteSet(S), NEW T, IsFiniteSet(T), S \cap T = {}
      PROVE  Cardinality(S \cup T) = Cardinality(S) + Cardinality(T)
  BY <1>3, FS_Union, FS_EmptySet, FS_CardinalityType
<1>4. Cardinality(Paying(A) \cup Paying(B)) = Cardinality(Paying(A)) + Cardinality(Paying(B))
  BY <1>1, <1>3, BooksFinite
<1>5. Cardinality(Playing(A) \cup Playing(B)) = Cardinality(Playing(A)) + Cardinality(Playing(B))
  BY <1>2, <1>3, BooksFinite
<1> QED BY <1>1, <1>2, <1>4, <1>5

\* What leaves the books alone keeps them.
LEMMA BooksRest ==
  ASSUME SafeInv, BooksInv,
         UNCHANGED <<people, balance, creditedTo, plays, strayed>>,
         \A d \in Deposit : Issued(d) => Issued(d)'
  PROVE  BooksInv'
<1>1. UNCHANGED <<subject, account, created, heir>>
  BY DEF people
<1>2. Rows' = Rows /\ \A u : Merged(u)' = Merged(u)
  BY <1>1 DEF Rows, Merged
<1>3. \A A : Paying(A)' = Paying(A) /\ Playing(A)' = Playing(A)
  BY DEF Paying, Playing
<1>4. BooksKnown'
  BY <1>1 DEF BooksInv, BooksKnown
<1>5. BalanceIsOwn'
  BY <1>2, <1>3 DEF BooksInv, BalanceIsOwn
<1> QED BY <1>4, <1>5 DEF BooksInv

\* A new account has no tokens, and nobody paid or played for it.
LEMMA NewRowKeepsBooks ==
  ASSUME SafeInv, BooksInv, NEW b \in Browser, NEW u \in UserId,
         creating[b] # NoOne, NewRow(b, u),
         UNCHANGED <<books, payments, plays, strayed>>
  PROVE  BooksInv'
<1>1. /\ u \notin Rows /\ created + 1 \in Account /\ created \in Nat
      /\ created' = created + 1
      /\ account' = [account EXCEPT ![u] = created + 1]
      /\ Rows' = Rows \cup {u}
      /\ UNCHANGED <<heir, balance, deposit, hook, creditedTo, plays, strayed>>
  BY NewRowFacts DEF payments, books
<1>2. \A A : Paying(A)' = Paying(A) /\ Playing(A)' = Playing(A)
  BY <1>1 DEF Paying, Playing
<1>3. BooksKnown'
  <2>1. \A d \in Deposit : creditedTo[d] \in Int
    BY StorefrontAssumption DEF SafeInv, TypeOK, Account
  <2>2. \A play \in plays : play[1] \in Int
    BY StorefrontAssumption DEF SafeInv, TypeOK, Account
  <2> QED BY <1>1, <2>1, <2>2 DEF BooksInv, BooksKnown, Issued, Running
<1>4. ASSUME NEW v \in Rows, Merged(v)' \cap strayed' = {}
      PROVE  balance'[v] = (Cardinality(Paying(Merged(v))) - Cardinality(Playing(Merged(v))))'
  <2>1. v # u /\ account'[v] = account[v]
    BY <1>1 DEF SafeInv, TypeOK, Rows
  <2>2. Merged(v)' = Merged(v)
    BY <1>1, <2>1 DEF Merged
  <2> QED BY <1>1, <1>2, <1>4, <2>2 DEF BooksInv, BalanceIsOwn
<1>5. balance'[u] = (Cardinality(Paying(Merged(u))) - Cardinality(Playing(Merged(u))))'
  <2>1. account'[u] = created + 1
    BY <1>1 DEF SafeInv, TypeOK
  <2>2. ASSUME NEW k \in Account, heir[k] = created + 1
        PROVE  k = created + 1
    BY <1>1, <2>2 DEF SafeInv, People, HeirsKnown, Account
  <2>3. Merged(u)' \subseteq {created + 1}
    BY <1>1, <2>1, <2>2 DEF Merged
  <2>4. Paying(Merged(u)') = {} /\ Playing(Merged(u)') = {}
    BY <1>1, <2>3 DEF Paying, Playing, BooksInv, BooksKnown
  <2>5. balance[u] = 0
    BY <1>1 DEF SafeInv, People, RowIsAccount, TypeOK
  <2>6. Cardinality(Paying(Merged(u)')) = 0 /\ Cardinality(Playing(Merged(u)')) = 0
    BY <2>4, FS_EmptySet
  <2>7. Paying(Merged(u))' = Paying(Merged(u)') /\ Playing(Merged(u))' = Playing(Merged(u)')
    BY <1>2
  <2> QED BY <1>1, <2>5, <2>6, <2>7
<1>6. BalanceIsOwn'
  BY <1>1, <1>4, <1>5 DEF BalanceIsOwn
<1> QED BY <1>3, <1>6 DEF BooksInv

\* A credit is paid to the account that gets it.
LEMMA CreditKeepsBooks ==
  ASSUME SafeInv, BooksInv, CreditPurchase
  PROVE  BooksInv'
<1>0. PICK d, u : d = hook.deposit /\ u = hook.user
  OBVIOUS
<1>1. /\ hook # NoHook /\ hook.next = "insert" /\ hook.deposit = d
      /\ u \in Rows
      /\ balance' = [balance EXCEPT ![u] = @ + 1]
      /\ creditedTo' = [creditedTo EXCEPT ![d] = account[u]]
      /\ hook' = [hook EXCEPT !.next = "mark"]
      /\ UNCHANGED <<subject, account, created, heir>>
      /\ UNCHANGED <<deposit, plays, strayed>>
  BY <1>0 DEF CreditPurchase, Running, people, history
<1>2. /\ u \in UserId /\ account[u] \in Account /\ account[u] <= created
      /\ heir[account[u]] = account[u]
  BY <1>1, RowFacts DEF SafeInv, People, RowIsAccount
<1>3. d \in Deposit /\ creditedTo[d] = 0 /\ creditedTo'[d] = account[u]
  <2>1. hook \in Hook /\ d \in Deposit /\ deposit[d].state = "confirmed"
    BY <1>1 DEF SafeInv, TypeOK, Hook, HookKnows
  <2>2. ~ Issued(d)
    BY <1>1, <2>1 DEF Issued, Running
  <2> QED BY <1>1, <2>1, <2>2 DEF BooksInv, BooksKnown, SafeInv, TypeOK
<1>4. \A e \in Deposit \ {d} : creditedTo'[e] = creditedTo[e]
  BY <1>1 DEF SafeInv, TypeOK
<1>5. Issued(d)' /\ \A e \in Deposit : Issued(e) => Issued(e)'
  <2>1. hook' \in Hook /\ hook'.deposit = d /\ hook'.next = "mark"
    BY <1>1 DEF SafeInv, TypeOK, Hook
  <2> QED BY <1>1, <2>1, NothingAssumption DEF Issued, Running
<1>6. BooksKnown'
  BY <1>1, <1>2, <1>3, <1>4, <1>5 DEF BooksInv, BooksKnown
<1>7. Rows' = Rows /\ (\A v : Merged(v)' = Merged(v)) /\ \A A : Playing(A)' = Playing(A)
  BY <1>1 DEF Rows, Merged, Playing
<1>8. account[u] \in Merged(u) /\ 0 \notin Merged(u)
  BY <1>2, StorefrontAssumption DEF Merged, Account
<1>9. d \notin Paying(Merged(u)) /\ Paying(Merged(u))' = Paying(Merged(u)) \cup {d}
  BY <1>3, <1>4, <1>7, <1>8 DEF Paying
<1>10. ASSUME NEW v \in Rows, v # u
       PROVE  Paying(Merged(v))' = Paying(Merged(v))
  <2>1. account[u] \notin Merged(v) /\ 0 \notin Merged(v)
    BY <1>1, <1>2, <1>10, StorefrontAssumption
       DEF Merged, Account, SafeInv, People, RowIsAccount
  <2> QED BY <1>3, <1>4, <1>7, <2>1 DEF Paying
<1>11. ASSUME NEW v \in Rows, Merged(v) \cap strayed = {}
       PROVE  balance'[v] = Cardinality(Paying(Merged(v))') - Cardinality(Playing(Merged(v))')
  <2>1. balance[v] = Cardinality(Paying(Merged(v))) - Cardinality(Playing(Merged(v)))
    BY <1>11 DEF BooksInv, BalanceIsOwn
  <2>2. Playing(Merged(v))' = Playing(Merged(v))
    BY <1>7
  <2>3. CASE v = u
    <3>1. balance'[u] = balance[u] + 1
      BY <1>1, <1>2 DEF SafeInv, TypeOK
    <3>2. Cardinality(Paying(Merged(u)) \cup {d}) = Cardinality(Paying(Merged(u))) + 1
      BY <1>9, BooksFinite, FS_AddElement DEF SafeInv
    <3>3. Cardinality(Paying(Merged(u))) \in Nat /\ Cardinality(Playing(Merged(u))) \in Nat
      BY BooksFinite DEF SafeInv
    <3>4. Cardinality(Paying(Merged(u))') = Cardinality(Paying(Merged(u))) + 1
      BY <1>9, <3>2
    <3> HIDE DEF Paying, Playing, Merged
    <3> QED BY <2>1, <2>2, <2>3, <3>1, <3>3, <3>4
  <2>4. CASE v # u
    <3>1. balance'[v] = balance[v]
      BY <1>1, <2>4, RowFacts DEF SafeInv, TypeOK
    <3> QED BY <1>10, <2>1, <2>2, <2>4, <3>1
  <2> QED BY <2>3, <2>4
<1>12. BalanceIsOwn'
  <2> SUFFICES ASSUME NEW v \in Rows', (Merged(v) \cap strayed)' = {}
               PROVE  (balance[v] = Cardinality(Paying(Merged(v))) - Cardinality(Playing(Merged(v))))'
    BY DEF BalanceIsOwn
  <2>1. v \in Rows /\ Merged(v) \cap strayed = {}
    BY <1>1, <1>7
  <2> QED BY <1>11, <2>1
<1> QED BY <1>6, <1>12 DEF BooksInv

\* A redemption is counted for the account that paid it, unless the session had
\* outlived its account.
LEMMA RedeemKeepsBooks ==
  ASSUME SafeInv, BooksInv, NEW b \in Browser, Redeem(b)
  PROVE  BooksInv'
<1>0. PICK u, c : u = cookie[b].uid /\ c = cookie[b].account
  OBVIOUS
<1>1. u \in UserId /\ c \in Account /\ c <= created
  BY <1>0 DEF Redeem, SignedIn, SafeInv, TypeOK, Cookie, NoneFromTheFuture
<1>2. /\ balance[u] > 0
      /\ balance' = [balance EXCEPT ![u] = @ - 1]
      /\ Played(c)
      /\ strayed' = IF account[u] = c THEN strayed ELSE strayed \cup {account[u], c}
      /\ UNCHANGED <<subject, account, created, heir, deposit, hook, creditedTo>>
  BY <1>0 DEF Redeem, people, payments, Own
<1>3. PICK n \in 1..MaxPlays : <<c, n>> \notin plays /\ plays' = plays \cup {<<c, n>>}
  BY <1>2 DEF Played
<1>4. u \in Rows /\ account[u] \in Account /\ heir[account[u]] = account[u]
  BY <1>1, <1>2, RowFacts DEF SafeInv, People, RowIsAccount
<1>5. BooksKnown'
  BY <1>1, <1>2, <1>3 DEF BooksInv, BooksKnown, Issued, Running
<1>6. Rows' = Rows /\ (\A v : Merged(v)' = Merged(v)) /\ \A A : Paying(A)' = Paying(A)
  BY <1>2 DEF Rows, Merged, Paying
<1>7. \A A : c \notin A => Playing(A)' = Playing(A)
  BY <1>3 DEF Playing
<1>8. \A A : c \in A => <<c, n>> \notin Playing(A) /\ Playing(A)' = Playing(A) \cup {<<c, n>>}
  BY <1>3 DEF Playing
<1>9. ASSUME NEW v \in Rows, Merged(v) \cap strayed' = {}
      PROVE  balance'[v] = Cardinality(Paying(Merged(v))') - Cardinality(Playing(Merged(v))')
  <2>1. balance[v] = Cardinality(Paying(Merged(v))) - Cardinality(Playing(Merged(v)))
    BY <1>2, <1>9 DEF BooksInv, BalanceIsOwn
  <2>2. Paying(Merged(v))' = Paying(Merged(v)) /\ Merged(v)' = Merged(v)
    BY <1>6
  <2>3. CASE v = u
    <3>1. account[u] \in Merged(u)
      BY <1>4 DEF Merged
    <3>2. account[u] = c
      BY <1>2, <1>9, <2>3, <3>1
    <3>3. /\ <<c, n>> \notin Playing(Merged(u))
          /\ Playing(Merged(u))' = Playing(Merged(u)) \cup {<<c, n>>}
      BY <1>6, <1>8, <3>1, <3>2
    <3>4. balance'[u] = balance[u] - 1
      BY <1>1, <1>2 DEF SafeInv, TypeOK
    <3>5. Cardinality(Playing(Merged(u)) \cup {<<c, n>>}) = Cardinality(Playing(Merged(u))) + 1
      BY <3>3, BooksFinite, FS_AddElement DEF SafeInv
    <3>6. Cardinality(Paying(Merged(u))) \in Nat /\ Cardinality(Playing(Merged(u))) \in Nat
      BY BooksFinite DEF SafeInv
    <3> QED BY <2>1, <2>2, <2>3, <3>3, <3>4, <3>5, <3>6
  <2>4. CASE v # u
    <3>1. c \notin Merged(v)
      <4>1. CASE account[u] = c
        BY <1>4, <2>4, <4>1 DEF Merged, SafeInv, People, RowIsAccount
      <4>2. CASE account[u] # c
        BY <1>2, <1>9, <4>2
      <4> QED BY <4>1, <4>2
    <3>2. Playing(Merged(v))' = Playing(Merged(v))
      BY <1>6, <1>7, <3>1
    <3>3. balance'[v] = balance[v]
      BY <1>2, <2>4, RowFacts DEF SafeInv, TypeOK
    <3> QED BY <2>1, <2>2, <3>2, <3>3
  <2> QED BY <2>3, <2>4
<1>10. BalanceIsOwn'
  <2> SUFFICES ASSUME NEW v \in Rows', (Merged(v) \cap strayed)' = {}
               PROVE  (balance[v] = Cardinality(Paying(Merged(v))) - Cardinality(Playing(Merged(v))))'
    BY DEF BalanceIsOwn
  <2>1. v \in Rows /\ Merged(v) \cap strayed' = {}
    BY <1>2, <1>6
  <2> QED BY <1>9, <2>1
<1> QED BY <1>5, <1>10 DEF BooksInv

\* The account that is merged away takes its books along; an id without a row has
\* no tokens to move, and gets none.
LEMMA MergeKeepsBooks ==
  ASSUME SafeInv, BooksInv, NEW from \in UserId, NEW to \in UserId, Merge(from, to)
  PROVE  BooksInv'
<1>1. /\ from # to /\ (from \in ledger => to \in Rows)
      /\ account' = [account EXCEPT ![from] = 0]
      /\ heir' = [k \in Account |->
           IF from \in Rows /\ heir[k] = account[from] THEN account[to] ELSE heir[k]]
      /\ balance' = [balance EXCEPT ![to] = @ + balance[from], ![from] = 0]
      /\ UNCHANGED <<created, deposit, hook, creditedTo, plays, strayed>>
      /\ Rows' = Rows \ {from}
  BY DEF Merge, payments, history, Rows, SafeInv, TypeOK
<1>2. BooksKnown' /\ \A A : Paying(A)' = Paying(A) /\ Playing(A)' = Playing(A)
  BY <1>1 DEF BooksInv, BooksKnown, Issued, Running, Paying, Playing
<1>3. \A v \in Rows' : /\ v \in Rows /\ v # from
                       /\ account'[v] = account[v]
                       /\ account[v] \in Account
  BY <1>1, RowFacts DEF SafeInv, TypeOK, Rows
<1>4. \A v \in Rows : from \in Rows /\ v # from => account[v] # account[from]
  BY DEF SafeInv, People, RowIsAccount
<1>5. ASSUME NEW v \in Rows', v # to
      PROVE  Merged(v)' = Merged(v) /\ balance'[v] = balance[v]
  <2>1. account[v] # account[to]
    BY <1>3, <1>5 DEF SafeInv, People, RowIsAccount, Rows
  <2>2. Merged(v)' = Merged(v)
    BY <1>1, <1>3, <1>4, <2>1 DEF Merged
  <2>3. v \in UserId /\ v # from
    BY <1>3 DEF Rows
  <2>4. balance'[v] = balance[v]
    BY <1>1, <1>5, <2>3 DEF SafeInv, TypeOK
  <2> QED BY <2>2, <2>4
<1>6. balance'[to] = balance[to] + balance[from]
  BY <1>1 DEF SafeInv, TypeOK
<1>7. CASE from \in Rows /\ to \in Rows
  <2>1. Merged(to)' = Merged(to) \cup Merged(from) /\ Merged(to) \cap Merged(from) = {}
    BY <1>1, <1>3, <1>4, <1>7 DEF Merged
  <2>2. ASSUME (Merged(to) \cup Merged(from)) \cap strayed = {}
        PROVE  balance'[to] = Cardinality(Paying(Merged(to) \cup Merged(from)))
                                - Cardinality(Playing(Merged(to) \cup Merged(from)))
    <3>1. /\ balance[to] = Cardinality(Paying(Merged(to))) - Cardinality(Playing(Merged(to)))
          /\ balance[from] = Cardinality(Paying(Merged(from))) - Cardinality(Playing(Merged(from)))
      BY <1>1, <1>7, <2>2 DEF BooksInv, BalanceIsOwn
    <3>2. /\ Cardinality(Paying(Merged(to))) \in Nat /\ Cardinality(Playing(Merged(to))) \in Nat
          /\ Cardinality(Paying(Merged(from))) \in Nat
          /\ Cardinality(Playing(Merged(from))) \in Nat
      BY BooksFinite DEF SafeInv
    <3>3. /\ Cardinality(Paying(Merged(to) \cup Merged(from)))
               = Cardinality(Paying(Merged(to))) + Cardinality(Paying(Merged(from)))
          /\ Cardinality(Playing(Merged(to) \cup Merged(from)))
               = Cardinality(Playing(Merged(to))) + Cardinality(Playing(Merged(from)))
      BY <2>1, BooksOfBoth DEF SafeInv
    <3> QED BY <1>6, <3>1, <3>2, <3>3
  <2>3. BalanceIsOwn'
    <3> SUFFICES ASSUME NEW v \in Rows', Merged(v)' \cap strayed = {}
                 PROVE  balance'[v] = Cardinality(Paying(Merged(v)')) - Cardinality(Playing(Merged(v)'))
      BY <1>1, <1>2 DEF BalanceIsOwn
    <3>1. CASE v = to
      BY <2>1, <2>2, <3>1
    <3>2. CASE v # to
      BY <1>3, <1>5, <3>2 DEF BooksInv, BalanceIsOwn
    <3> QED BY <3>1, <3>2
  <2> QED BY <1>2, <2>3 DEF BooksInv
<1>8. CASE from \notin Rows \/ to \notin Rows
  <2>1. balance[from] = 0
    BY <1>1, <1>8 DEF SafeInv, People, RowIsAccount, TypeOK
  <2>2. \A v \in Rows' : Merged(v)' = Merged(v) /\ balance'[v] = balance[v]
    <3>1. to \in Rows => Merged(to)' = Merged(to)
      BY <1>1, <1>3, <1>8 DEF Merged
    <3>2. balance'[to] = balance[to]
      BY <1>1, <1>6, <2>1 DEF SafeInv, TypeOK
    <3> QED BY <1>3, <1>5, <3>1, <3>2
  <2>3. BalanceIsOwn'
    <3> SUFFICES ASSUME NEW v \in Rows', Merged(v)' \cap strayed = {}
                 PROVE  balance'[v] = Cardinality(Paying(Merged(v)')) - Cardinality(Playing(Merged(v)'))
      BY <1>1, <1>2 DEF BalanceIsOwn
    <3> QED BY <1>3, <2>2 DEF BooksInv, BalanceIsOwn
  <2> QED BY <1>2, <2>3 DEF BooksInv
<1> QED BY <1>7, <1>8

\* Every step keeps the books.
LEMMA NextKeepsBooks == SafeInv /\ BooksInv /\ [Next]_vars => BooksInv'
<1> SUFFICES ASSUME SafeInv, BooksInv, [Next]_vars PROVE BooksInv'
  OBVIOUS
<1>1. CASE \/ PageStep \/ UNCHANGED vars
           \/ \E b \in Browser : \/ \E i \in Identity : SignIn(b, i)
                                 \/ Logout(b) \/ StartPurchase(b)
  <2>1. UNCHANGED <<people, balance, creditedTo, plays, strayed, deposit, hook>>
    BY <1>1 DEF PageStep, Leave, Connect, Tick, WriteTimeout, StreamEnds, Poll,
       Answered, SignIn, Logout, StartPurchase, vars, books, payments, history
  <2>2. \A e \in Deposit : Issued(e) => Issued(e)'
    BY <2>1 DEF Issued, Running
  <2> QED BY <2>1, <2>2, BooksRest
<1>2. ASSUME NEW b \in Browser, Create(b)
      PROVE  BooksInv'
  <2>1. CASE UNCHANGED people
    <3>1. UNCHANGED <<balance, deposit, hook, creditedTo, plays, strayed>>
      BY <1>2 DEF Create, books, payments
    <3>2. \A e \in Deposit : Issued(e) => Issued(e)'
      BY <3>1 DEF Issued, Running
    <3> QED BY <2>1, <3>1, <3>2, BooksRest
  <2>2. CASE \E u \in UserId : NewRow(b, u)
    BY <1>2, <2>2, NewRowKeepsBooks DEF Create
  <2> QED BY <1>2, <2>1, <2>2 DEF Create
<1>3. ASSUME \/ \E a \in Address : Pay(a)
             \/ \E d \in Deposit : Advance(d) \/ ReadUser(d)
             \/ HookFails \/ MarkCredited
      PROVE  BooksInv'
  <2>1. UNCHANGED <<people, balance, creditedTo, plays, strayed>>
    BY <1>3 DEF Pay, Advance, ReadUser, HookFails, MarkCredited, books, history
  <2>2. ASSUME NEW e \in Deposit, Issued(e)
        PROVE  Issued(e)'
    <3>1. CASE \/ \E a \in Address : Pay(a)
               \/ \E d \in Deposit : Advance(d) \/ ReadUser(d)
               \/ HookFails
      <4>1. deposit[e].state = "credited"
        BY <2>2, <3>1 DEF Issued, Running, Pay, Advance, ReadUser, HookFails
      <4>2. deposit'[e] = deposit[e]
        BY <3>1, <4>1 DEF Pay, Advance, ReadUser, HookFails, NoDeposit, SafeInv, TypeOK
      <4> QED BY <4>1, <4>2 DEF Issued
    <3>2. CASE MarkCredited
      BY <2>2, <3>2 DEF MarkCredited, Issued, Running, SafeInv, TypeOK
    <3> QED BY <1>3, <3>1, <3>2
  <2> QED BY <2>1, <2>2, BooksRest
<1>4. CASE CreditPurchase
  BY <1>4, CreditKeepsBooks
<1>5. ASSUME NEW b \in Browser, Redeem(b)
      PROVE  BooksInv'
  BY <1>5, RedeemKeepsBooks
<1>6. ASSUME NEW from \in UserId, NEW to \in UserId, Merge(from, to)
      PROVE  BooksInv'
  BY <1>6, MergeKeepsBooks
<1> QED BY <1>1, <1>2, <1>3, <1>4, <1>5, <1>6 DEF Next, PageStep

\* What a customer holds is what was paid to their accounts less what their own
\* sessions redeemed, for any number of customers, payments and merges, unless a
\* session that had outlived its account came between.
THEOREM BalancesAreOwn == Spec => []BalanceIsOwn
<1>1. Init => BooksInv
  <2> SUFFICES ASSUME Init PROVE BooksInv
    OBVIOUS
  <2>1. Rows = {}
    BY DEF Init, Rows
  <2> QED BY <2>1 DEF Init, BooksInv, BooksKnown, BalanceIsOwn
<1>2. SafeInv /\ BooksInv /\ [Next]_vars => BooksInv'
  BY NextKeepsBooks
<1>3. BooksInv => BalanceIsOwn
  BY DEF BooksInv
<1> QED BY <1>1, <1>2, <1>3, Invariant, PTL DEF Spec

-----------------------------------------------------------------------------
(* What is missing for a confirmed payment to have an account.             *)

\* A page with an address is opened only for a user who exists.
AccountChecked ==
  [][\A b \in Browser : StartPurchase(b) => cookie[b].uid \in Rows]_vars

\* Accounts are merged only into a user who exists.
TargetChecked ==
  [][\A from, to \in UserId : Merge(from, to) => to \in Rows]_vars

\* Owners are rows.
OwnersAreRows == \A a \in Address : owner[a] # 0 => owner[a] \in Rows

\* A step that leaves rows and owners alone.
LEMMA OwnersRest ==
  ASSUME OwnersAreRows, UNCHANGED <<subject, owner>>
  PROVE  OwnersAreRows'
BY DEF OwnersAreRows, Rows

\* Every step keeps it if the user of each page that is opened, and the target of
\* each merge, exists.
LEMMA NextKeepsOwners ==
  ASSUME SafeInv, OwnersAreRows, [Next]_vars,
         \A b \in Browser : StartPurchase(b) => cookie[b].uid \in Rows,
         \A from, to \in UserId : Merge(from, to) => to \in Rows
  PROVE  OwnersAreRows'
<1>1. CASE \/ PageStep \/ UNCHANGED vars
           \/ \E b \in Browser : \/ \E i \in Identity : SignIn(b, i)
                                 \/ Logout(b) \/ Redeem(b)
           \/ \E a \in Address : Pay(a)
           \/ \E d \in Deposit : Advance(d) \/ ReadUser(d)
           \/ CreditPurchase \/ HookFails \/ MarkCredited
  <2>1. UNCHANGED <<subject, owner>>
    BY <1>1 DEF PageStep, Leave, Connect, Tick, WriteTimeout, StreamEnds, Poll,
       Answered, SignIn, Logout, Redeem, Pay, Advance, ReadUser, CreditPurchase,
       HookFails, MarkCredited, vars, people
  <2> QED BY <2>1, OwnersRest
<1>2. ASSUME NEW b \in Browser, Create(b)
      PROVE  OwnersAreRows'
  <2>1. owner' = owner
    BY <1>2 DEF Create
  <2>2. CASE UNCHANGED people
    BY <2>1, <2>2, OwnersRest DEF people
  <2>3. CASE \E u \in UserId : NewRow(b, u)
    <3>1. PICK u \in UserId : NewRow(b, u)
      BY <2>3
    <3>2. Rows' = Rows \cup {u}
      BY <1>2, <3>1, NewRowFacts DEF Create
    <3> QED BY <2>1, <3>2 DEF OwnersAreRows
  <2> QED BY <1>2, <2>2, <2>3 DEF Create
<1>3. ASSUME NEW b \in Browser, StartPurchase(b)
      PROVE  OwnersAreRows'
  <2>1. subject' = subject
    BY <1>3 DEF StartPurchase, people
  <2>2. CASE UNCHANGED owner
    BY <2>1, <2>2, OwnersRest
  <2>3. CASE \E a \in Address : owner' = [owner EXCEPT ![a] = cookie[b].uid]
    BY <1>3, <2>1, <2>3 DEF OwnersAreRows, Rows, SafeInv, TypeOK
  <2> QED BY <1>3, <2>2, <2>3 DEF StartPurchase
<1>4. ASSUME NEW from \in UserId, NEW to \in UserId, Merge(from, to)
      PROVE  OwnersAreRows'
  <2>1. /\ from # to /\ to \in Rows
        /\ subject' = [subject EXCEPT ![from] = NoOne]
        /\ owner' = [a \in Address |-> IF owner[a] = from THEN to ELSE owner[a]]
    BY <1>4 DEF Merge
  <2>2. Rows' = Rows \ {from}
    BY <2>1 DEF Rows, SafeInv, TypeOK
  <2> QED BY <2>1, <2>2 DEF OwnersAreRows
<1> QED BY <1>1, <1>2, <1>3, <1>4 DEF Next, PageStep

\* A payment that has its confirmations has an account to be credited to, through
\* any merges and reused ids, if the handler of the page looks the session's user
\* up before it binds an address and the handler of a merge looks its target up.
\* (Without either look the claim of the design does not hold.)
THEOREM CheckedAccountsSuffice ==
  Spec /\ AccountChecked /\ TargetChecked =>
    [](\A d \in Deposit : deposit[d].state = "confirmed" =>
         owner[deposit[d].address] \in Rows)
<1>1. Init => OwnersAreRows
  BY DEF Init, OwnersAreRows
<1>2. SafeInv /\ OwnersAreRows /\ [Next]_vars
        /\ [\A b \in Browser : StartPurchase(b) => cookie[b].uid \in Rows]_vars
        /\ [\A from, to \in UserId : Merge(from, to) => to \in Rows]_vars
      => OwnersAreRows'
  <2> SUFFICES ASSUME SafeInv, OwnersAreRows, [Next]_vars,
                      [\A b \in Browser : StartPurchase(b) => cookie[b].uid \in Rows]_vars,
                      [\A from, to \in UserId : Merge(from, to) => to \in Rows]_vars
               PROVE  OwnersAreRows'
    OBVIOUS
  <2>1. CASE UNCHANGED vars
    BY <2>1, OwnersRest DEF vars, people
  <2>2. CASE ~ UNCHANGED vars
    BY <2>2, NextKeepsOwners
  <2> QED BY <2>1, <2>2
<1>3. SafeInv /\ OwnersAreRows =>
        \A d \in Deposit : deposit[d].state = "confirmed" =>
          owner[deposit[d].address] \in Rows
  BY DEF SafeInv, CreditFollowsAddress, OwnersAreRows
<1> QED BY <1>1, <1>2, <1>3, Invariant, PTL DEF Spec, AccountChecked, TargetChecked

=============================================================================
