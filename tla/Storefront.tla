----------------------------- MODULE Storefront -----------------------------
(***************************************************************************)
(* What a customer meets: sign-in and the session cookie (internal/auth),  *)
(* the account behind it (internal/services/users.go), the page that shows *)
(* an address to pay to and follows the payment, over a stream of events   *)
(* or by polling (internal/web: customer_routes.go, buy_status.go,         *)
(* static/buy.js), and redemptions; with an administrator who merges       *)
(* accounts, a server that restarts, and payments that come at any time.   *)
(*                                                                         *)
(* A session is a signed cookie that holds a user id.  No handler of a     *)
(* customer's page looks the id up in the users table, so a cookie works   *)
(* for thirty days whatever became of the row.                             *)
(*                                                                         *)
(* One page is watched; other browsers buy without being watched, as pages *)
(* do not touch each other.  A restart of the server ends streams and      *)
(* sign-ins and, if no session secret is configured, every session: each is*)
(* a step here anyway.                                                     *)
(*                                                                         *)
(* The credit hook is modelled by its statements: the id it reads from the *)
(* address may be merged away, and given to a newcomer, before the ledger  *)
(* row is inserted.                                                        *)
(*                                                                         *)
(* Left out: claims, and a stop between the hook's commit and the mark     *)
(* (Deposits), ledger rows other than purchases and redemptions, which tie *)
(* their user to a row like these (Relay), the OIDC provider, which is     *)
(* trusted to say who signs in, the cookies that tie its answer to the     *)
(* request, roles, the node's health, which can pause the page of an       *)
(* address at any time, and the retirement of addresses (AddressPool).     *)
(***************************************************************************)
EXTENDS Integers, FiniteSets

CONSTANTS
  Browser,
  Watched,           \* bound: browsers whose pages are watched, as none differs
  Identity,          \* OIDC issuer and subject
  UserId,            \* ids a row of users may have, 1..n
  Address,           \* ids of token_deposit rows of addresses, oldest first
  Deposit,           \* ids of deposits rows, in order
  NoOne, NoCookie, NoPage, NoHook,
  MaxAccounts,       \* bound: rows of users ever created
  MaxPlays           \* bound: redemptions

ASSUME StorefrontAssumption ==
  /\ UserId \subseteq Nat \ {0} /\ Address \subseteq Nat \ {0}
  /\ Deposit \subseteq Nat /\ IsFiniteSet(Deposit)   \* rowids have 64 bits
  /\ NoOne \notin Identity
  /\ MaxAccounts \in Nat /\ MaxPlays \in Nat

Account == 1..MaxAccounts
States == {"waiting", "seen", "confirmed", "credited", "orphaned"}
Texts == {"waiting", "seen", "credited"}

\* The cookie: the user id it holds and, as history, the account signed in.
Cookie == [uid : UserId, account : Account]

\* The page that shows an address: the account it was opened for (history, 0 if
\* the session's own account was gone), what it says, how it hears of changes,
\* and the last state its stream has reported.
Page == [viewer : Browser, address : Address, account : Account \cup {0},
         shows : Texts, feed : {"connect", "stream", "late", "poll"},
         last : States \cup {""}]

\* The credit hook of a deposit: the user it has read, and its next statement.
Hook == [deposit : Deposit, user : UserId, next : {"insert", "mark"}]

ASSUME NothingAssumption ==
  NoCookie \notin Cookie /\ NoPage \notin Page /\ NoHook \notin Hook

VARIABLES
  subject,     \* users.subject_hash, NoOne while there is no row
  account,     \* history: which account a row is, counting them as created
  created,     \* history: accounts created so far
  heir,        \* history: the account that holds what an account had, 0 if none
  balance,     \* SUM(delta) of a user's token_ledger rows
  ledger,      \* users with rows in token_ledger
  owner,       \* addresses.user_id of an assigned address, 0 in the pool
  cookie,      \* each browser's session cookie
  creating,    \* who is about to get a row, by each browser's callback
  page,        \* the page that is watched
  replies,     \* answers to its polls that are on their way
  deposit,     \* deposits: address and state
  hook,        \* the credit hook that is running
  creditedTo,  \* history: the account a deposit was credited to
  plays,       \* history: redemptions, numbered for the account signed in
  strayed,     \* history: accounts used by a session of another account
  misled       \* history: deposits whose last hook held an id that was reused

people   == <<subject, account, created, heir>>
sessions == <<cookie, creating>>
browsing == <<page, replies>>
books    == <<balance, ledger>>
payments == <<deposit, hook, creditedTo>>
history  == <<plays, strayed, misled>>
vars == <<people, books, owner, sessions, browsing, payments, history>>

NoDeposit == [address |-> 0, state |-> "waiting"]

TypeOK ==
  /\ subject \in [UserId -> Identity \cup {NoOne}]
  /\ account \in [UserId -> Account \cup {0}]
  /\ created \in 0..MaxAccounts
  /\ heir \in [Account -> Account \cup {0}]
  /\ balance \in [UserId -> Nat] /\ ledger \subseteq UserId
  /\ owner \in [Address -> UserId \cup {0}]
  /\ cookie \in [Browser -> Cookie \cup {NoCookie}]
  /\ creating \in [Browser -> Identity \cup {NoOne}]
  /\ page \in Page \cup {NoPage}
  /\ replies \subseteq Texts
  /\ deposit \in [Deposit -> [address : Address \cup {0}, state : States]]
  /\ hook \in Hook \cup {NoHook}
  /\ creditedTo \in [Deposit -> Account \cup {0}]
  /\ plays \subseteq Account \X (1..MaxPlays)
  /\ strayed \subseteq Account /\ misled \subseteq Deposit

Init ==
  /\ subject = [u \in UserId |-> NoOne]
  /\ account = [u \in UserId |-> 0]
  /\ created = 0
  /\ heir = [k \in Account |-> k]
  /\ balance = [u \in UserId |-> 0] /\ ledger = {}
  /\ owner = [a \in Address |-> 0]
  /\ cookie = [b \in Browser |-> NoCookie]
  /\ creating = [b \in Browser |-> NoOne]
  /\ page = NoPage
  /\ replies = {}
  /\ deposit = [d \in Deposit |-> NoDeposit]
  /\ hook = NoHook
  /\ creditedTo = [d \in Deposit |-> 0]
  /\ plays = {} /\ strayed = {} /\ misled = {}

-----------------------------------------------------------------------------
(* Signing in.  The callback looks the subject up in one statement and     *)
(* creates the row in another, and callbacks of several browsers interleave*)

Rows == {u \in UserId : subject[u] # NoOne}

\* SQLite gives a new row the id after the greatest there is, so the id of the
\* newest row is used again after a merge deleted it.
NextUserId(u) ==
  /\ \A v \in Rows : v < u
  /\ \A v \in UserId : (\A w \in Rows : w < v) => u <= v

Issue(b, u, k) ==
  cookie' = [cookie EXCEPT ![b] = [uid |-> u, account |-> k]]

\* A browser comes back from the provider as i, who has a row or not.  A refused
\* answer changes nothing.
SignIn(b, i) ==
  /\ creating[b] = NoOne
  /\ \/ \E u \in Rows : subject[u] = i /\ Issue(b, u, account[u])
        /\ UNCHANGED creating
     \/ /\ \A u \in Rows : subject[u] # i
        /\ created < MaxAccounts
        /\ creating' = [creating EXCEPT ![b] = i]
        /\ UNCHANGED cookie
  /\ UNCHANGED <<people, books, owner, browsing, payments, history>>

NewRow(b, u) ==
  /\ NextUserId(u)
  /\ created < MaxAccounts
  /\ created' = created + 1
  /\ subject' = [subject EXCEPT ![u] = creating[b]]
  /\ account' = [account EXCEPT ![u] = created + 1]
  /\ Issue(b, u, created + 1)
  /\ misled' = IF hook # NoHook /\ hook.next = "insert" /\ hook.user = u
               THEN misled \cup {hook.deposit} ELSE misled
  /\ UNCHANGED heir

\* Faulty: the insertion is not checked against the other rows.
CreateUnchecked(b) ==
  /\ creating[b] # NoOne
  /\ \E u \in UserId : NewRow(b, u)
  /\ creating' = [creating EXCEPT ![b] = NoOne]
  /\ UNCHANGED <<books, owner, browsing, payments, plays, strayed>>

\* Faulty: a failed insertion is ignored, and the session gets the newest id.
CreateOrNewest(b) ==
  /\ creating[b] # NoOne
  /\ \/ /\ \A u \in Rows : subject[u] # creating[b]
        /\ \E u \in UserId : NewRow(b, u)
     \/ \E u, v \in Rows :
          /\ subject[u] = creating[b]
          /\ \A w \in Rows : w <= v
          /\ Issue(b, v, account[u])
          /\ UNCHANGED <<people, misled>>
  /\ creating' = [creating EXCEPT ![b] = NoOne]
  /\ UNCHANGED <<books, owner, browsing, payments, plays, strayed>>

\* The subject is unique: if another browser created the row meanwhile, the
\* insertion fails and the customer has to sign in again, as after a restart.
Create(b) ==
  /\ creating[b] # NoOne
  /\ \/ /\ \A u \in Rows : subject[u] # creating[b]
        /\ \E u \in UserId : NewRow(b, u)
     \/ UNCHANGED <<people, cookie, misled>>
  /\ creating' = [creating EXCEPT ![b] = NoOne]
  /\ UNCHANGED <<books, owner, browsing, payments, plays, strayed>>

\* Logging out, or thirty days have passed, or the secret is another one after a
\* restart.  Pages stay open.
Logout(b) ==
  /\ cookie[b] # NoCookie
  /\ cookie' = [cookie EXCEPT ![b] = NoCookie]
  /\ UNCHANGED <<people, books, owner, creating, browsing, payments, history>>

SignedIn(b) == cookie[b] # NoCookie

\* The session's user id denotes the account that was signed in.
Own(b) == account[cookie[b].uid] = cookie[b].account

-----------------------------------------------------------------------------
(* The page of an address (handleBuy, StartPurchase).                      *)

\* Nothing leaves 'assigned' here, so every address with an owner is assigned.
Assigned(u) == {a \in Address : owner[a] = u}
Oldest == {a \in Assigned(0) : \A x \in Assigned(0) : a <= x}

\* The page with the address is the one watched, or not.
Show(b, a) ==
  \/ /\ page = NoPage /\ b \in Watched
     /\ page' = [viewer |-> b, address |-> a,
                 account |-> IF Own(b) THEN cookie[b].account ELSE 0,
                 shows |-> "waiting", feed |-> "connect", last |-> ""]
     /\ replies' = {}
  \/ UNCHANGED browsing

\* The session's id is bound to the address as it is: addresses.user_id has no
\* foreign key, so a row for it need not exist.
StartPurchase(b) ==
  /\ SignedIn(b)
  /\ LET u == cookie[b].uid IN
       \E a \in Address :
         /\ \/ a \in Assigned(u) /\ UNCHANGED owner
            \/ /\ Assigned(u) = {} /\ a \in Oldest
               /\ owner' = [owner EXCEPT ![a] = u]
         /\ Show(b, a)
  /\ UNCHANGED <<people, books, sessions, payments, history>>

\* The customer leaves the page, or asks again while buying is paused or the
\* pool is empty.
Leave ==
  /\ page # NoPage
  /\ page' = NoPage /\ replies' = {}
  /\ UNCHANGED <<people, books, owner, sessions, payments, history>>

-----------------------------------------------------------------------------
(* The page follows the payment (handleBuyEvents, handleBuyStatus, buy.js).*)

Paid(a) == {d \in Deposit : deposit[d].address = a}

\* latestDepositStatus
Latest(a) == {d \in Paid(a) : \A e \in Paid(a) : e <= d}
Status(a) ==
  IF Latest(a) = {} THEN "waiting" ELSE deposit[CHOOSE d \in Latest(a) : TRUE].state

\* Faulty: a payment that has its confirmations is taken for credited.
RenderEarly(s) == CASE s \in {"credited", "confirmed"} -> "credited"
                    [] s = "seen" -> "seen"
                    [] OTHER -> "waiting"

\* What the script makes of a state.
Render(s) == CASE s = "credited" -> "credited"
               [] s \in {"seen", "confirmed"} -> "seen"
               [] OTHER -> "waiting"

\* addressBelongsToUser, after the session was accepted.
Served ==
  /\ page # NoPage
  /\ SignedIn(page.viewer)
  /\ owner[page.address] = cookie[page.viewer].uid

On(feeds) == page # NoPage /\ page.feed \in feeds

\* The stream closes: the script turns to polling.
Polling(p) == [p EXCEPT !.feed = "poll", !.last = ""]

\* The stream is asked for once; if it is refused, the page polls.
Connect ==
  /\ On({"connect"})
  /\ page' = IF Served THEN [page EXCEPT !.feed = "stream"] ELSE Polling(page)
  /\ UNCHANGED <<people, books, owner, sessions, replies, payments, history>>

\* Faulty: the script does not see the end of a stream whose write was lost.
TickUnnoticed ==
  /\ On({"stream", "late"})
  /\ LET s == Status(page.address) IN
       /\ s # page.last
       /\ page' = [page EXCEPT !.last = s,
                      !.shows = IF page.feed = "stream" THEN Render(s) ELSE @]
  /\ UNCHANGED <<people, books, owner, sessions, replies, payments, history>>

\* Once a second the stream looks for a new state and writes it.  It ends after
\* 'credited', and with the first write after the server's write timeout, which
\* is lost.
Tick ==
  /\ On({"stream", "late"})
  /\ LET s == Status(page.address) IN
       /\ s # page.last
       /\ page' = IF page.feed = "late" THEN Polling(page)
                  ELSE IF s = "credited" THEN [Polling(page) EXCEPT !.shows = Render(s)]
                  ELSE [page EXCEPT !.shows = Render(s), !.last = s]
  /\ UNCHANGED <<people, books, owner, sessions, replies, payments, history>>

\* Fifteen seconds after the request the server's write timeout has passed.
WriteTimeout ==
  /\ On({"stream"})
  /\ page' = [page EXCEPT !.feed = "late"]
  /\ UNCHANGED <<people, books, owner, sessions, replies, payments, history>>

\* Fifteen minutes have passed, or the connection is lost.
StreamEnds ==
  /\ On({"stream", "late"})
  /\ page' = Polling(page)
  /\ UNCHANGED <<people, books, owner, sessions, replies, payments, history>>

\* Every three seconds, whether or not the last answer has come.  A request
\* that is refused changes nothing.
Poll ==
  /\ On({"poll"}) /\ Served
  /\ replies' = replies \cup {Render(Status(page.address))}
  /\ UNCHANGED <<people, books, owner, sessions, page, payments, history>>

\* Answers may overtake each other.
Answered(text) ==
  /\ text \in replies
  /\ page' = [page EXCEPT !.shows = text]
  /\ replies' = replies \ {text}
  /\ UNCHANGED <<people, books, owner, sessions, payments, history>>

-----------------------------------------------------------------------------
(* Payments, as Deposits has them: one goroutine handles an event at a     *)
(* time, and nothing is advanced while it runs a credit hook.              *)

Pay(a) ==
  /\ hook = NoHook
  /\ owner[a] # 0
  /\ \E d \in Deposit :
       /\ deposit[d] = NoDeposit
       /\ \A e \in Deposit : e < d => deposit[e] # NoDeposit
       /\ deposit' = [deposit EXCEPT ![d] = [address |-> a, state |-> "seen"]]
  /\ UNCHANGED <<people, books, owner, sessions, browsing, hook, creditedTo,
                 history>>

Advance(d) ==
  /\ hook = NoHook
  /\ \/ /\ deposit[d].state = "seen"
        /\ deposit' = [deposit EXCEPT ![d].state = "confirmed"]
     \/ /\ deposit[d].state \in {"seen", "confirmed"}
        /\ deposit' = [deposit EXCEPT ![d].state = "orphaned"]
  /\ UNCHANGED <<people, books, owner, sessions, browsing, hook, creditedTo,
                 history>>

\* The hook starts: it reads the address's user.
ReadUser(d) ==
  /\ hook = NoHook /\ deposit[d].state = "confirmed"
  /\ hook' = [deposit |-> d, user |-> owner[deposit[d].address],
              next |-> "insert"]
  /\ UNCHANGED <<people, books, owner, sessions, browsing, deposit, creditedTo,
                 history>>

Running(next) == hook # NoHook /\ hook.next = next

\* The hook's transaction: a row in the ledger of the user read earlier, which
\* is refused unless there is one by now.  A payment is worth one token.
CreditPurchase ==
  /\ Running("insert")
  /\ hook.user \in Rows
  /\ balance' = [balance EXCEPT ![hook.user] = @ + 1]
  /\ ledger' = ledger \cup {hook.user}
  /\ creditedTo' = [creditedTo EXCEPT ![hook.deposit] = account[hook.user]]
  /\ hook' = [hook EXCEPT !.next = "mark"]
  /\ UNCHANGED <<people, owner, sessions, browsing, deposit, history>>

\* That, or any other statement of the hook, fails: the deposit stays as it is.
HookFails ==
  /\ Running("insert")
  /\ hook' = NoHook /\ misled' = misled \ {hook.deposit}
  /\ UNCHANGED <<people, books, owner, sessions, browsing, deposit, creditedTo,
                 plays, strayed>>

MarkCredited ==
  /\ Running("mark")
  /\ deposit' = [deposit EXCEPT ![hook.deposit].state = "credited"]
  /\ hook' = NoHook
  /\ UNCHANGED <<people, books, owner, sessions, browsing, creditedTo, history>>

-----------------------------------------------------------------------------
(* Redemptions and merges.                                                 *)

\* One more redemption, by a session of account k.
Played(k) ==
  \E n \in 1..MaxPlays :
    /\ \A play \in plays : play[2] # n
    /\ plays' = plays \cup {<<k, n>>}

\* handleMachineRedeem charges the id in the cookie.  (Relay has the pulse.)
Redeem(b) ==
  /\ SignedIn(b)
  /\ LET u == cookie[b].uid IN
       /\ balance[u] > 0
       /\ balance' = [balance EXCEPT ![u] = @ - 1]
       /\ Played(cookie[b].account)
       /\ strayed' = IF Own(b) THEN strayed
                     ELSE strayed \cup {account[u], cookie[b].account}
  /\ UNCHANGED <<people, ledger, owner, sessions, browsing, payments, misled>>

\* Faulty: the addresses stay behind.
MergeWithoutAddresses(from, to) ==
  /\ from # to /\ from \in Rows /\ to \in Rows
  /\ subject' = [subject EXCEPT ![from] = NoOne]
  /\ account' = [account EXCEPT ![from] = 0]
  /\ heir' = [k \in Account |->
       IF heir[k] = account[from] THEN account[to] ELSE heir[k]]
  /\ balance' = [balance EXCEPT ![to] = @ + balance[from], ![from] = 0]
  /\ ledger' = IF from \in ledger THEN (ledger \ {from}) \cup {to} ELSE ledger
  /\ UNCHANGED <<created, owner, sessions, browsing, payments, history>>

\* Faulty: the ledger stays behind.
MergeWithoutLedger(from, to) ==
  /\ from # to /\ to \in Rows
  /\ Assigned(from) = {} \/ Assigned(to) = {}
  /\ subject' = [subject EXCEPT ![from] = NoOne]
  /\ account' = [account EXCEPT ![from] = 0]
  /\ heir' = [k \in Account |->
       IF from \in Rows /\ heir[k] = account[from] THEN account[to] ELSE heir[k]]
  /\ owner' = [a \in Address |-> IF owner[a] = from THEN to ELSE owner[a]]
  /\ UNCHANGED <<created, books, sessions, browsing, payments, history>>

\* handleAdminUserMerge: from the id in the form into the id in the path of the
\* page, and nothing looks either up.  Rows of the ledger cannot move to a user
\* who is missing (their foreign key), addresses can (they have none).  Two
\* assigned addresses cannot end up with one user (the unique index).  Cookies
\* live on.
Merge(from, to) ==
  /\ from # to
  /\ from \in ledger => to \in Rows
  /\ Assigned(from) = {} \/ Assigned(to) = {}
  /\ subject' = [subject EXCEPT ![from] = NoOne]
  /\ account' = [account EXCEPT ![from] = 0]
  /\ heir' = [k \in Account |->
       IF from \in Rows /\ heir[k] = account[from] THEN account[to] ELSE heir[k]]
  /\ balance' = [balance EXCEPT ![to] = @ + balance[from], ![from] = 0]
  /\ ledger' = IF from \in ledger THEN (ledger \ {from}) \cup {to} ELSE ledger
  /\ owner' = [a \in Address |-> IF owner[a] = from THEN to ELSE owner[a]]
  /\ UNCHANGED <<created, sessions, browsing, payments, history>>

-----------------------------------------------------------------------------
Next ==
  \/ \E b \in Browser :
       \/ \E i \in Identity : SignIn(b, i)
       \/ Create(b) \/ Logout(b) \/ StartPurchase(b) \/ Redeem(b)
  \/ Leave \/ Connect \/ Tick \/ WriteTimeout \/ StreamEnds \/ Poll
  \/ \E text \in Texts : Answered(text)
  \/ \E a \in Address : Pay(a)
  \/ \E d \in Deposit : Advance(d) \/ ReadUser(d)
  \/ CreditPurchase \/ HookFails \/ MarkCredited
  \/ \E from, to \in UserId : Merge(from, to)

Spec == Init /\ [][Next]_vars

\* The stream's ticker and the page's timer fire, and every answer arrives.
Fairness ==
  /\ WF_vars(Connect) /\ WF_vars(Tick) /\ WF_vars(Poll)
  /\ \A text \in Texts : WF_vars(Answered(text))

FairSpec == Spec /\ Fairness

-----------------------------------------------------------------------------
(* Properties.                                                             *)

\* A subject has one row, although two browsers may look it up before either
\* creates it (users.go:40 and 56).
OneAccountEach ==
  \A u, v \in Rows : subject[u] = subject[v] => u = v

\* A session denotes the account it was issued for until that account is merged
\* away, whichever sign-ins, merges and reused ids come between.
SessionIsOwn ==
  \A b \in Browser : cookie[b] # NoCookie =>
    \/ Own(b)
    \/ heir[cookie[b].account] # cookie[b].account

\* The account that opened the page, or the one it was merged into, is there
\* still: it was not merged into an id without a row.
Followed == page # NoPage /\ page.account # 0 /\ heir[page.account] # 0

\* The address on a page belongs to the account that opened the page, or to the
\* one it was merged into, so that a payment made later is not a stranger's.
AddressIsOwn ==
  Followed =>
    LET u == owner[page.address] IN
      u \in Rows /\ account[u] = heir[page.account]

\* A page that says the tokens were added is right: a payment was credited, and
\* every credited payment the address ever had is in the account that opened
\* the page or the one it was merged into, unless its hook was misled.  Late
\* answers, streams past their timeout and merges must not make it say so too
\* early, nor tell of the credit of another customer.
ShownCreditIsOwn ==
  Followed /\ page.shows = "credited" =>
    LET Credited == {d \in Paid(page.address) : deposit[d].state = "credited"}
    IN  /\ Credited # {}
        /\ \A d \in Credited \ misled : heir[creditedTo[d]] = heir[page.account]

\* The accounts whose tokens a row has, and what accounts were paid and played.
Merged(u) == {k \in Account : heir[k] = account[u]}
Paying(accounts) == {d \in Deposit : creditedTo[d] \in accounts}
Playing(accounts) == {play \in plays : play[1] \in accounts}

\* What an account holds is what was paid to it and to the accounts merged into
\* it, less what their own sessions redeemed: merges, hooks and redemptions keep
\* the books of several accounts in step, unless a session outlived its account.
BalanceIsOwn ==
  \A u \in Rows : Merged(u) \cap strayed = {} =>
    balance[u] = Cardinality(Paying(Merged(u))) - Cardinality(Playing(Merged(u)))

\* As long as the session may ask, a page comes to say what became of the latest
\* payment: streams end silently, their last events are lost, and answers
\* overtake each other, but polling goes on.
PageReportsCredit ==
  \A a \in Address :
    LET Open == page # NoPage /\ page.address = a
    IN  (Open /\ Status(a) = "credited") ~>
          \/ ~Open \/ page.shows = "credited"
          \/ ~Served \/ Status(a) # "credited"

\* A payment that has its confirmations has an account to be credited to, as
\* addresses name rows of users (design.md:359, 0006_token_core.sql:3) and a
\* payment credits the customer its address was bound to; even where nobody was
\* merged into an id without a row.  It does not hold.
ConfirmedHasAccount ==
  (\A k \in Account : heir[k] # 0) =>
    \A d \in Deposit : deposit[d].state = "confirmed" =>
      owner[deposit[d].address] \in Rows

=============================================================================
