-------------------------------- MODULE Pos --------------------------------
(***************************************************************************)
(* The kiosk page (web/static/internal/apps/pos: pos.js, mode.js) and the  *)
(* handlers of the inventory service it calls (inventory/inventory.js).    *)
(*                                                                         *)
(* The page is single threaded: what runs between two awaits is one step.  *)
(* An operation that awaits an answer is a task, and meanwhile the user    *)
(* signs out, another signs in, the session runs out.  Each task goes on   *)
(* from the mode object it was called on (`this`), not from window.mode.   *)
(*                                                                         *)
(* Objects.  A mode that was replaced never becomes window.mode again, so  *)
(* instead of an identity a task has self: `this` still is window.mode.    *)
(* The user object that the modes of a session share, and the purchases    *)
(* array that Purchases and ManualPurchase pass on, are named by the task  *)
(* that made them.                                                         *)
(*                                                                         *)
(* Calls are those of Rpc.tla: the service may serve a request after the   *)
(* page gave up, or never; the answer may be lost.                         *)
(***************************************************************************)
EXTENDS Integers, FiniteSets

CONSTANTS
  User,
  Item,            \* item barcodes
  Card,            \* card barcodes, registered or blank
  Unknown,         \* a barcode the database does not have
  Nobody,
  MaxTask,         \* bound: asynchronous operations of the page
  SpareArrays,     \* bound: purchases arrays alive that no task made
  Price, Bill,     \* cents of an item and of a deposited bill
  SessionTicks     \* SESSION_TIME, in ticks longer than any call or error

ASSUME PosAssumption ==
  /\ MaxTask \in Nat /\ SpareArrays \in Nat
  /\ SessionTicks \in Nat \ {0}
  /\ Price \in Int /\ Bill \in Int
  /\ Nobody \notin User

Task == 1 .. MaxTask
UserObj == 0 .. MaxTask                   \* 0: none
Array == 0 .. MaxTask + SpareArrays       \* 0: none
Barcode == Item \cup Card \cup {Unknown}

\* The classes of mode.js.  MenuPrice is NoBarcodePriceCheck, Account is
\* ManageAccount, History is ViewTransactions.
Shopping == {"LoggedIn", "Purchases", "ManualPurchase"}
Account == {"Account", "SetPassword", "AddCard", "CardAdded", "History"}
SignedInClass == Shopping \cup Account
Session == {"PriceCheck", "MenuPrice"} \cup SignedInClass
Class == {"Default", "ManualLogin", "Help"} \cup Session

VARIABLES
  mode,       \* window.mode
  task,       \* task[t]: where operation t awaits, and on behalf of which mode
  req,        \* req[t]: the request of task t, how far it was served, and
              \*   (history) asked: the user on the screen when t was started
  userObj,    \* userObj[o]: the user object made by task o
  array,      \* array[a]: the purchases (by task) pushed on array a
  balance,    \* the balances view: the sum of a user's transactions
  tx,         \* tx[t]: the row of transactions inserted for task t, with req[t].asked
  cards,      \* cards[c]: the user of card c in the barcodes table
  idle,       \* ticks since the user last did something, at most SessionTicks
  overlap     \* calls have been in flight together, or an answer was given up

vars == <<mode, task, req, userObj, array, balance, tx, cards, idle, overlap>>
dbVars == <<balance, tx, cards>>

NoTx == [user |-> Nobody, cents |-> 0, asked |-> Nobody]
Transaction == {NoTx} \cup [user : User, cents : {-Price, Bill}, asked : User \cup {Nobody}]

Call == {"info", "purchase", "login", "deposit", "card", "password", "history"}
Writes == {"purchase", "deposit", "card"}

ModeType == [cls : Class, user : UserObj, array : Array,
             left : 0 .. SessionTicks, error : BOOLEAN]
TaskType == [at : {"free", "over"} \cup Call,
             how : {"scan", "price", "menu", "login", "button"},
             cls : Class, self : BOOLEAN, user : UserObj,
             array : Array, arg : Barcode, left : 0 .. SessionTicks]
ReqType == [call : Call \cup {"none"}, arg : Barcode,
            user : User \cup {Nobody}, asked : User \cup {Nobody},
            at : {"none", "sent", "read", "answered"},
            reply : {"none", "ok", "item", "user", "error"},
            id : User \cup {Nobody}, balance : Int]
ObjType == [id : User \cup {Nobody}, balance : Int]

TypeOK ==
  /\ mode \in ModeType
  /\ task \in [Task -> TaskType]
  /\ req \in [Task -> ReqType]
  /\ userObj \in [Task -> ObjType]
  /\ array \in [Array -> SUBSET Task]
  /\ balance \in [User -> Int]
  /\ tx \in [Task -> Transaction]
  /\ cards \in [Card -> User \cup {Nobody}]
  /\ idle \in 0 .. SessionTicks
  /\ overlap \in BOOLEAN

NoReq == [call |-> "none", arg |-> Unknown, user |-> Nobody, asked |-> Nobody, at |-> "none",
          reply |-> "none", id |-> Nobody, balance |-> 0]

NewMode(cls, o, a) ==
  [cls |-> cls, user |-> o, array |-> a, error |-> FALSE,
   left |-> IF cls \in Session THEN SessionTicks ELSE 0]

FreeTask ==
  [at |-> "free", how |-> "button", cls |-> "Default", self |-> FALSE,
   user |-> 0, array |-> 0, arg |-> Unknown, left |-> 0]

Init ==
  /\ mode = NewMode("Default", 0, 0)
  /\ task = [t \in Task |-> FreeTask]
  /\ req = [t \in Task |-> NoReq]
  /\ userObj = [t \in Task |-> [id |-> Nobody, balance |-> 0]]
  /\ array = [a \in Array |-> {}]
  /\ balance = [u \in User |-> 0]
  /\ tx = [t \in Task |-> NoTx]
  /\ cards \in [Card -> User \cup {Nobody}]
  /\ idle = 0
  /\ overlap = FALSE

Owner(o) == IF o = 0 THEN Nobody ELSE userObj[o].id
SignedIn == mode.cls \in SignedInClass
OnScreen == IF SignedIn THEN Owner(mode.user) ELSE Nobody

\* Tasks whose request the page awaits or the service may still serve.
InFlight == {t \in Task : task[t].at \in Call \/ req[t].at # "none"}

-----------------------------------------------------------------------------
(* Steps of the page *)

\* set_mode: a new window.mode.  No task's `this` is window.mode any more.
SetMode(m, tasks) ==
  /\ mode' = m
  /\ task' = [t \in Task |-> [tasks[t] EXCEPT !.self = FALSE]]

\* window.mode stays the same object.
KeepMode(m, tasks) == mode' = m /\ task' = tasks

Bumped(m) == [m EXCEPT !.left = SessionTicks]
Failed(m) == [m EXCEPT !.error = TRUE]

\* The first task not yet used.
First(t) == task[t].at = "free" /\ \A s \in 1 .. t - 1 : task[s].at # "free"

\* Mutant of Sent: on behalf of the user on the screen by now.
SentForCurrent(t, call, o, arg, asked) ==
  req' = [req EXCEPT ![t] = [NoReq EXCEPT !.call = call, !.arg = arg, !.at = "sent",
            !.user = IF SignedIn THEN OnScreen ELSE Owner(o), !.asked = asked]]

\* socket.request: the message is on its way to the service.
Sent(t, call, o, arg, asked) ==
  req' = [req EXCEPT ![t] = [NoReq EXCEPT !.call = call, !.arg = arg, !.at = "sent",
                                          !.user = Owner(o), !.asked = asked]]

\* The current mode, left as m, starts an operation that awaits a request.
Begin(m, at, how, arg) ==
  /\ \E t \in Task :
     /\ First(t)
     /\ KeepMode(m, [task EXCEPT ![t] =
          [at |-> at, how |-> how, cls |-> mode.cls, self |-> TRUE,
           user |-> mode.user, array |-> mode.array, arg |-> arg,
           left |-> IF how = "menu" THEN SessionTicks ELSE 0]])
     /\ Sent(t, at, mode.user, arg, OnScreen)
  /\ overlap' = (overlap \/ InFlight # {})
  /\ UNCHANGED <<userObj, array, dbVars>>

\* Events of the devices and the user that change only the current mode.
Only(m) ==
  /\ mode' = m
  /\ UNCHANGED <<task, req, userObj, array, dbVars, overlap>>

\* scan_event -> window.mode.on_scan: DefaultMode and the signed-in modes look
\* the barcode up, AddCard registers it, the other account pages ignore it.
Scan(b) ==
  /\ \/ /\ mode.cls \notin Account
        /\ Begin(IF SignedIn THEN [mode EXCEPT !.error = FALSE] ELSE mode,
                 "info", "scan", b)
     \/ /\ mode.cls = "AddCard"
        /\ b # Unknown                \* to AddCard it is a blank card
        /\ Begin(Bumped(mode), "card", "scan", b)
     \/ mode.cls \in Account \ {"AddCard"} /\ Only(mode)
  /\ idle' = 0

\* select_item of the price menu and of the purchase menu, whose barcodes are
\* part of the page and may not be in the database.  ManualPurchase scans on a
\* new Purchases that it installs when the scan is over.
SelectItem(b) ==
  /\ b \in Item \cup {Unknown}
  /\ \/ mode.cls = "MenuPrice" /\ Begin(mode, "info", "price", b)
     \/ mode.cls = "ManualPurchase" /\ Begin(mode, "info", "menu", b)
  /\ idle' = 0

\* attemptLogin with the name of user u; whether the password is right is
\* decided by the service.
AttemptLogin ==
  /\ mode.cls = "ManualLogin"
  /\ Begin([mode EXCEPT !.error = FALSE], "login", "login", Unknown)
  /\ idle' = 0

SetPassword ==
  /\ mode.cls = "SetPassword"
  /\ \/ Begin(mode, "password", "button", Unknown)
     \/ Only(Failed(mode))             \* the two entries do not match
     \/ Only(Bumped(mode))             \* typing bumps the timeout
  /\ idle' = 0

ViewTransactions ==
  /\ mode.cls = "Account"
  /\ Begin(mode, "history", "button", Unknown)
  /\ idle' = 0

\* The bill acceptor reports a credited bill.  In a mode without on_deposit
\* the handler throws and the event is gone, which changes nothing here.
Deposit ==
  /\ SignedIn
  /\ Begin(Bumped(mode), "deposit", "button", Unknown)
  /\ UNCHANGED idle

\* deposit_preflight: answered yes in a session, else refused with an error.
DepositPreflight ==
  /\ Only(IF SignedIn THEN Bumped(mode) ELSE Failed(mode))
  /\ UNCHANGED idle

\* nfc_scan_error: no mode has a bumpTimeout, so only the error is shown.
NfcScanError ==
  /\ Only(Failed(mode))
  /\ idle' = 0

\* The buttons that lead from one mode to another; Default of a signed-in mode
\* is the Sign Out button.
Buttons ==
  [Default |-> {"MenuPrice", "ManualLogin", "Help"},
   PriceCheck |-> {"MenuPrice", "ManualLogin", "Help"},
   MenuPrice |-> {"Default", "Help"},
   ManualLogin |-> {"Default", "Help"},
   Help |-> {"Default"},
   LoggedIn |-> {"ManualPurchase", "Account", "Default"},
   Purchases |-> {"ManualPurchase", "Account", "Default"},
   ManualPurchase |-> {"LoggedIn", "Purchases", "Default"},
   Account |-> {"SetPassword", "AddCard", "LoggedIn", "Default"},
   SetPassword |-> {"LoggedIn", "Default"},
   AddCard |-> {"LoggedIn", "Default"},
   CardAdded |-> {"AddCard", "LoggedIn", "Default"},
   History |-> {"LoggedIn", "Default"}]

\* Arrays no mode and no task holds.
SpareArray == {a \in Array \ (Task \cup {0}) :
                 mode.array # a /\ \A t \in Task : task[t].at \in Call => task[t].array # a}

Press(cls) ==
  /\ cls \in Buttons[mode.cls]
  /\ mode.cls = "ManualPurchase" /\ cls # "Default"
       => cls = IF array[mode.array] = {} THEN "LoggedIn" ELSE "Purchases"
  /\ LET o == IF cls \in SignedInClass THEN mode.user ELSE 0 IN
     \/ /\ cls = "ManualPurchase" /\ mode.cls = "LoggedIn"
        /\ \E a \in SpareArray :
             /\ SetMode(NewMode(cls, o, a), task)
             /\ array' = [array EXCEPT ![a] = {}]
     \/ /\ cls # "ManualPurchase" \/ mode.cls # "LoggedIn"
        /\ SetMode(NewMode(cls, o, IF cls \in {"ManualPurchase", "Purchases"}
                                     THEN mode.array ELSE 0), task)
        /\ UNCHANGED array
  /\ idle' = 0
  /\ UNCHANGED <<req, userObj, dbVars, overlap>>

\* The interval of pos.js: a session that ran out is reset, an error cleared.
\* Mutant: a session installed with its timeout already over has none.
EndsOnTime == mode.cls \in Session /\ mode.left = 1
SessionEnds == mode.cls \in Session /\ mode.left <= 1

Tick ==
  LET older == [t \in Task |-> [task[t] EXCEPT !.left = IF @ > 0 THEN @ - 1 ELSE 0]] IN
  /\ IF SessionEnds THEN SetMode(NewMode("Default", 0, 0), older)
     ELSE KeepMode([mode EXCEPT !.left = IF @ > 0 THEN @ - 1 ELSE 0,
                                !.error = FALSE], older)
  /\ idle' = IF idle < SessionTicks THEN idle + 1 ELSE idle
  /\ UNCHANGED <<req, userObj, array, dbVars, overlap>>

-----------------------------------------------------------------------------
(* The inventory service *)

\* The answer; if the page has given up on the request it is dropped.
Answered(t, reply, id, bal) ==
  req' = [req EXCEPT ![t] =
    IF task[t].at = "over" THEN NoReq
    ELSE [@ EXCEPT !.at = "answered", !.reply = reply, !.id = id, !.balance = bal]]

Serves(t, call) == req[t].call = call /\ req[t].at = "sent"
pageVars == <<mode, task, userObj, array, idle, overlap>>

\* info_req: the barcode is an item's, else a registered card's, else unknown.
ServeInfo(t) ==
  /\ Serves(t, "info")
  /\ LET b == req[t].arg
         u == IF b \in Card THEN cards[b] ELSE Nobody
     IN  \/ b \in Item /\ Answered(t, "item", Nobody, 0)
         \/ u # Nobody /\ Answered(t, "user", u, balance[u])
         \/ b \notin Item /\ u = Nobody /\ Answered(t, "error", Nobody, 0)
  /\ UNCHANGED <<pageVars, dbVars>>

\* login: a user with the right password, or an error.
ServeLogin(t) ==
  /\ Serves(t, "login")
  /\ \/ \E u \in User : Answered(t, "user", u, balance[u])
     \/ Answered(t, "error", Nobody, 0)
  /\ UNCHANGED <<pageVars, dbVars>>

\* set_password (an empty one is never answered) and view_transactions.
ServeOther(t) ==
  /\ Serves(t, "password") \/ Serves(t, "history")
  /\ Answered(t, "ok", Nobody, 0)
  /\ UNCHANGED <<pageVars, dbVars>>

\* Mutant of Taken: the barcodes table's uniqueness forgotten.
TakenByItem(b) == b \in Item

\* A barcode of an item or of a user.
Taken(b) == b \in Item \/ (b \in Card /\ cards[b] # Nobody)

\* add_user_card: check and insert are one database transaction.
ServeCard(t) ==
  LET c == req[t].arg IN
  /\ Serves(t, "card")
  /\ \/ /\ Taken(c)
        /\ Answered(t, "error", Nobody, 0)
        /\ UNCHANGED cards
     \/ /\ ~ Taken(c)
        /\ cards' = [cards EXCEPT ![c] = req[t].user]
        /\ Answered(t, "ok", Nobody, 0)
  /\ UNCHANGED <<pageVars, balance, tx>>

\* purchase and deposit_money, first await: the balance is read.
ServeRead(t) ==
  /\ Serves(t, "purchase") \/ Serves(t, "deposit")
  /\ req' = [req EXCEPT ![t].at = "read", ![t].balance = balance[req[t].user]]
  /\ UNCHANGED <<pageVars, dbVars>>

Cents(t) == IF req[t].call = "purchase" THEN -Price ELSE Bill

\* Second await: the row is inserted.  The balance in the answer is the one
\* read before plus this row, whatever was inserted in between.
ServeInsert(t) ==
  LET u == req[t].user IN
  /\ req[t].at = "read"
  /\ balance' = [balance EXCEPT ![u] = @ + Cents(t)]
  /\ tx' = [tx EXCEPT ![t] = [user |-> u, cents |-> Cents(t), asked |-> req[t].asked]]
  /\ Answered(t, "ok", Nobody, req[t].balance + Cents(t))
  /\ UNCHANGED <<pageVars, cards>>

-----------------------------------------------------------------------------
(* The page goes on after an await *)

\* Task t is over.  A write the page gave up on may still be served.
Ended == [FreeTask EXCEPT !.at = "over"]
Over(t) == [task EXCEPT ![t] = Ended]
\* Mutant of Unawaited: it is put to the service again, served or not.
UnawaitedAgain(r) == IF r.call \in Writes THEN [r EXCEPT !.at = "sent"] ELSE NoReq
Unawaited(r) == IF r.call \in Writes /\ r.at # "answered" THEN r ELSE NoReq
Closed(t) == req' = [req EXCEPT ![t] = Unawaited(@)]

Replied(t, at, reply) ==
  /\ task[t].at = at
  /\ req[t].at = "answered"
  /\ req[t].reply = reply

\* `this` was mutated: seen only if it still is window.mode.
IfSelf(t, m) == IF task[t].self THEN m ELSE mode

\* A card was scanned in a DefaultMode, or the password was right: a new user
\* object and a new session, whatever the screen shows by now.
SignIn(t) ==
  /\ \/ Replied(t, "info", "user") /\ task[t].cls \notin SignedInClass
     \/ Replied(t, "login", "user")
  /\ userObj' = [userObj EXCEPT ![t] = [id |-> req[t].id, balance |-> req[t].balance]]
  /\ SetMode(NewMode("LoggedIn", t, 0), Over(t))
  /\ Closed(t)
  /\ UNCHANGED <<array, dbVars, idle, overlap>>

\* An item was scanned in a DefaultMode.
PriceCheck(t) ==
  /\ Replied(t, "info", "item") /\ task[t].cls \notin SignedInClass
  /\ SetMode(NewMode("PriceCheck", 0, 0), Over(t))
  /\ Closed(t)
  /\ UNCHANGED <<userObj, array, dbVars, idle, overlap>>

\* An item was scanned by a signed-in user: purchase() is called on `this`, on
\* a new Purchases (LoggedIn), or on the one select_item made.  It bumps that
\* mode's timeout and sends the purchase for the task's user.
BeginPurchase(t) ==
  LET new == task[t].cls = "LoggedIn"
      a   == IF new THEN t ELSE task[t].array
      own == ~ new /\ task[t].how # "menu"
  IN
  /\ Replied(t, "info", "item") /\ task[t].cls \in SignedInClass
  /\ KeepMode(IF own THEN IfSelf(t, Bumped(mode)) ELSE mode,
              [task EXCEPT ![t].at = "purchase", ![t].array = a,
                           ![t].left = IF own THEN 0 ELSE SessionTicks])
  /\ Sent(t, "purchase", task[t].user, task[t].arg, req[t].asked)
  /\ UNCHANGED <<userObj, array, dbVars, idle, overlap>>

\* Mutant of MadeBy: a page for the user on the screen by now.
MadeForCurrent(t) ==
  [NewMode("Purchases", IF SignedIn THEN mode.user ELSE task[t].user, task[t].array)
     EXCEPT !.left = task[t].left]

\* The mode that task t made beforehand, with what is left of its timeout.
MadeBy(t) == [NewMode("Purchases", task[t].user, task[t].array) EXCEPT !.left = task[t].left]

\* purchase_success: the item joins the array and the user's balance is the
\* one of the answer.  A mode made beforehand becomes window.mode.
Purchased(t) ==
  /\ Replied(t, "purchase", "ok")
  /\ array' = [array EXCEPT ![task[t].array] = @ \cup {t}]
  /\ userObj' = [userObj EXCEPT ![task[t].user].balance = req[t].balance]
  /\ IF task[t].cls = "LoggedIn" \/ task[t].how = "menu"
       THEN SetMode(MadeBy(t), Over(t)) ELSE KeepMode(mode, Over(t))
  /\ Closed(t)
  /\ UNCHANGED <<dbVars, idle, overlap>>

\* Mutant of Deposited: the balance of the answer is not taken over.
DepositedUnseen(t) ==
  /\ Replied(t, "deposit", "ok")
  /\ KeepMode(mode, Over(t))
  /\ Closed(t)
  /\ UNCHANGED <<userObj, array, dbVars, idle, overlap>>

\* deposit_money_success.
Deposited(t) ==
  /\ Replied(t, "deposit", "ok")
  /\ userObj' = [userObj EXCEPT ![task[t].user].balance = req[t].balance]
  /\ KeepMode(mode, Over(t))
  /\ Closed(t)
  /\ UNCHANGED <<array, dbVars, idle, overlap>>

\* A card scanned while shopping: "Already signed in" is shown on `this`.
AlreadySignedIn(t) ==
  /\ Replied(t, "info", "user") /\ task[t].cls \in SignedInClass
  /\ KeepMode(IfSelf(t, Failed(mode)), Over(t))
  /\ Closed(t)
  /\ UNCHANGED <<userObj, array, dbVars, idle, overlap>>

\* A new password, a new card or the history: on to the next page.
AccountPage == [password |-> "LoggedIn", card |-> "CardAdded", history |-> "History"]

AccountDone(t) ==
  /\ \E at \in DOMAIN AccountPage :
       /\ Replied(t, at, "ok")
       /\ SetMode(NewMode(AccountPage[at], task[t].user, 0), Over(t))
  /\ Closed(t)
  /\ UNCHANGED <<userObj, array, dbVars, idle, overlap>>

\* The request failed: with an error from the service, which scan_event shows
\* on the mode that is current by now, the price menu and the login form on
\* `this`; or by timeout, a string, which only the price menu shows.  The
\* other buttons have no catch.  select_item of ManualPurchase goes on to its
\* new Purchases in any case.
CallFailed(t, timeout) ==
  /\ task[t].at \in Call
  /\ timeout \/ (req[t].at = "answered" /\ req[t].reply = "error")
  /\ CASE task[t].how = "menu"   -> SetMode(MadeBy(t), Over(t))
       [] task[t].how = "price"  -> KeepMode(IfSelf(t, Failed(mode)), Over(t))
       [] task[t].how = "login"  ->
            KeepMode(IfSelf(t, [mode EXCEPT !.error = ~ timeout]), Over(t))
       [] task[t].how = "scan"   -> KeepMode(IF timeout THEN mode ELSE Failed(mode), Over(t))
       [] task[t].how = "button" -> KeepMode(mode, Over(t))
  /\ Closed(t)
  /\ overlap' = (overlap \/ timeout)
  /\ UNCHANGED <<userObj, array, dbVars, idle>>

\* refresh: the page is loaded anew and forgets what it awaited.
Refresh ==
  LET lost == {t \in Task : task[t].at \in Call} IN
  /\ SetMode(NewMode("Default", 0, 0), [t \in Task |-> IF t \in lost THEN Ended ELSE task[t]])
  /\ req' = [t \in Task |-> IF t \in lost THEN Unawaited(req[t]) ELSE req[t]]
  /\ overlap' = (overlap \/ lost # {})
  /\ UNCHANGED <<userObj, array, dbVars, idle>>

-----------------------------------------------------------------------------
UserStep ==
  \/ \E b \in Barcode : Scan(b)
  \/ \E b \in Barcode : SelectItem(b)
  \/ AttemptLogin \/ SetPassword \/ ViewTransactions
  \/ \E cls \in Class : Press(cls)
  \/ NfcScanError

CashStep == Deposit \/ DepositPreflight

ServiceStep(t) ==
  ServeInfo(t) \/ ServeLogin(t) \/ ServeOther(t) \/ ServeCard(t)
    \/ ServeRead(t) \/ ServeInsert(t)

PageStep(t) ==
  \/ SignIn(t) \/ PriceCheck(t) \/ BeginPurchase(t) \/ Purchased(t)
  \/ Deposited(t) \/ AlreadySignedIn(t) \/ AccountDone(t)
  \/ \E timeout \in BOOLEAN : CallFailed(t, timeout)

Next ==
  \/ UserStep
  \/ CashStep
  \/ Tick
  \/ Refresh
  \/ \E t \in Task : ServiceStep(t) \/ PageStep(t)

Spec == Init /\ [][Next]_vars

-----------------------------------------------------------------------------
(* Properties *)

\* A purchase or deposit goes to the account that was on the screen when the
\* item was scanned or the bill credited, though the session may have ended
\* and another user signed in before the answers came.
ChargedWhoAsked == \A t \in Task : tx[t] # NoTx => tx[t].user = tx[t].asked

\* Every purchase listed on the screen was charged to the user whose name is
\* above it: arrays and user objects of two sessions never mix.
ShownIsCharged ==
  \A t \in array[mode.array] : tx[t].user = OnScreen /\ tx[t].cents = -Price

\* Of calls made one after the other and all answered, the balance on the
\* screen is the balance of the ledger.
BalanceIsExact ==
  SignedIn /\ ~ overlap /\ InFlight = {}
    => userObj[mode.user].balance = balance[OnScreen]

\* add_user_card: a registered card never changes hands, not even when two
\* kiosk sessions add it or a late request is served after its session.
CardsStay ==
  [][\A c \in Card : cards[c] # Nobody => cards'[c] = cards[c]]_cards

\* What Till.tla sees of a task: the money that its request may still move, from
\* the scan on, also after the page gave up on it.
MayCharge(t) ==
  \/ task[t].at = "info" /\ task[t].cls \in SignedInClass
  \/ req[t].call \in {"purchase", "deposit"} /\ req[t].at \in {"sent", "read"}

OrderOf(t) ==
  IF task[t].at = "free" THEN [state |-> "new", by |-> Nobody, cents |-> 0]
  ELSE IF MayCharge(t) THEN [state |-> "open", by |-> req[t].asked,
                             cents |-> IF req[t].call = "deposit" THEN Bill ELSE -Price]
  ELSE [state |-> "closed", by |-> Nobody, cents |-> 0]

Till == INSTANCE Till WITH
  Order <- Task,
  customer <- OnScreen,
  listed <- array[mode.array],
  order <- [t \in Task |-> OrderOf(t)],
  row <- [t \in Task |-> [user |-> tx[t].user, cents |-> tx[t].cents]]

\* One scan or bill, one row at most, for who was on the screen then: whichever
\* answers are late or lost, whoever signs in meanwhile, and no order that the
\* page and the service are done with is charged.
ImplementsTill == Till!Spec

\* Left alone, the kiosk signs its user out: no session stays, not even one
\* that a late answer or select_item brought back.
Fairness == WF_vars(Tick) /\ \A t \in Task : WF_vars(CallFailed(t, TRUE))
LiveSpec == Spec /\ Fairness
SessionsEnd == <>[][~ UserStep /\ ~ CashStep]_vars => <>[](~ SignedIn)

\* pos.js on nfc_scan_error: "it's an indication the user is actively using the
\* system so bump the timeout".
NfcErrorBumps ==
  [][NfcScanError /\ mode.cls \in Session => mode'.left = SessionTicks]_vars

\* mode.js on SESSION_TIME: "how long the user has after any interaction before
\* the session gets reset".
ResetOnlyWhenIdle == [][Tick /\ SignedIn /\ SessionEnds => idle' = SessionTicks]_vars
=============================================================================
