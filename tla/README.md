# A TLA+ development of Chez Bob

Chez Bob is a snack co-op: a kiosk where users sign in, scan what they buy and
feed bills into an acceptor, a set of small services that talk through a
websocket relay, and web tools for the people who run it. This directory models
the parts of it where order, failure and time matter, checks them with TLC and
proves the central facts with TLAPS.

`tlc -config X.cfg M` repeats a run of the table below; `tlapm M_proofs.tla`
checks the proofs of `Relay`, `Pos`, `Cash`, `InvoiceImport`, `ScannerCamera`,
`Scanning`, `ProductSave` and `Admin`.

## The system

    barcode, nfc, cash ---\                      /--- inventory service --- sqlite
                           >--- relay server ---<                             |
    kiosk page (pos) -----/    (web/internal)    \--- restock page            |
                                                                              |
    admin page --- web/api.js (bulk administration) --------------------------|
    scanner, invoice and list pages --- admin-web (Flask) --------------------|
    scanner page --- inventory-v2 (Flask) ------------------------------------|
    scripts ------------------------------------------------------------------/

Processes dial the relay with their *role* as the path of the websocket URL.
A message names a role; the relay forwards it to the connection of that role
and fills in the sender. A request is a message with an id whose answer carries
`response_to`. All persistent state is one sqlite database, which five programs
write.

| component | state | operations | what is hard |
|---|---|---|---|
| relay (`lib/relay-server`) | connections, their names, `isAlive` | upgrade, forward, ping, close | two ends of a connection disagree about it; names are freed late |
| reconnecting socket (`lib/reconnecting-socket`) | the websocket, `#pending` | connect, send, request, handle | redialling, timeouts against answers, answers on a new connection |
| kiosk page (`web/static/internal/apps/pos`) | `window.mode`, its user, purchases and timeout | scans, buttons, login, deposits, the interval | `set_mode` after an await, two users one after the other |
| inventory service (`inventory`) | none of its own; the tables | lookups, purchase, deposit, cards, passwords, `update_info` | balance read before insert, requests served after the caller gave up |
| cash service (`devices/cash`) | the poll loop | poll, hold, ask the kiosk, reject, deposit | the reader acts on its own; a bill must not be taken before the answer |
| barcode and nfc services (`devices`) | key buffer, time of the last scan | one message per scan | debounce, a socket that is not open, scans while the service is down |
| administration API and page (`web/api.js`, `apps/admin`) | two lists on the page | bulk users, transactions, refunds | `max(id) + 1`, batches that fail half way, late answers, second clicks |
| admin-web: users and balances | sessions of the tool, audit log | add, update, reset, adjust | checks before the write lock is held |
| admin-web: products; inventory-v2 | the tables | look up, save, repair at a start | threads over one database, spellings of a barcode, two units of price |
| admin-web: invoice import and its page | previews, audit log; the page's rows | upload, price, review, apply | stale reviews, lost answers, a catalogue that others edit |
| scanner page (`admin-web/static/app.js`, the same in inventory-v2) | camera session, captures, forms | scan, decode, look up, edit, save | the browser answers late; edits while a lookup or a save is under way |
| reports, list pages, restock page, web servers, migrations | none of interest | reads | see *Not modelled* |

`PROJECT.json` lists every component with its status, and every hazard with the
line where it bites and the properties that are about it.

## Modules

Each system module has its state as variables, one action per callback, handler
or step between two awaits, and its properties at the end. Histories (variables
or fields no code has) are marked *history*; bounds are marked *bound* where
they are declared. Operators marked *Mutant of* are used by no specification.

### Relay.tla, Rpc.tla: the relay and the calls made through it

`Relay` has a variable for every field the two programs keep (`ws`,
`readyState`, `#pending`; `wss.clients`, `ws.name`, `isAlive`) and, between
them, the network: `link[k]` is what still joins the two ends of connection
`k`, `up` and `down` are the frames on it. The ends learn of a loss separately:
the client by a close event, the relay by a FIN or two missed heartbeats. Each
callback of the code is one action. A crash of a process (a reloaded page, a
restarted service, a host that died) forgets what it awaited and served.
Malformed messages, which the relay only logs, are left out, and so is the
second answer `handle` attempts after an error, which throws before it is sent.

`Rpc` is the abstract specification: what `await socket.request(...)` may come
to, with two variables. `RefinesRpc` is the refinement; the mapping is the
identity on `promise` and `served`.

### Pos.tla, Till.tla: the kiosk page and the inventory service

The page is single threaded: what runs between two awaits is one action. An
operation that awaits an answer is a *task*; while it waits the user signs out,
another signs in, or the interval ends the session. A task continues with the
mode object it was called on (`this`), not with `window.mode`; that is where
sessions come back to life and where money could go to the wrong account, and
the model keeps exactly this: `task[t].user` and `task[t].array` name the user
object and purchases array of `this`, and `task[t].self` tells whether `this`
still is `window.mode`. A mode that was replaced is never installed again, so
its own timeout and error need no state, except for the pages that
`LoggedIn.purchase` and `ManualPurchase.select_item` make before they await
(`MadeBy`). "On the screen" means the data of `window.mode`; when it is drawn is
left out.

The service's handlers are split at their database awaits: `ServeRead` and
`ServeInsert` are the two halves of `purchase` and `deposit_money`. The service
may serve a write after the page gave up on it. `MIN_BALANCE` is minus infinity
in the code, so no purchase is refused for it. Time is counted in `SessionTicks`
ticks of the interval, each longer than a call or a displayed error.

`Till` is the promise about money, without modes, tasks or timeouts: a scan or a
credited bill places an *order* for whoever is on the screen; an order is charged
once at most, whole, to that user, however late; an order that was closed is never
charged; no balance changes otherwise; a screen lists only what was charged to
the user it shows. That an order is charged at all is not promised. An order of
`Till` is a task of `Pos`: open from the scan for as long as its item is looked up
or its request may still reach the tables, also after the page gave up on it
(`MayCharge`).

### Cash.tla, Escrow.tla: the deposit path

`Cash` is the poll loop of `cash.js` with its program counter (each await is a
value of `pc`), the bill reader it polls, and the kiosk's two answers. The
reader is not in the repository: its actions say what the comments of `cash.js`
say (a POLL after a value was reported accepts the bill; HOLD keeps it; the
reader gives up and disables itself; a bill may fail to stack). DISABLED is
reported for as long as the reader is disabled, before or after other events.
The kiosk is abstracted to whether somebody is signed in.

`Escrow` is the promise: a bill comes back or is kept, it is kept only if the
kiosk agreed (or the service restarted on it), and it is credited once at most,
after it is in the box.

### InvoiceImport.tla: the prices of an invoice

The exchange of `invoice_import.py` with its page `costco.js`. An upload stores
a preview with a snapshot of the catalogue; the page matches lines to items and
asks for unit prices as units are typed; a review shows the changes; a
confirmation sends the updates again to be applied. The application is one
transaction, which takes the write lock before it reads. An upload reads the
catalogue and the remembered matches first and stores the preview then, and a
review reads the preview and the rows one by one; each of the two is one action
all the same, because a snapshot may be out of date in any case and because what a
review answers depends on the snapshot only (a row that differs from it is an
error). Answers may be late or lost, and the confirmation is then sent again.
The lines of an invoice stand for different item numbers, by which the code
remembers matches. Other administrators edit rows meanwhile. A price is named by what it was computed
from, `<<preview, line, count>>`, so that a price of another line, of other
units or of another invoice can be told apart.

### ProductSave.tla, Catalogue.tla: products under barcodes

`save_product` and `save_unbarcoded_product` of admin-web and of inventory-v2
(the variable `app`, which is chosen at the start and never changes: one of the two
servers at work on a database), with the other writers of the tables:
`update_info` and `add_user_card` of the kiosk's service, and `apply_invoice` of
admin-web, which prices products and writes audit entries (`ApplyInvoice`, one
product at a time; the exchange around it is `InvoiceImport`). Python's sqlite3 opens a transaction at the first write:
the lookups before it are steps of their own, everything from the first write to
the commit is one, which may fail as a whole, by the unique index or for any other
reason (`RollBack`). `Candidates` gives the spellings of a code that
`barcode_lookup_candidates` tries. `Restart` is the repair at a start of either
server: admin-web keeps a whole price next to the unit price in cents, which the
repair derives from each other. A price is named by the form it was derived from;
whatever `update_info` sets is one value, `SetPrice`. A form stands for the whole
price, the count and the flags; names are left out.

`Catalogue` is the promise, without anything a thread reads before its
transaction: a save is *one step*, which takes the product of the first spelling
of its code that is sold, makes one only if none is (or if a spelling is a
user's card, which hides the others), and leaves every other code as it was. A
save that fails changes nothing. That is promised of a code unless two saves of
its product are under way at once, or `update_info` added a spelling of it: then
the code is *crossed* (`loose` in `ProductSave`), and a save may take any product,
though the code has one afterwards. An invoice, too, gives a product a form
(`Reprice`). The mapping reads the tables: `sold` is the
barcode's `item_id`, `products` and `form` are the rows of the inventory, `asked` is the
part of a request that its caller gave.

### AdminLedger.tla: transactions and refunds in bulk

The handlers `add-transactions` and `refunds` of `web/api.js`, statement by
statement, for any number of submissions at once, with the page that made them:
its two lists, the refund form with the last purchases of an email, answers that
get lost. The kiosk and the balance adjustments of admin-web write the same
table in between. A list of the page is a set of numbered entries, whose order is
that of their numbers; one bound, `MaxWork`, is on everything done on the page:
entries, submissions and queries.

### AdminUsers.tla: users in bulk and by the tool

`add-users` and `reset-passwords` of `web/api.js`, and the tool of admin-web,
which compares names and emails without case before it takes the write lock,
with the audit entries it writes in the same transaction. A batch of
`reset-passwords` is looked up in one step (`found`) and reset in the next. An email
is given by its local part.

### ScannerCamera.tla, ScannerForms.tla: the scanner page

`ScannerCamera` has `startCamera` with its three awaits, every way to stop the
camera, the frame loop with its confirmation and review timers, and pictures
being decoded (also one picked from a dialog that outlived the scan view), each
with the session it was started in. `ScannerForms` has the
product forms: the lookup that fills one (and its retry), edits while it or a
save is under way, saves with lost answers, and starting over with the question
that guards unsaved work. The content of a form is the number of the user's
last edit.

### Devices.tla: the barcode and NFC services

Keys, ENTER, the debounce time and card readings, and what `send` does on a
socket that is open (the message goes), closed (it is dropped) or connecting (it
throws, and the process ends). A service that was started listens to its device
only when it has connected (`Connects`); until then cards are not seen and digits
are heard by nobody, so that the tail of a code may be all a service has of it
(`missed`, a history, counts the digits it has not).

### Admin.tla, Scanning.tla: the components together

`Admin` composes `ProductSave`, `AdminLedger` and `AdminUsers`; `Scanning` composes
`Devices`, `ScannerForms` and `ScannerCamera`. The variable `part`, chosen in the
initial state and never changed, says which component takes the steps. That
loses nothing, because none of them reads a variable that another one writes:
the ledger, the users and the products are written by disjoint statements (the
audit log by disjoint kinds of entry), the scanner's camera and forms meet only
in the captures, which both have, and the devices are other processes. Their
properties join those of the components by what they are about:
`AnswersAreTrue` is of the ledger's answers and of the users', `AllOrNothing` of
adjustments and their ledger rows and of products and their barcodes.

### The MC modules

Each `MC` module extends the module of its name with what its `.cfg` files need to
give the constants values. Two add a bound that depends on what happens:
`MCRelay!OnePage` (once a link was lost the second page stays away) and
`MCInvoiceImport!PartSpec` (a behaviour reviews and applies, or has units typed).

## Runs

| run | question | bounds |
|---|---|---|
| `relay_calls` | do the two ends stay consistent, who gets the messages when two processes claim one name, and is `request()` what `Rpc` says | 3 clients, 4 connections, 1 request to the contested name, 1 crash; 1 lost link while there is one page |
| `relay_live` | requests settle, clients get back in under the names dead connections held | 1 client, 3 connections, 1 request, 1 lost link, 2 crashes |
| `relay_silent_cut` | is every disconnected socket reconnected (no) | 1 client, 1 lost link |
| `pos_accounts` | is money charged to the right account and shown as such; do cards keep their owner | 2 users, 1 item, 1 card (blank or registered), 3 operations |
| `pos_till` | is `Till` implemented | 2 users who sign in by name, 1 item, 3 operations |
| `pos_live` | does a kiosk left alone sign its user out | 1 user, 1 item, 2 operations, 2 ticks |
| `pos_nfc` | does a failed card reading extend the session (no) | 1 user, 2 operations |
| `pos_idle` | is a session reset only after SESSION_TIME without interaction (no) | 1 user, 2 operations |
| `cash` | are bills taken with consent, credited once and never stuck; is `Escrow` implemented | 2 bills, reader disabled twice, 1 restart |
| `invoice` | is an invoice applied once, as shown, over nothing that changed; are prices those of their units | 2 previews; either 2 lines, 1 item, 1 edit, 2 applications, or 1 line, units 1 and 2, 2 edits of the units |
| `admin` | are answers true, writes whole, audits right, barcodes unambiguous, whoever writes between; is `Catalogue` implemented | both apps; 2 threads; 3 units of page work (entries, submissions, queries), 2 ledger rows, 1 transaction looked at for refunds; 3 users, 3 jobs, lists of up to 2 of 3 names, batches of 1; 3 spellings of a barcode, 3 products, 2 saves or pricings |
| `scanning` | is the camera given back, is nothing captured for earlier work, is no edit lost, are scans reported in order and not mixed up | 5 camera sessions, 2 codes, 2 edits, 1 retry, 2 lost answers; 3 scans in 4 ticks, codes of 2 digits, 1 restart of either service |

Why the bounds are enough. A connection's name matters only to another live
connection of the same name, so a dead predecessor, its successor and one more
client show every contention; with three or four connections one can be dead
and not yet reaped while another is refused and a third is dialled. Requests
are independent of each other (each has its own id and timer), so one is enough
for what happens to it. At the kiosk a mix-up takes a session, a call of it,
and another session: three operations; and the proof does without the bound. A
bill waits alone in the reader, so what a first bill leaves behind is seen by a
second. An invoice goes wrong by a second preview, a second application or an
edit between review and application, and one of each is there; the proof does
without these bounds too. The handlers of the administration hold what they read
across one await at a time, so two writers show each race; the proofs do without
these bounds as well. Five camera sessions let a start be
overtaken twice and still have a stream to release; pictures and captures belong
to one of three pieces of work (two clearings).

`CHECK_DEADLOCK FALSE`: in the kiosk's runs `MaxTask` bounds the operations of a
behaviour, so a page that is signed out with all of them used up may have
nothing left to do; in `admin` and `scanning` the bounds on requests, rows, jobs,
edits, keys and time end a behaviour in the same way. The relay, cash and
invoice runs check deadlock.

Symmetry is used on connections, users, bills, previews, rows, threads, forms
and codes, in runs without liveness only.

Each property has a mutant in `PROJECT.json`: an operator that changes one
definition as a plausible bug would (a check dropped, an off-by-one, a session
not compared, `INSERT OR REPLACE`) and makes the run fail.

### Fairness

`Relay.Fairness` says that the relay's interval and event loop run, timers fire,
a process goes on dialling, and a close event arrives when the other end ended
the connection, when a handshake is open, or when the client has sent on the
dead link (TCP gives up). It does **not** say that a client notices a link that
died in silence: nothing in the code would, which is the finding
`AutoReconnects`. `Open` is strongly fair because a handshake is over long
before two heartbeats (10 s) have passed. `Pos.Fairness`: the interval of
`pos.js` runs and each request times out. `Cash` assumes that the loop goes on
(its awaits end: a request to the kiosk is answered or times out) and that a bill
on its way to the box gets there; not that the reader gives a held bill up by
itself, nor that anybody inserts one.

### Findings

- `AutoReconnects`: a connection lost in silence is never redialled, though the
  comment on `connect` says a disconnected socket auto-reconnects.
- `NfcErrorBumps`: `pos.js` calls `bumpTimeout`, which no mode has (it is
  `bump_timeout`), so a failed card reading does not extend the session.
- `ResetOnlyWhenIdle`: SESSION_TIME is described as the time after *any*
  interaction, but a scan does not restart it unless a purchase follows.

Met while modelling, without a run of their own; the properties named say what
does hold:

- the refund form takes the last five transactions of a user and then drops
  those that are not purchases (`web/api.js:276`, `:289`), so five deposits hide
  every purchase (`RefundedWasBought` is about what it does offer);
- on the scanner page, what is typed while its form is being saved counts as
  saved (`app.js:904`, against the comment at `:947`), so it may be thrown away
  without a question (`WarnsUnlessRaced` is about everything else); and since the
  save's success also takes the mark `dirty` off (`:905`), the answer of a lookup
  that was retried before the save fills the form anew over it (`:735`):
  `EditsKept` leaves exactly that out;
- `update_info` (`inventory/inventory.js:280`) changes a product's name and price
  without an audit entry, so the audit log of admin-web does not tell the present
  name and unit price of a product; `AuditIsTrue` is about the whole price, which it
  leaves alone, and about the unit price until `update_info` sets one;
- digits scanned while the barcode service is down or connecting (`barcode.js:35`)
  are lost, and the next ENTER reports the rest of that code as a code:
  `ReportIsScan` says that it is nothing worse;
- when an upload is answered while a review is on its way, the updates of one
  invoice are confirmed for the other (`costco.js:271`): `AppliedIsShown` is
  about all other confirmations, and `mixed` marks these;
- a scan within the debounce time is dropped without a look at its code
  (`barcode.js:62`), also one of another item: `DropsAreClose`.

## Proofs

All theorems hold for every value of the constants that satisfies the named
assumption of the module, which only gives the constants their types (and, for
`InvoiceImport`, finitely many lines and items). `Scanning` and `Admin` assume it
of the modules they compose (`ScanningAssumption`, `AdminAssumption`); the theorems
about `ScannerCamera` and `ProductSave` alone state theirs (`ASSUME ... PROVE`).

Every invariant, action property and refinement that a passing run checks is the
conclusion of a theorem; what TLC alone answers for is liveness.

### Relay_proofs.tla

- `Invariance`: `Spec => []IInv`, where
  `IInv == TypeOK /\ SocketInv /\ UniqueNames /\ NoForgottenPromise`;
- `TypeCorrect`, `NamesStayUnique`, `OpenIsRegistered`, `PromisesAreKept`: the
  invariants that follow from it.

`UniqueNames` alone is not inductive: `Accept` keeps it because a connection
that is being accepted is not yet in `clients` (`SocketInv`: a link in state
"syn" is not registered), and `Dial` keeps it because it never renames a
connection the relay still has. `OpenMeansRegistered` follows from the part of
`SocketInv` that ties a client's connection to its role. `NoForgottenPromise`
needs the other half of its own statement: an id is pending only at the process
that made the request, so a crash of one process abandons exactly its own
promises.

For the calls made through the relay:

- `WireInvariance`: `Spec => []RpcInv`, with
  `RpcInv == FramesRight /\ OneCopy /\ WorkRight`;
- `HandlersServeRightly`: `ServedRightly`;
- `ImplementsRpc`: `Spec => RefinesRpc`, the refinement of `Rpc`.

That a handler runs at most once is a fact about what is on the wire: there is
one copy at most of a request, on the caller's connection or on a callee's, and
none once a handler has started (`OneCopy`). The relay sends a message to every
connection of a name, so this rests on `UniqueNames`. `FramesRight` says that a
frame is on a connection of the right role (a connection changes its name only
when it is dialled again, with empty channels) and that an answer on the wire
means the request was served, which is what lets `Response` be a `Settle` of
`Rpc`. Most steps put no request on the wire and start no handler: they only
thin the channels out, and `CalmStep` treats them once. `RequestSends`,
`ForwardMoves` and `DispatchServes` follow the one copy from the caller to the
handler.

### Pos_proofs.tla

For any number of users, items, cards and operations of the page:
`Inductive`, `TypeCorrect`, `ChargesWhoAsked` (`ChargedWhoAsked`),
`ShowsWhatWasCharged` (`ShownIsCharged`), `BalanceExact` (`BalanceIsExact`),
`CardsKeepOwner` (`CardsStay`) and `KeepsTill` (`ImplementsTill`).

A session is a user object. `Views`: an object is given a user only by the task
that makes it, which is over from then on, so a mode or task that carries the
object keeps meaning the same user. `Requests`: hence a request sent for a task
names the user who was on the screen when the task began, through every step of
the service, and `ChargedWhoAsked` follows at the insert. `Arrays`: whoever holds
a purchases array, the screen or a task, holds it with one user object, and what
is on it was charged to that user; the delicate steps are `Purchased`, which puts
a purchase on an array other tasks may hold, `BeginPurchase`, whose new array
belongs to a task that is not over and so is held by nobody else, and `Press`,
which may reuse only an array nobody holds. `Exact` carries `BalanceIsExact`
through a call: as long as calls come one at a time and are answered, the user
object is exact until the money moves, then the answer is. The steps of the page
that end a task are handled once (`EndsViews`, `EndsRequests`, `EndsArrays`,
`EndsExact`), those that begin one in `BeginStep`, those of the service in
`AnswerStep`, `ReadStep` and `InsertStep`.

The refinement needs no invariant of its own. An order is new while its task is
free, open while the money may move, closed from then on. `BeginTill`: a task that
begins with a scan in a session, or with a credited bill, is a `Place`, any other a
`Turn`, since its order is closed from the start. `InsertTill`: the insert is the
`Charge`, and by `Requests` of what was asked, by whom. `EndsOrders`: a step that
ends tasks or gives up requests only closes orders, and what it puts on the
screen is a user object with an array that holds purchases of that user
(`Arrays`); a task that goes on from the lookup to the purchase leaves its order
open. All of those are a `Turn`. That a closed order stays closed is where a
request that is sent again would break the refinement: the mutant of `pos_till`.

### Cash_proofs.tla

For every set of bills and any number of restarts and of times the reader gives
up:

- `Invariance`: `Spec => []IInv`, with `IInv == TypeOK /\ LoopInv /\ NoteInv /\
  ConsentInv`, and `TypeCorrect`;
- `ConsentIsAsked`: no bill is taken without consent (`TakenWithConsent`);
- `CreditsAreCovered`: one credit per bill, and a bill in the box behind it
  (`NoFreeMoney`);
- `KeepsThePromise`: `Spec => ImplementsEscrow`, the refinement of `Escrow`.

`TakenWithConsent` is about a POLL that has not happened yet, so its
strengthening says where the permission is: a bill that was read has its
READ_NOTE among the reports, a bill in escrow has it among the events or is the
bill being handled (`ConsentInv`); when the loop is about to POLL there are no
events left, so no bill is in escrow without consent. Throwing the events
behind a DISABLED away is safe because a disabled reader has given every bill
back (`LoopInv`). `NoFreeMoney` needs `MoneyInv`: a CREDIT_NOTE is in one place
only, the reports, the events, the mail or the credits. The refinement needs
two more: one bill in the slot at a time (`SlotInv`, or a reader that gives up
would return two in a step), and a bill reported and asked about once
(`AskedInv`, or a second request would take an agreement back).

### InvoiceImport_proofs.tla

For any number of previews, lines, items, edits and applications on their way:
`Inductive`, `TypeCorrect`, `AppliesOnce` (`AppliedOnce`), `KeepsEdits`
(`NoEditLost`), `AppliesWhatIsShown` (`AppliedIsShown`) and
`PricesAreOfTheirUnits` (`PriceIsOfUnits`).

`AppliedOnce` is inductive with `AppliedIsMarked`: an application needs the state
"stored", and an invoice in the audit log has lost it for good. `NoEditLost` is
what an acceptable application does. `AppliedIsShown` rests on `ShownIsExpected`:
what a review proposed, what the page shows and what a confirmation carries are
all the changes their updates make to the preview's *snapshot*, which nothing
writes again; an acceptable application does to the catalogue what it does to
the snapshot. It also needs that a review is on its way only while the page shows
the matches, or its answer could change the table behind a confirmation.
`PriceIsOfUnits` rests on `PricesInOrder`: a request's version is at most its
row's, with the same units if it is equal, and the preview of a new upload is
nobody's yet, so that no earlier request can be taken for one of its own.

### ScannerCamera_proofs.tla

For any number of sessions, codes and pictures, and of runs of `startCamera` that
wait at once: `Inductive`, `TypeCorrect`, `CameraComesBack` (`CameraGivenBack`) and
`CapturesAreOfNow` (`NothingFromBefore`). A stream that runs is the page's
`cameraStream` and of the present session (`CameraInv`), so whatever stops the
streams stops it. The button is off only in the scan view, while the present
session has a run that waits or a loop (`LockInv`): every end of either gives it
back. The loop, and the latest picture while it is decoded, are of the present
work (`WorkInv`), and everything else that comes back late is recognised by its
number.

### Scanning_proofs.tla

For the three components of `Scanning`, with any number of codes, edits, lookups,
lost answers, keys, scans and restarts:

- devices: `ScansReported` (`ScansAreReported`). That scans of one life are reported
  at least the debounce time apart needs `ReportedInv` (no report of this life is
  later than `last_scan_time`); that only scans close behind another one are
  dropped needs `LastInv` (`last_scan_time` is the time of a scan that was let
  through, and not of one that was dropped). That a report is its scan, or the
  tail of it that the service has, rests on the types: the buffer is what was
  pressed since the last ENTER but for the first `missed` digits, and empty while
  the service is down.
- forms: `NothingThrownAway` (`WarnsUnlessRaced`), `CreatedOnce` (`UnbarcodedOnce`) and
  `LookupsKeepEdits` (`EditsKept`). A form that is not filled has a current lookup on
  its way, and its first lookup comes back once (`LookupInv`), so an answer never
  replaces edits. A busy form has one save, of what it holds unless something
  was typed since (`SaveInv`); so what is marked as saved is stored, or was typed
  during a save (`MarkedInv`), and what is neither stored nor typed during a save
  that succeeded is marked as dirty, which is what a retried lookup looks at. A product without a barcode is made once, and once
  more for each answer that was lost: it is known, or its answer is on its way
  (`CountInv`).
- camera: `PageGivesCameraBack` and `PageCapturesOfNow`, from `ScannerCamera_proofs`.
- `PartTypeCorrect`: the types of all three.

### ProductSave_proofs.tla

For any number of products, codes, spellings and threads, in either server:
`Inductive`, `TypeCorrect`, `NoneIsOrphaned` (`NoOrphan`), `PackStaysKept`
(`PackIsKept`) and `SavesAreOneStep` (`ImplementsCatalogue`). What a thread read before its transaction may be stale, but not in
what matters (`Reads`): rows are never deleted and a card's row stays one. So a
product that was matched is still there, and a save that makes a product finds
its code free, or is rolled back by the unique index, or takes a card's row.

A second invariant, `JInv`, is about what is read after a save: `SavedIsScanned`
(`SavedCanBeScanned`), `SpellingsAreOne` (`OneProduct`) and `AuditTells` (`AuditTellsRow`,
about the columns themselves: the whole price is the last entry's, and the unit
price is derived from it or was set by `update_info`).
Saves of spellings of one product that overlap in time, or that do not look at
other spellings, make those codes *loose*, and the properties leave loose codes
out; so a thread whose code is not loose was
alone with it (`OverlapsLoose`), and still knows what it read (`Knows`). That no
spelling gets a second product needs that two codes lead to one product, or are
about to, only if they are spellings of each other (`HoldersAlike`): then the
product matched by the lookup is the one every other spelling is sold as.

The refinement needs a third, `MInv`: at every step between its lookup and its
transaction, what a thread matched is *still* the product of the first spelling
that is sold, and if it matched none, still none is (`Matches`), as long as its code
is not loose. `MatchesKept` is the step of everybody else: a write to a spelling
of the code would be a save under way at the same time, which makes the code
loose, and whatever else happens leaves those rows alone. `FoundMatches` is about
`find_barcode_row` itself, which returns a card before it looks further. Then the reads
stutter, `Write` is the `Save`, `WriteUnbarcoded` the `SaveUncoded` (either is an `End`
when it is rolled back), `ReadBack` and `Restart` are an `End`, `CreateInfo` is an
`Info`, `AddUserCard` a `Register`, `ApplyInvoice` a `Reprice`. A lookup that misses a spelling (`FindExactRow`)
would make a second product: the mutant of `admin`.

### Admin_proofs.tla

For the components of `Admin`, with any number of rows, entries, submissions,
users, jobs and threads: `PartInductive`, `PartTypeCorrect`, `PartInOrder`
(`InOrder`), `PartAnswers` (`AnswersAreTrue`), `PartIsWhole` (`AllOrNothing`),
`PartAudit` (`AuditIsTrue`), `PartRefunds` (`RefundedWasBought`) and `PartVariants`
(`NoVariants`); the products' `PartSaved`, `PartOneProduct`, `PartPack` and `PartCatalogue`
(`ImplementsCatalogue`) follow from `ProductSave_proofs`, since a behaviour of `Admin` is one of `ProductSave` in which
other steps stutter.

- ledger (`LedgerInv`): the ids are `1..n` for some n, so an id that a handler read
  as the last one and increased is taken when another writer came between, and
  is the next one otherwise; an insert that does not clash therefore keeps the
  order. `Proceeds` says how far a submission is, and that an answered list has
  none of its entries left on the page, whatever was entered since, because
  entries are numbered once. `Counts` ties its counter to the table: as many rows
  carry its number as it counts, each for an entry that is neither open nor
  failed. `OffersBought` follows a refund from the purchase through the query, the
  offers and the entry made from them.
- users (`UsersInv`): `Working` says where a session is, and `Sees` what it still
  knows. A history flag, `quiet`, is lowered when another writer changes the table
  during the session; as long as it is up, nobody else has the name or the email about to
  be written, and who is not reported as missing has been reset. Hence
  `NoVariants` and `ResetIsReported`. `AuditTellsUser` is inductive with the types.

### Only model-checked

- Liveness (`EverySettles`, `Reconnects`, `SessionsEnd`, `NoBillStuck`): the
  proof system does not reason about fairness.

## Plan

Done: the relay and its calls, the kiosk, the deposit path, the invoice import,
products, ledger, users, scanner page and devices, each with proofs of its safety
and action properties. What could be added:

1. Pure algorithms with reference definitions: check digits and UPC-E, rounding
   of unit prices, the start of a debt, the rule for inactive users.
2. Refinements for the ledger and the users of the administration, as `Catalogue`
   is for its products.

## Not modelled

- *Both servers of the scanner on one database at once*: each of them is checked
  and proved alone, with its own restarts.
- *Malformed messages* at the relay (`validate_message`), which are logged and
  dropped.
- *Restock page*: one form over `update_info`, whose effect on the tables is in
  `ProductSave`.
- *Reports* (debts, volunteers, dashboard, popular items, transactions, logs) and
  *list pages*: queries over tables they do not change.
- *Web servers*: routing and static files; the upgrade they pass on is in `Relay`.
- *POS looks*: drawing, without state that another part reads.
- *Migrations*: run once, offline. The constraints they leave are used by every
  module that inserts.
- *Scripts*: the inserts of `add_users`, `add_transactions` and `refund` are those
  of the API; the rule for inactive users and the mailing are left out.
- *Arithmetic*: unit prices, taxes, check digits, the text of an invoice. They have
  no state; the modules name their results by what they were computed from.
- Hashing of passwords, the reader's wire protocol, image processing and logs.
  Vendored libraries are not part of the program.
