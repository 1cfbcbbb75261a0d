-------------------------------- MODULE Cash --------------------------------
(***************************************************************************)
(* The deposit path: the bill reader, the service that polls it            *)
(* (devices/cash/cash.js), and the kiosk page's answers (pos.js).  The     *)
(* reader and its wire protocol are not part of the repository; what is    *)
(* said of them here is what the comments and commands of cash.js rely on. *)
(*                                                                         *)
(* The service is one loop that awaits one thing at a time; the reader,    *)
(* the page and the network go on meanwhile.  Requests are those of        *)
(* Rpc.tla; a message sent without one may be lost.                        *)
(***************************************************************************)
EXTENDS Integers, Sequences

CONSTANTS
  Bill,        \* bills, each inserted at most once
  NoBill,
  MaxDisabled, \* bound: times the reader disables itself
  MaxRestarts  \* bound: restarts of the service

ASSUME CashAssumption ==
  /\ NoBill \notin Bill
  /\ MaxDisabled \in Nat
  /\ MaxRestarts \in Nat

VARIABLES
  place,       \* place[b]: where bill b is
  enabled,     \* the reader takes bills
  reports,     \* events the reader will answer the next POLL with
  pc,          \* what the loop does next, or awaits
  evs,         \* events of the last POLL not handled yet
  bill,        \* the bill of the READ_NOTE being handled
  preflight,   \* preflight[b]: the deposit_preflight request for b
  mail,        \* bills whose deposit message is on its way to the page
  session,     \* somebody is signed in at the kiosk
  credits,     \* credits[b]: deposits recorded for bill b
  orphaned,    \* bills that were in the reader when the service restarted
  disabled, restarts

readerVars == <<place, enabled, reports>>
loopVars   == <<pc, evs, bill>>
pageVars   == <<mail, session, credits>>
boundVars  == <<disabled, restarts>>
vars == <<readerVars, loopVars, preflight, pageVars, orphaned, boundVars>>

\* In the slot: read, reported to the service, held, on its way to the box.
Slot == {"read", "escrow", "held", "stacking"}

Disabled == [name |-> "DISABLED", bill |-> NoBill]
ReadNote(b) == [name |-> "READ_NOTE", bill |-> b]      \* channel > 0
CreditNote(b) == [name |-> "CREDIT_NOTE", bill |-> b]
Report == [name : {"READ_NOTE", "CREDIT_NOTE"}, bill : Bill]
Event == {Disabled} \cup Report

TypeOK ==
  /\ place \in [Bill -> Slot \cup {"hand", "returned", "box"}]
  /\ enabled \in BOOLEAN
  /\ reports \in Seq(Report)
  /\ pc \in {"start", "poll", "events", "enable", "hold", "request", "wait", "reject"}
  /\ evs \in Seq(Event)
  /\ bill \in Bill \cup {NoBill}
  /\ preflight \in [Bill -> {"none", "sent", "yes", "no"}]
  /\ mail \subseteq Bill
  /\ session \in BOOLEAN
  /\ credits \in [Bill -> Nat]
  /\ orphaned \subseteq Bill
  /\ disabled \in Nat
  /\ restarts \in Nat

Init ==
  /\ place = [b \in Bill |-> "hand"]
  /\ enabled = FALSE
  /\ reports = <<>>
  /\ pc = "start"
  /\ evs = <<>>
  /\ bill = NoBill
  /\ preflight = [b \in Bill |-> "none"]
  /\ mail = {}
  /\ session = FALSE
  /\ credits = [b \in Bill |-> 0]
  /\ orphaned = {}
  /\ disabled = 0
  /\ restarts = 0

InSlot == {b \in Bill : place[b] \in Slot}

-----------------------------------------------------------------------------
(* The reader *)

\* A bill goes in and its value is read.
Insert(b) ==
  /\ enabled
  /\ place[b] = "hand"
  /\ InSlot = {}
  /\ place' = [place EXCEPT ![b] = "read"]
  /\ reports' = Append(reports, ReadNote(b))
  /\ UNCHANGED <<enabled, loopVars, preflight, pageVars, orphaned, boundVars>>

\* The bill reaches the box, or fails to and comes back.
Stack(b) ==
  /\ place[b] = "stacking"
  /\ \/ /\ place' = [place EXCEPT ![b] = "box"]
        /\ reports' = Append(reports, CreditNote(b))
     \/ /\ place' = [place EXCEPT ![b] = "returned"]
        /\ UNCHANGED reports
  /\ UNCHANGED <<enabled, loopVars, preflight, pageVars, orphaned, boundVars>>

\* The reader disables itself, as when a bill was held for ten seconds; a bill
\* in the slot comes back unless it is on its way to the box.
Disable ==
  /\ enabled
  /\ disabled < MaxDisabled
  /\ disabled' = disabled + 1
  /\ enabled' = FALSE
  /\ place' = [b \in Bill |-> IF place[b] \in Slot \ {"stacking"} THEN "returned"
                              ELSE place[b]]
  /\ UNCHANGED <<reports, loopVars, preflight, pageVars, orphaned, restarts>>

-----------------------------------------------------------------------------
(* The service *)

After(s) == IF s = <<>> THEN "poll" ELSE "events"

\* OPEN: the set-up commands, the last of which enables the reader.
Open ==
  /\ pc = "start"
  /\ pc' = "poll"
  /\ enabled' = TRUE
  /\ UNCHANGED <<place, reports, evs, bill, preflight, pageVars, orphaned, boundVars>>

\* POLL collects the events, among them DISABLED for as long as the reader is;
\* in what order the protocol leaves open.  Of a bill that was reported before,
\* the reader takes the POLL for the permission to go on.
Poll ==
  /\ pc = "poll"
  /\ evs' \in IF enabled THEN {reports}
               ELSE {Append(reports, Disabled), <<Disabled>> \o reports}
  /\ reports' = <<>>
  /\ pc' = After(evs')
  /\ place' = [b \in Bill |-> CASE place[b] = "read" -> "escrow"
                                [] place[b] \in {"escrow", "held"} -> "stacking"
                                [] OTHER -> place[b]]
  /\ UNCHANGED <<enabled, bill, preflight, pageVars, orphaned, boundVars>>

NextEvent(name) == pc = "events" /\ Head(evs).name = name

\* DISABLED: the events queued behind it are ignored.
OnDisabled ==
  /\ NextEvent("DISABLED")
  /\ evs' = <<>>
  /\ pc' = "enable"
  /\ UNCHANGED <<readerVars, bill, preflight, pageVars, orphaned, boundVars>>

Enable ==
  /\ pc = "enable"
  /\ enabled' = TRUE
  /\ pc' = "poll"
  /\ UNCHANGED <<place, reports, evs, bill, preflight, pageVars, orphaned, boundVars>>

OnReadNote ==
  /\ NextEvent("READ_NOTE")
  /\ bill' = Head(evs).bill
  /\ evs' = Tail(evs)
  /\ pc' = "hold"
  /\ UNCHANGED <<readerVars, preflight, pageVars, orphaned, boundVars>>

Hold ==
  /\ pc = "hold"
  /\ place' = [place EXCEPT ![bill] = IF @ = "escrow" THEN "held" ELSE @]
  /\ pc' = "request"
  /\ UNCHANGED <<enabled, reports, evs, bill, preflight, pageVars, orphaned, boundVars>>

\* The deposit_preflight request; on a socket that is connecting it throws.
Request ==
  /\ pc = "request"
  /\ \/ /\ preflight' = [preflight EXCEPT ![bill] = "sent"]
        /\ pc' = "wait"
     \/ /\ pc' = "reject"
        /\ UNCHANGED preflight
  /\ UNCHANGED <<readerVars, evs, bill, pageVars, orphaned, boundVars>>

\* Mutant of Passed: the deposit is sent when the page agrees.
PassedDeposits ==
  /\ pc = "wait"
  /\ preflight[bill] = "yes"
  /\ pc' = After(evs)
  /\ mail' = mail \cup {bill}
  /\ UNCHANGED <<readerVars, evs, bill, preflight, session, credits, orphaned, boundVars>>

\* The page agreed: on with the loop, whose next POLL accepts the bill.
Passed ==
  /\ pc = "wait"
  /\ preflight[bill] = "yes"
  /\ pc' = After(evs)
  /\ UNCHANGED <<readerVars, evs, bill, preflight, pageVars, orphaned, boundVars>>

\* Mutants of Refused: the bill is not given back; the request never times out.
RefusedKeeps ==
  /\ pc = "wait"
  /\ pc' = After(evs)
  /\ UNCHANGED <<readerVars, evs, bill, preflight, pageVars, orphaned, boundVars>>
RefusedByAnswer ==
  /\ pc = "wait"
  /\ preflight[bill] = "no"
  /\ pc' = "reject"
  /\ UNCHANGED <<readerVars, evs, bill, preflight, pageVars, orphaned, boundVars>>

\* The page refused, or the request timed out, whatever comes later.
Refused ==
  /\ pc = "wait"
  /\ pc' = "reject"
  /\ UNCHANGED <<readerVars, evs, bill, preflight, pageVars, orphaned, boundVars>>

\* REJECT_BANKNOTE.
Reject ==
  /\ pc = "reject"
  /\ place' = [place EXCEPT ![bill] = IF @ \in {"escrow", "held"} THEN "returned" ELSE @]
  /\ pc' = After(evs)
  /\ UNCHANGED <<enabled, reports, evs, bill, preflight, pageVars, orphaned, boundVars>>

\* CREDIT_NOTE: the deposit message is sent once, and is dropped if the socket
\* is closed.
OnCreditNote ==
  /\ NextEvent("CREDIT_NOTE")
  /\ mail' = mail \cup {Head(evs).bill} \/ UNCHANGED mail
  /\ evs' = Tail(evs)
  /\ pc' = After(Tail(evs))
  /\ UNCHANGED <<readerVars, bill, preflight, session, credits, orphaned, boundVars>>

\* The process ends (a throw in the loop ends it too, as the send of a deposit
\* does while connecting) and is started again.
Restart ==
  /\ restarts < MaxRestarts
  /\ restarts' = restarts + 1
  /\ pc' = "start"
  /\ evs' = <<>>
  /\ bill' = NoBill
  /\ orphaned' = orphaned \cup InSlot
  /\ UNCHANGED <<readerVars, preflight, pageVars, disabled>>

-----------------------------------------------------------------------------
(* The kiosk page *)

\* Users come and go; the page itself is Pos.tla.
SignInOrOut ==
  /\ session' = ~ session
  /\ UNCHANGED <<readerVars, loopVars, preflight, mail, credits, orphaned, boundVars>>

\* deposit_preflight: yes in a session, else an error.
DepositPreflight(b) ==
  /\ preflight[b] = "sent"
  /\ preflight' = [preflight EXCEPT ![b] = IF session THEN "yes" ELSE "no"]
  /\ UNCHANGED <<readerVars, loopVars, pageVars, orphaned, boundVars>>

\* Mutant of Deposit: the message is delivered again.
DepositAgain(b) ==
  /\ b \in mail
  /\ session
  /\ credits[b] < 2
  /\ credits' = [credits EXCEPT ![b] = @ + 1]
  /\ UNCHANGED <<readerVars, loopVars, preflight, mail, session, orphaned, boundVars>>

\* deposit: recorded for whoever is signed in; with nobody signed in, or when
\* the call to the inventory service fails, the bill is credited to no one.
Deposit(b) ==
  /\ b \in mail
  /\ mail' = mail \ {b}
  /\ \/ session /\ credits' = [credits EXCEPT ![b] = @ + 1]
     \/ UNCHANGED credits
  /\ UNCHANGED <<readerVars, loopVars, preflight, session, orphaned, boundVars>>

-----------------------------------------------------------------------------
LoopStep ==
  \/ Open \/ Poll \/ OnDisabled \/ Enable \/ OnReadNote \/ Hold \/ Request
  \/ Passed \/ Refused \/ Reject \/ OnCreditNote

Next ==
  \/ LoopStep
  \/ Restart
  \/ Disable
  \/ SignInOrOut
  \/ \E b \in Bill : Insert(b) \/ Stack(b) \/ DepositPreflight(b) \/ Deposit(b)

Spec == Init /\ [][Next]_vars

\* The loop and its timer go on, and the reader brings a bill to one end.
Fairness == WF_vars(LoopStep) /\ \A b \in Bill : WF_vars(Stack(b))
LiveSpec == Spec /\ Fairness

-----------------------------------------------------------------------------
(* Properties *)

\* "We shouldn't take money until the POS has recognized it": a bill the
\* reader takes is one whose own preflight the page answered with yes, though
\* answers are late, the reader gives up and events queue; but for a bill that
\* was in the reader when the service restarted.
TakenWithConsent ==
  \A b \in Bill : place[b] \in {"stacking", "box"} =>
    preflight[b] = "yes" \/ b \in orphaned

\* What makes it inductive.  The loop handles events only between two POLLs,
\* so a bill it was told of is where that POLL left it or back with the user.
Handling == {"hold", "request", "wait", "reject"}
Has(s, e) == \E n \in DOMAIN s : s[n] = e

LoopInv ==
  /\ pc \in {"start", "poll", "enable"} => evs = <<>>
  /\ pc = "events" => evs # <<>>
  /\ pc \in Handling => bill \in Bill /\ place[bill] \in {"escrow", "held", "returned"}
  /\ Has(evs, Disabled) => ~ enabled
  /\ ~ enabled => \A b \in Bill : place[b] \notin {"read", "escrow", "held"}

\* A READ_NOTE is on its way for a bill that was read and nothing worse.
NoteInv == \A b \in Bill :
  /\ Has(reports, ReadNote(b)) => place[b] \in {"read", "returned"}
  /\ Has(evs, ReadNote(b)) => place[b] \in {"escrow", "held", "returned"}

\* A bill without consent is not on its way to the box, and before the next
\* POLL could send it there the loop will have asked about it.
ConsentInv == \A b \in Bill \ orphaned : preflight[b] # "yes" =>
  /\ place[b] \notin {"stacking", "box"}
  /\ place[b] = "read" => Has(reports, ReadNote(b))
  /\ place[b] \in {"escrow", "held"} =>
       Has(evs, ReadNote(b)) \/ (pc \in Handling /\ bill = b)

IInv == TypeOK /\ LoopInv /\ NoteInv /\ ConsentInv

\* A credit has a bill in the box behind it, and a bill one credit at most.
NoFreeMoney ==
  \A b \in Bill : credits[b] <= 1 /\ (b \in mail \/ credits[b] = 1 => place[b] = "box")

\* What makes it inductive: a bill in the box is a note among the reports, or
\* one among the events, or a message, or a credit, or lost on the way.
Once(s, e) == \A m, n \in DOMAIN s : s[m] = e /\ s[n] = e => m = n

MoneyInv == \A b \in Bill :
  /\ Once(reports, CreditNote(b)) /\ Once(evs, CreditNote(b))
  /\ credits[b] <= 1
  /\ Has(reports, CreditNote(b)) =>
       place[b] = "box" /\ ~ Has(evs, CreditNote(b)) /\ b \notin mail /\ credits[b] = 0
  /\ Has(evs, CreditNote(b)) => place[b] = "box" /\ b \notin mail /\ credits[b] = 0
  /\ b \in mail => place[b] = "box" /\ credits[b] = 0
  /\ credits[b] = 1 => place[b] = "box"

\* A bill is reported once, and asked about once, after its report.
Asking == {"hold", "request"}

AskedInv == \A b \in Bill :
  /\ Once(reports, ReadNote(b)) /\ Once(evs, ReadNote(b))
  /\ Has(reports, ReadNote(b)) => ~ Has(evs, ReadNote(b))
  /\ Has(reports, ReadNote(b)) \/ Has(evs, ReadNote(b)) =>
       preflight[b] = "none" /\ ~ (pc \in Asking /\ bill = b)
  /\ pc \in Asking /\ bill = b => preflight[b] = "none"

\* The slot holds one bill, and only a bill that went in is asked about.
SlotInv ==
  /\ \A a, b \in InSlot : a = b
  /\ \A b \in Bill : preflight[b] # "none" => place[b] # "hand"

\* All in all the path implements the promise of Escrow.tla.
Promise == INSTANCE Escrow WITH
  where <- [b \in Bill |-> IF place[b] \in Slot THEN "slot" ELSE place[b]],
  agreed <- {b \in Bill : preflight[b] = "yes"}
ImplementsEscrow == Promise!Spec

\* No bill stays in the reader: a refusal, a timeout, a lost request, a reader
\* that disabled itself and a restart all end with the bill back or in the box.
NoBillStuck == \A b \in Bill : place[b] \in Slot ~> place[b] \in {"returned", "box"}
=============================================================================
