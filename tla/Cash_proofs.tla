---------------------------- MODULE Cash_proofs ----------------------------
(***************************************************************************)
(* Theorems about Cash for any set of bills, any number of times the       *)
(* reader disables itself and any number of restarts.                      *)
(***************************************************************************)
EXTENDS Cash, SequenceTheorems, TLAPS

-----------------------------------------------------------------------------
(* Events in a queue *)

LEMMA HasEmpty == ASSUME NEW e PROVE ~ Has(<<>>, e)
  BY DEF Has

LEMMA HasAppend ==
  ASSUME NEW S, NEW s \in Seq(S), NEW x \in S, NEW e
  PROVE  Has(Append(s, x), e) <=> Has(s, e) \/ x = e
<1>1. /\ Len(Append(s, x)) = Len(s) + 1
      /\ \A n \in 1 .. Len(s) : Append(s, x)[n] = s[n]
      /\ Append(s, x)[Len(s) + 1] = x
      /\ DOMAIN Append(s, x) = 1 .. Len(s) + 1
      /\ DOMAIN s = 1 .. Len(s)
      /\ Len(s) \in Nat
  BY AppendProperties
<1>2. QED  BY <1>1 DEF Has

LEMMA HasCons ==
  ASSUME NEW S, NEW s \in Seq(S), NEW x \in S, NEW e
  PROVE  Has(<<x>> \o s, e) => Has(s, e) \/ x = e
<1>1. /\ \A n \in 1 .. 1 + Len(s) :
           (<<x>> \o s)[n] = IF n = 1 THEN x ELSE s[n - 1]
      /\ DOMAIN (<<x>> \o s) = 1 .. 1 + Len(s)
      /\ DOMAIN s = 1 .. Len(s)
      /\ Len(s) \in Nat
  BY ConcatProperties
<1>2. QED  BY <1>1 DEF Has

LEMMA ConsHas ==
  ASSUME NEW S, NEW s \in Seq(S), NEW x \in S, NEW e, Has(s, e)
  PROVE  Has(<<x>> \o s, e)
<1>1. /\ \A n \in 2 .. 1 + Len(s) : (<<x>> \o s)[n] = s[n - 1]
      /\ DOMAIN (<<x>> \o s) = 1 .. 1 + Len(s)
      /\ DOMAIN s = 1 .. Len(s)
      /\ Len(s) \in Nat
  BY ConcatProperties
<1>2. PICK n \in 1 .. Len(s) : s[n] = e
  BY <1>1 DEF Has
<1>3. n + 1 \in 2 .. 1 + Len(s) /\ (<<x>> \o s)[n + 1] = e
  BY <1>1, <1>2
<1>4. QED  BY <1>1, <1>3 DEF Has

LEMMA HasTail ==
  ASSUME NEW S, NEW s \in Seq(S), s # <<>>, NEW e
  PROVE  Has(s, e) <=> Head(s) = e \/ Has(Tail(s), e)
<1>1. /\ DOMAIN s = 1 .. Len(s) /\ Len(s) \in Nat /\ Len(s) >= 1
      /\ DOMAIN Tail(s) = 1 .. Len(s) - 1
      /\ \A n \in 1 .. Len(s) - 1 : Tail(s)[n] = s[n + 1]
      /\ Head(s) = s[1]
  BY HeadTailProperties, EmptySeq
<1>2. ASSUME Has(s, e)  PROVE Head(s) = e \/ Has(Tail(s), e)
  <2>1. PICK n \in 1 .. Len(s) : s[n] = e
    BY <1>1, <1>2 DEF Has
  <2>2. CASE n = 1  BY <1>1, <2>1, <2>2
  <2>3. CASE n # 1
    <3>1. n - 1 \in 1 .. Len(s) - 1 /\ Tail(s)[n - 1] = e
      BY <1>1, <2>1, <2>3
    <3>2. QED  BY <1>1, <3>1 DEF Has
  <2>4. QED  BY <2>2, <2>3
<1>3. ASSUME Head(s) = e \/ Has(Tail(s), e)  PROVE Has(s, e)
  BY <1>1, <1>3 DEF Has
<1>4. QED  BY <1>2, <1>3

LEMMA EventTypes ==
  /\ Report \subseteq Event
  /\ Disabled \in Event
  /\ \A b \in Bill : ReadNote(b) \in Report /\ CreditNote(b) \in Report
  /\ \A a, b \in Bill : ReadNote(a) # CreditNote(b) /\ (ReadNote(a) = ReadNote(b) => a = b)
  /\ \A r \in Report : r # Disabled
  BY DEF Report, Event, Disabled, ReadNote, CreditNote

\* An event at the head of evs is what its name says.
LEMMA HeadEvent ==
  ASSUME TypeOK, LoopInv, NEW n, NextEvent(n)
  PROVE  /\ evs # <<>> /\ Head(evs) \in Event /\ Tail(evs) \in Seq(Event)
         /\ n = "READ_NOTE" => Head(evs).bill \in Bill /\ Head(evs) = ReadNote(Head(evs).bill)
         /\ n = "CREDIT_NOTE" => Head(evs).bill \in Bill /\ Head(evs) = CreditNote(Head(evs).bill)
<1>1. evs # <<>> /\ Head(evs).name = n
  BY DEF NextEvent, LoopInv
<1>2. Head(evs) \in Event /\ Tail(evs) \in Seq(Event)
  BY <1>1 DEF TypeOK
<1>3. QED  BY <1>1, <1>2 DEF Event, Report, Disabled, ReadNote, CreditNote

-----------------------------------------------------------------------------
(* The inductive invariant *)

LEMMA InitIInv == Init => IInv
<1> SUFFICES ASSUME Init PROVE IInv  OBVIOUS
<1>1. TypeOK
  <2>1. /\ place \in [Bill -> Slot \cup {"hand", "returned", "box"}]
        /\ preflight \in [Bill -> {"none", "sent", "yes", "no"}]
        /\ credits \in [Bill -> Nat]
    BY DEF Init
  <2>2. reports \in Seq(Report) /\ evs \in Seq(Event)
    BY DEF Init
  <2>3. QED  BY <2>1, <2>2 DEF Init, TypeOK
<1>2. LoopInv  BY HasEmpty DEF Init, LoopInv, Handling
<1>3. NoteInv  BY HasEmpty DEF Init, NoteInv
<1>4. ConsentInv  BY DEF Init, ConsentInv
<1>5. QED  BY <1>1, <1>2, <1>3, <1>4 DEF IInv

\* The reader's steps.

LEMMA InsertIInv == ASSUME IInv, NEW b \in Bill, Insert(b) PROVE IInv'
<1> USE DEF IInv
<1>1. TypeOK'
  BY EventTypes DEF TypeOK, Insert, Slot, loopVars, pageVars, boundVars
<1>2. \A e : Has(reports', e) <=> Has(reports, e) \/ ReadNote(b) = e
  <2>1. ReadNote(b) \in Report /\ reports \in Seq(Report)
    BY EventTypes DEF TypeOK
  <2>2. QED  BY <2>1, HasAppend DEF Insert
<1>3. LoopInv'
  BY DEF TypeOK, LoopInv, Insert, Handling, loopVars, Has
<1>4. NoteInv'
  BY <1>2, EventTypes DEF TypeOK, NoteInv, Insert, loopVars, Has
<1>5. ConsentInv'
  <2>1. UNCHANGED <<preflight, orphaned, evs, pc, bill>>
    BY DEF Insert, loopVars
  <2>2. \A a \in Bill : place'[a] = IF a = b THEN "read" ELSE place[a]
    BY DEF TypeOK, Insert
  <2>3. \A a : Has(evs', a) <=> Has(evs, a)
    BY <2>1
  <2>4. QED  BY <1>2, <2>1, <2>2, <2>3 DEF ConsentInv, Handling
<1>6. QED  BY <1>1, <1>3, <1>4, <1>5

LEMMA StackIInv == ASSUME IInv, NEW b \in Bill, Stack(b) PROVE IInv'
<1> USE DEF IInv
<1>a. CreditNote(b) \in Report /\ reports \in Seq(Report)
  BY EventTypes DEF TypeOK
<1>1. TypeOK'
  <2>1. reports' \in Seq(Report)
    BY <1>a DEF Stack
  <2>2. place' \in [Bill -> Slot \cup {"hand", "returned", "box"}]
    BY DEF TypeOK, Stack
  <2>3. QED  BY <2>1, <2>2 DEF TypeOK, Stack, loopVars, pageVars, boundVars
<1>2. \A a \in Bill : Has(reports', ReadNote(a)) <=> Has(reports, ReadNote(a))
  <2>1. CASE reports' = Append(reports, CreditNote(b))
    <3>1. \A e : Has(reports', e) <=> Has(reports, e) \/ CreditNote(b) = e
      BY <1>a, <2>1, HasAppend
    <3>2. QED  BY <3>1, EventTypes
  <2>2. CASE UNCHANGED reports
    BY <2>2
  <2>3. QED  BY <2>1, <2>2 DEF Stack
<1>3. LoopInv'
  BY DEF TypeOK, LoopInv, Stack, Handling, loopVars, Has
<1>4. NoteInv'
  BY <1>2 DEF TypeOK, NoteInv, Stack, loopVars, Has
<1>5. ConsentInv'
  BY <1>2, SMTT(30) DEF TypeOK, ConsentInv, Stack, Handling, loopVars, Has
<1>6. QED  BY <1>1, <1>3, <1>4, <1>5

LEMMA DisableIInv == ASSUME IInv, Disable PROVE IInv'
<1> USE DEF IInv
<1>1. TypeOK'
  <2>1. place' \in [Bill -> Slot \cup {"hand", "returned", "box"}]
    BY DEF TypeOK, Disable
  <2>2. disabled' \in Nat
    BY DEF TypeOK, Disable
  <2>3. QED  BY <2>1, <2>2 DEF TypeOK, Disable, loopVars, pageVars
<1>2. LoopInv'
  BY DEF TypeOK, LoopInv, Disable, Slot, Handling, loopVars, Has
<1>3. NoteInv'
  BY DEF TypeOK, NoteInv, Disable, Slot, loopVars, Has
<1>4. ConsentInv'
  BY DEF TypeOK, ConsentInv, Disable, Slot, Handling, loopVars, Has
<1>5. QED  BY <1>1, <1>2, <1>3, <1>4

\* The steps of the loop.

LEMMA OpenIInv == ASSUME IInv, Open PROVE IInv'
<1> USE DEF IInv
<1>1. TypeOK'
  BY DEF TypeOK, Open, pageVars, boundVars
<1>2. LoopInv'
  BY HasEmpty DEF TypeOK, LoopInv, Open, Handling
<1>3. NoteInv'
  BY DEF NoteInv, Open, Has
<1>4. ConsentInv'
  BY DEF ConsentInv, Open, Handling, Has
<1>5. QED  BY <1>1, <1>2, <1>3, <1>4

LEMMA PollIInv == ASSUME IInv, Poll PROVE IInv'
<1> USE DEF IInv
<1>1. evs' \in Seq(Event)
  <2>1. reports \in Seq(Event) /\ Disabled \in Event
    BY EventTypes DEF TypeOK
  <2>2. Append(reports, Disabled) \in Seq(Event) /\ <<Disabled>> \o reports \in Seq(Event)
    BY <2>1
  <2>3. QED  BY <2>1, <2>2 DEF Poll
<1>2. TypeOK'
  BY <1>1 DEF TypeOK, Poll, After, Slot, pageVars, boundVars
<1>3. /\ \A r \in Report : Has(evs', r) <=> Has(reports, r)
      /\ enabled => ~ Has(evs', Disabled)
  <2>1. reports \in Seq(Event) /\ Disabled \in Event
    BY EventTypes DEF TypeOK
  <2>2. CASE enabled
    <3>1. ~ Has(reports, Disabled)
      BY EventTypes DEF TypeOK, Has
    <3>2. QED  BY <2>2, <3>1 DEF Poll
  <2>3. CASE ~ enabled /\ evs' = Append(reports, Disabled)
    BY <2>1, <2>3, HasAppend, EventTypes
  <2>4. CASE ~ enabled /\ evs' = <<Disabled>> \o reports
    BY <2>1, <2>4, HasCons, ConsHas, EventTypes
  <2>5. QED  BY <2>2, <2>3, <2>4 DEF Poll
<1>4. evs = <<>> /\ pc = "poll"
  BY DEF Poll, LoopInv
<1>5. LoopInv'
  BY <1>3 DEF TypeOK, LoopInv, Poll, After, Handling, pageVars
<1>6. NoteInv'
  <2>1. \A a \in Bill : ~ Has(reports', ReadNote(a))
    BY HasEmpty DEF Poll
  <2>2. QED  BY <1>3, <2>1, EventTypes DEF TypeOK, NoteInv, Poll
<1>7. ConsentInv'
  <2>1. \A e : ~ Has(evs, e)
    BY <1>4, HasEmpty
  <2>2. QED
    BY <1>3, <1>4, <2>1, EventTypes DEF TypeOK, ConsentInv, Poll, Handling
<1>8. QED  BY <1>2, <1>5, <1>6, <1>7

LEMMA OnDisabledIInv == ASSUME IInv, OnDisabled PROVE IInv'
<1> USE DEF IInv
<1>1. TypeOK'
  BY DEF TypeOK, OnDisabled, readerVars, pageVars, boundVars
<1>2. ~ enabled
  <2>1. evs # <<>> /\ Head(evs).name = "DISABLED" /\ evs \in Seq(Event)
    BY DEF TypeOK, OnDisabled, NextEvent, LoopInv
  <2>2. Head(evs) = Disabled
    BY <2>1 DEF Event, Report, Disabled
  <2>3. QED  BY <2>1, <2>2, HasTail DEF LoopInv
<1>3. LoopInv'
  BY HasEmpty DEF LoopInv, OnDisabled, Handling, readerVars
<1>4. NoteInv'
  BY HasEmpty DEF NoteInv, OnDisabled, readerVars, Has
<1>5. ConsentInv'
  BY <1>2 DEF ConsentInv, LoopInv, OnDisabled, readerVars, Has
<1>6. QED  BY <1>1, <1>3, <1>4, <1>5

LEMMA EnableIInv == ASSUME IInv, Enable PROVE IInv'
<1> USE DEF IInv
<1>1. TypeOK'
  BY DEF TypeOK, Enable, pageVars, boundVars
<1>2. LoopInv'
  BY HasEmpty DEF TypeOK, LoopInv, Enable, Handling
<1>3. NoteInv'
  BY DEF NoteInv, Enable, Has
<1>4. ConsentInv'
  BY DEF ConsentInv, Enable, Handling, Has
<1>5. QED  BY <1>1, <1>2, <1>3, <1>4

LEMMA OnReadNoteIInv == ASSUME IInv, OnReadNote PROVE IInv'
<1> USE DEF IInv
<1> DEFINE b == Head(evs).bill
<1>1. /\ evs # <<>> /\ evs \in Seq(Event) /\ Tail(evs) \in Seq(Event)
      /\ b \in Bill /\ Head(evs) = ReadNote(b)
  BY HeadEvent DEF OnReadNote, TypeOK
<1>2. \A e : Has(evs, e) <=> Head(evs) = e \/ Has(Tail(evs), e)
  BY <1>1, HasTail
<1>3. place[b] \in {"escrow", "held", "returned"}
  BY <1>1, <1>2 DEF NoteInv
<1>4. TypeOK'
  BY <1>1 DEF TypeOK, OnReadNote, readerVars, pageVars, boundVars
<1>5. LoopInv'
  BY <1>1, <1>2, <1>3 DEF LoopInv, OnReadNote, Handling, readerVars
<1>6. NoteInv'
  BY <1>2 DEF NoteInv, OnReadNote, readerVars, Has
<1>7. ConsentInv'
  <2>1. SUFFICES ASSUME NEW a \in Bill \ orphaned, preflight[a] # "yes"
                 PROVE  /\ place[a] \notin {"stacking", "box"}
                        /\ place[a] = "read" => Has(reports, ReadNote(a))
                        /\ place[a] \in {"escrow", "held"} =>
                             Has(Tail(evs), ReadNote(a)) \/ b = a
    BY DEF ConsentInv, OnReadNote, Handling, readerVars, Has
  <2>2. ReadNote(a) = ReadNote(b) => a = b
    BY <1>1, EventTypes
  <2>3. pc \notin Handling
    BY DEF OnReadNote, NextEvent, Handling
  <2>4. QED  BY <1>1, <1>2, <2>2, <2>3, <2>1 DEF ConsentInv
<1>8. QED  BY <1>4, <1>5, <1>6, <1>7

LEMMA HoldIInv == ASSUME IInv, Hold PROVE IInv'
<1> USE DEF IInv
<1>1. TypeOK'
  BY DEF TypeOK, Hold, Slot, pageVars, boundVars
<1>2. LoopInv'
  BY DEF TypeOK, LoopInv, Hold, Handling, Has
<1>3. NoteInv'
  BY DEF TypeOK, NoteInv, Hold, Has
<1>4. ConsentInv'
  BY DEF TypeOK, ConsentInv, LoopInv, Hold, Handling, Has
<1>5. QED  BY <1>1, <1>2, <1>3, <1>4

LEMMA RequestIInv == ASSUME IInv, Request PROVE IInv'
<1> USE DEF IInv
<1>1. bill \in Bill /\ place[bill] \in {"escrow", "held", "returned"}
  BY DEF LoopInv, Request, Handling
<1>2. TypeOK'
  BY <1>1 DEF TypeOK, Request, readerVars, pageVars, boundVars
<1>3. LoopInv'
  BY DEF LoopInv, Request, Handling, readerVars, Has
<1>4. NoteInv'
  BY DEF NoteInv, Request, readerVars, Has
<1>5. ConsentInv'
  BY <1>1 DEF TypeOK, ConsentInv, Request, Handling, readerVars, Has
<1>6. QED  BY <1>2, <1>3, <1>4, <1>5

LEMMA PassedIInv == ASSUME IInv, Passed PROVE IInv'
<1> USE DEF IInv
<1>1. TypeOK'
  BY DEF TypeOK, Passed, After, readerVars, pageVars, boundVars
<1>2. LoopInv'
  BY DEF LoopInv, Passed, After, Handling, readerVars, Has
<1>3. NoteInv'
  BY DEF NoteInv, Passed, readerVars, Has
<1>4. ConsentInv'
  BY DEF ConsentInv, Passed, readerVars, Has
<1>5. QED  BY <1>1, <1>2, <1>3, <1>4

LEMMA RefusedIInv == ASSUME IInv, Refused PROVE IInv'
<1> USE DEF IInv
<1>1. TypeOK'
  BY DEF TypeOK, Refused, readerVars, pageVars, boundVars
<1>2. LoopInv'
  BY DEF LoopInv, Refused, Handling, readerVars, Has
<1>3. NoteInv'
  BY DEF NoteInv, Refused, readerVars, Has
<1>4. ConsentInv'
  BY DEF ConsentInv, Refused, Handling, readerVars, Has
<1>5. QED  BY <1>1, <1>2, <1>3, <1>4

LEMMA RejectIInv == ASSUME IInv, Reject PROVE IInv'
<1> USE DEF IInv
<1>1. TypeOK'
  BY DEF TypeOK, Reject, After, Slot, pageVars, boundVars
<1>2. LoopInv'
  BY DEF TypeOK, LoopInv, Reject, After, Handling, Has
<1>3. NoteInv'
  BY DEF TypeOK, NoteInv, Reject, Has
<1>4. ConsentInv'
  BY DEF TypeOK, ConsentInv, LoopInv, Reject, Handling, Has
<1>5. QED  BY <1>1, <1>2, <1>3, <1>4

LEMMA OnCreditNoteIInv == ASSUME IInv, OnCreditNote PROVE IInv'
<1> USE DEF IInv
<1> DEFINE b == Head(evs).bill
<1>1. /\ evs # <<>> /\ evs \in Seq(Event) /\ Tail(evs) \in Seq(Event)
      /\ b \in Bill /\ Head(evs) = CreditNote(b)
  BY HeadEvent DEF OnCreditNote, TypeOK
<1>2. \A e : Has(evs, e) <=> Head(evs) = e \/ Has(Tail(evs), e)
  BY <1>1, HasTail
<1>3. \A a \in Bill : Has(Tail(evs), ReadNote(a)) <=> Has(evs, ReadNote(a))
  BY <1>1, <1>2, EventTypes
<1>4. TypeOK'
  BY <1>1 DEF TypeOK, OnCreditNote, After, readerVars, boundVars
<1>5. LoopInv'
  BY <1>2 DEF LoopInv, OnCreditNote, After, Handling, readerVars
<1>6. NoteInv'
  BY <1>3 DEF NoteInv, OnCreditNote, readerVars, Has
<1>7. ConsentInv'
  <2>1. pc \notin Handling
    BY DEF OnCreditNote, NextEvent, Handling
  <2>2. QED  BY <1>3, <2>1 DEF ConsentInv, OnCreditNote, readerVars, Has
<1>8. QED  BY <1>4, <1>5, <1>6, <1>7

LEMMA RestartIInv == ASSUME IInv, Restart PROVE IInv'
<1> USE DEF IInv
<1>1. TypeOK'
  BY DEF TypeOK, Restart, InSlot, readerVars, pageVars
<1>2. LoopInv'
  BY HasEmpty DEF LoopInv, Restart, Handling, readerVars
<1>3. NoteInv'
  BY HasEmpty DEF NoteInv, Restart, readerVars, Has
<1>4. ConsentInv'
  BY DEF ConsentInv, Restart, InSlot, Slot, readerVars, Has
<1>5. QED  BY <1>1, <1>2, <1>3, <1>4

\* The page's steps: no place, no event and no state of the loop changes.

LEMMA PageIInv ==
  ASSUME IInv, SignInOrOut \/ \E b \in Bill : DepositPreflight(b) \/ Deposit(b)
  PROVE  IInv'
<1> USE DEF IInv
<1>1. UNCHANGED <<readerVars, loopVars, orphaned>>
  BY DEF SignInOrOut, DepositPreflight, Deposit
<1>2. \A b \in Bill : preflight[b] = "yes" => preflight'[b] = "yes"
  BY DEF TypeOK, SignInOrOut, DepositPreflight, Deposit
<1>3. TypeOK'
  <2>1. preflight' \in [Bill -> {"none", "sent", "yes", "no"}]
    BY DEF TypeOK, SignInOrOut, DepositPreflight, Deposit
  <2>2. mail' \subseteq Bill /\ session' \in BOOLEAN /\ credits' \in [Bill -> Nat]
    <3>1. CASE SignInOrOut
      BY <3>1 DEF TypeOK, SignInOrOut
    <3>2. CASE \E b \in Bill : DepositPreflight(b)
      BY <3>2 DEF TypeOK, DepositPreflight, pageVars
    <3>3. ASSUME NEW b \in Bill, Deposit(b)
          PROVE  mail' \subseteq Bill /\ session' \in BOOLEAN /\ credits' \in [Bill -> Nat]
      <4>1. [credits EXCEPT ![b] = @ + 1] \in [Bill -> Nat]
        BY DEF TypeOK
      <4>2. QED  BY <3>3, <4>1 DEF TypeOK, Deposit
    <3>4. QED  BY <3>1, <3>2, <3>3
  <2>3. UNCHANGED boundVars
    BY DEF SignInOrOut, DepositPreflight, Deposit
  <2>4. QED
    BY <1>1, <2>1, <2>2, <2>3 DEF TypeOK, readerVars, loopVars, boundVars
<1>4. LoopInv' /\ NoteInv'
  BY <1>1 DEF LoopInv, NoteInv, readerVars, loopVars, Has
<1>5. ConsentInv'
  BY <1>1, <1>2 DEF ConsentInv, readerVars, loopVars, Has
<1>6. QED  BY <1>3, <1>4, <1>5

LEMMA NextIInv == IInv /\ [Next]_vars => IInv'
<1> SUFFICES ASSUME IInv, [Next]_vars PROVE IInv'  OBVIOUS
<1>1. CASE LoopStep
  BY <1>1, OpenIInv, PollIInv, OnDisabledIInv, EnableIInv, OnReadNoteIInv, HoldIInv,
     RequestIInv, PassedIInv, RefusedIInv, RejectIInv, OnCreditNoteIInv DEF LoopStep
<1>2. CASE Restart \/ Disable
  BY <1>2, RestartIInv, DisableIInv
<1>3. CASE \E b \in Bill : Insert(b) \/ Stack(b)
  BY <1>3, InsertIInv, StackIInv
<1>4. CASE SignInOrOut \/ \E b \in Bill : DepositPreflight(b) \/ Deposit(b)
  BY <1>4, PageIInv
<1>5. CASE UNCHANGED vars
  <2>1. TypeOK'
    BY <1>5 DEF IInv, TypeOK, vars, readerVars, loopVars, pageVars, boundVars
  <2>2. LoopInv' /\ NoteInv' /\ ConsentInv'
    BY <1>5 DEF IInv, LoopInv, NoteInv, ConsentInv, vars, readerVars, loopVars, Has
  <2>3. QED  BY <2>1, <2>2 DEF IInv
<1>6. QED  BY <1>1, <1>2, <1>3, <1>4, <1>5 DEF Next

-----------------------------------------------------------------------------
(* Credits *)

LEMMA OnceAppend ==
  ASSUME NEW S, NEW s \in Seq(S), NEW x \in S, NEW e,
         Once(s, e), x = e => ~ Has(s, e)
  PROVE  Once(Append(s, x), e)
<1>1. /\ \A n \in 1 .. Len(s) : Append(s, x)[n] = s[n]
      /\ Append(s, x)[Len(s) + 1] = x
      /\ DOMAIN Append(s, x) = 1 .. Len(s) + 1
      /\ DOMAIN s = 1 .. Len(s)
      /\ Len(s) \in Nat
  BY AppendProperties
<1>2. QED  BY <1>1 DEF Once, Has

LEMMA OnceCons ==
  ASSUME NEW S, NEW s \in Seq(S), NEW x \in S, NEW e, Once(s, e), x # e
  PROVE  Once(<<x>> \o s, e)
<1>1. /\ \A n \in 1 .. 1 + Len(s) :
           (<<x>> \o s)[n] = IF n = 1 THEN x ELSE s[n - 1]
      /\ DOMAIN (<<x>> \o s) = 1 .. 1 + Len(s)
      /\ DOMAIN s = 1 .. Len(s)
      /\ Len(s) \in Nat
  BY ConcatProperties
<1>2. SUFFICES ASSUME NEW m \in 1 .. 1 + Len(s), NEW n \in 1 .. 1 + Len(s),
                      (<<x>> \o s)[m] = e, (<<x>> \o s)[n] = e
               PROVE  m = n
  BY <1>1 DEF Once
<1>3. /\ m - 1 \in DOMAIN s /\ n - 1 \in DOMAIN s
      /\ s[m - 1] = e /\ s[n - 1] = e
  BY <1>1, <1>2
<1>4. m - 1 = n - 1
  BY <1>3 DEF Once
<1>5. QED  BY <1>4

LEMMA OnceTail ==
  ASSUME NEW S, NEW s \in Seq(S), s # <<>>, NEW e, Once(s, e)
  PROVE  Once(Tail(s), e) /\ (Head(s) = e => ~ Has(Tail(s), e))
<1>1. /\ DOMAIN s = 1 .. Len(s) /\ Len(s) \in Nat /\ Len(s) >= 1
      /\ DOMAIN Tail(s) = 1 .. Len(s) - 1
      /\ \A n \in 1 .. Len(s) - 1 : Tail(s)[n] = s[n + 1]
      /\ Head(s) = s[1]
  BY HeadTailProperties, EmptySeq
<1>2. ASSUME NEW n \in DOMAIN Tail(s)  PROVE n + 1 \in DOMAIN s /\ Tail(s)[n] = s[n + 1]
  BY <1>1
<1>3. Once(Tail(s), e)
  <2>1. SUFFICES ASSUME NEW m \in DOMAIN Tail(s), NEW n \in DOMAIN Tail(s),
                        Tail(s)[m] = e, Tail(s)[n] = e
                 PROVE  m = n
    BY DEF Once
  <2>2. m + 1 = n + 1
    BY <1>2, <2>1 DEF Once
  <2>3. QED  BY <1>1, <2>2
<1>4. ASSUME Head(s) = e, NEW n \in DOMAIN Tail(s), Tail(s)[n] = e  PROVE FALSE
  <2>1. n + 1 = 1
    BY <1>1, <1>2, <1>4 DEF Once
  <2>2. QED  BY <1>1, <2>1
<1>5. QED  BY <1>3, <1>4 DEF Has

\* No step but Insert, Stack, Poll, OnReadNote, OnCreditNote and Deposit adds a
\* note, a message or a credit, and no bill leaves the box.
LEMMA NothingNew ==
  ASSUME IInv, MoneyInv, UNCHANGED <<reports, mail, credits>>,
         evs' = evs \/ evs' = <<>>,
         \A b \in Bill : place[b] = "box" => place'[b] = "box"
  PROVE  MoneyInv'
<1>1. \A e : Has(evs', e) => Has(evs, e)
  BY HasEmpty
<1>2. \A e : Once(evs, e) => Once(evs', e)
  BY DEF Once
<1>3. \A e : (Has(reports, e))' <=> Has(reports, e)
  BY DEF Has
<1>4. \A e : Once(reports, e) => Once(reports', e)
  BY DEF Once
<1>5. QED  BY <1>1, <1>2, <1>3, <1>4 DEF MoneyInv

LEMMA InsertMoney == ASSUME IInv, MoneyInv, NEW b \in Bill, Insert(b) PROVE MoneyInv'
<1>1. ReadNote(b) \in Report /\ reports \in Seq(Report)
  BY EventTypes DEF IInv, TypeOK
<1>2. \A a \in Bill : /\ Has(reports', CreditNote(a)) <=> Has(reports, CreditNote(a))
                      /\ Once(reports, CreditNote(a)) => Once(reports', CreditNote(a))
  <2>1. \A a \in Bill : ReadNote(b) # CreditNote(a)
    BY EventTypes
  <2>2. QED  BY <1>1, <2>1, HasAppend, OnceAppend DEF Insert
<1>3. \A a \in Bill : place[a] = "box" => place'[a] = "box"
  BY DEF IInv, TypeOK, Insert
<1>4. QED  BY <1>2, <1>3 DEF MoneyInv, Insert, loopVars, pageVars

LEMMA StackMoney == ASSUME IInv, MoneyInv, NEW b \in Bill, Stack(b) PROVE MoneyInv'
<1>1. CreditNote(b) \in Report /\ reports \in Seq(Report)
  BY EventTypes DEF IInv, TypeOK
<1>2. \A a \in Bill : place[a] = "box" => place'[a] = "box"
  BY DEF IInv, TypeOK, Stack
<1>3. UNCHANGED <<evs, mail, credits>>
  BY DEF Stack, loopVars, pageVars
<1>4. CASE UNCHANGED reports
  BY <1>2, <1>3, <1>4, NothingNew
<1>5. CASE place' = [place EXCEPT ![b] = "box"] /\ reports' = Append(reports, CreditNote(b))
  <2>1. \A e : Has(reports', e) <=> Has(reports, e) \/ CreditNote(b) = e
    BY <1>1, <1>5, HasAppend
  <2>2. /\ ~ Has(reports, CreditNote(b)) /\ ~ Has(evs, CreditNote(b))
        /\ b \notin mail /\ credits[b] = 0
    BY DEF MoneyInv, Stack, IInv, TypeOK
  <2>3. \A a \in Bill : Once(reports, CreditNote(a)) => Once(reports', CreditNote(a))
    BY <1>1, <1>5, <2>2, OnceAppend
  <2>4. place'[b] = "box"
    BY <1>5 DEF IInv, TypeOK
  <2>5. \A a \in Bill : CreditNote(a) = CreditNote(b) => a = b
    BY DEF CreditNote
  <2>6. QED  BY <1>2, <1>3, <2>1, <2>2, <2>3, <2>4, <2>5 DEF MoneyInv
<1>6. QED  BY <1>4, <1>5 DEF Stack

LEMMA PollMoney == ASSUME IInv, MoneyInv, Poll PROVE MoneyInv'
<1>1. reports \in Seq(Event) /\ Disabled \in Event
  BY EventTypes DEF IInv, TypeOK
<1>2. \A a \in Bill : /\ Has(evs', CreditNote(a)) => Has(reports, CreditNote(a))
                      /\ Once(reports, CreditNote(a)) => Once(evs', CreditNote(a))
  <2>1. SUFFICES ASSUME NEW a \in Bill
                 PROVE  /\ Has(evs', CreditNote(a)) => Has(reports, CreditNote(a))
                        /\ Once(reports, CreditNote(a)) => Once(evs', CreditNote(a))
    OBVIOUS
  <2>2. CreditNote(a) # Disabled
    BY EventTypes
  <2>3. CASE evs' = reports
    BY <2>3
  <2>4. CASE evs' = Append(reports, Disabled)
    BY <1>1, <2>2, <2>4, HasAppend, OnceAppend
  <2>5. CASE evs' = <<Disabled>> \o reports
    BY <1>1, <2>2, <2>5, HasCons, OnceCons
  <2>6. QED  BY <2>3, <2>4, <2>5 DEF Poll
<1>3. \A a \in Bill : place[a] = "box" => place'[a] = "box"
  BY DEF IInv, TypeOK, Poll
<1>4. \A a : ~ Has(reports', a) /\ Once(reports', a)
  BY HasEmpty DEF Poll, Once
<1>5. UNCHANGED <<mail, credits>>
  BY DEF Poll, pageVars
<1>6. QED  BY <1>2, <1>3, <1>4, <1>5 DEF MoneyInv

\* Of the events one is taken: a credit note becomes a message or is lost.
LEMMA EventMoney ==
  ASSUME IInv, MoneyInv, OnReadNote \/ OnCreditNote
  PROVE  MoneyInv'
<1>1. /\ evs # <<>> /\ evs \in Seq(Event) /\ evs' = Tail(evs)
      /\ UNCHANGED <<place, reports, credits>>
  BY DEF IInv, TypeOK, LoopInv, NextEvent, OnReadNote, OnCreditNote, readerVars, pageVars
<1>2. \A e : Has(evs, e) <=> Head(evs) = e \/ Has(evs', e)
  BY <1>1, HasTail
<1>3. \A e : Once(evs, e) => Once(evs', e) /\ (Head(evs) = e => ~ Has(evs', e))
  BY <1>1, OnceTail
<1>4. \A e : (Has(reports, e))' <=> Has(reports, e)
  BY <1>1 DEF Has
<1>5. \A e : Once(reports, e) => Once(reports', e)
  BY <1>1 DEF Once
<1>6. CASE mail' = mail
  BY <1>1, <1>2, <1>3, <1>4, <1>5, <1>6 DEF MoneyInv
<1>7. CASE OnCreditNote /\ mail' = mail \cup {Head(evs).bill}
  <2>1. Head(evs).bill \in Bill /\ Head(evs) = CreditNote(Head(evs).bill)
    BY <1>7, HeadEvent DEF IInv, OnCreditNote
  <2>2. QED  BY <1>1, <1>2, <1>3, <1>4, <1>5, <1>7, <2>1 DEF MoneyInv
<1>8. QED  BY <1>6, <1>7 DEF OnReadNote, OnCreditNote, pageVars

LEMMA DepositMoney == ASSUME IInv, MoneyInv, NEW b \in Bill, Deposit(b) PROVE MoneyInv'
<1>1. UNCHANGED <<place, reports, evs>> /\ b \in mail /\ mail' = mail \ {b}
  BY DEF Deposit, readerVars, loopVars
<1>2. \A e : /\ (Has(reports, e))' <=> Has(reports, e)
             /\ (Has(evs, e))' <=> Has(evs, e)
  BY <1>1 DEF Has
<1>3. \A e : /\ Once(reports, e) => Once(reports', e)
             /\ Once(evs, e) => Once(evs', e)
  BY <1>1 DEF Once
<1>4. \A a \in Bill : credits'[a] = credits[a] \/ (a = b /\ credits'[a] = 1)
  BY DEF IInv, TypeOK, MoneyInv, Deposit
<1>5. QED  BY <1>1, <1>2, <1>3, <1>4 DEF MoneyInv

LEMMA InitMoney == Init => MoneyInv
<1> SUFFICES ASSUME Init, NEW b \in Bill
             PROVE  MoneyInv!(b)
  BY DEF MoneyInv
<1>1. reports = <<>> /\ evs = <<>> /\ b \notin mail /\ credits[b] = 0
  BY DEF Init
<1>2. /\ ~ Has(reports, CreditNote(b)) /\ Once(reports, CreditNote(b))
      /\ ~ Has(evs, CreditNote(b)) /\ Once(evs, CreditNote(b))
  BY <1>1, HasEmpty DEF Once
<1>3. credits[b] <= 1 /\ credits[b] # 1
  BY <1>1
<1>4. QED  BY <1>1, <1>2, <1>3

LEMMA NextMoney == IInv /\ MoneyInv /\ [Next]_vars => MoneyInv'
<1> SUFFICES ASSUME IInv, MoneyInv, [Next]_vars PROVE MoneyInv'  OBVIOUS
<1>1. CASE Poll \/ OnReadNote \/ OnCreditNote
  BY <1>1, PollMoney, EventMoney
<1>2. CASE \E b \in Bill : Insert(b) \/ Stack(b) \/ Deposit(b)
  BY <1>2, InsertMoney, StackMoney, DepositMoney
<1>3. CASE Open \/ OnDisabled \/ Enable \/ Request \/ Passed \/ Refused \/ Restart
  BY <1>3, NothingNew
     DEF Open, OnDisabled, Enable, Request, Passed, Refused, Restart, readerVars, pageVars
<1>4. CASE Hold \/ Reject \/ Disable
  <2>1. \A b \in Bill : place[b] = "box" => place'[b] = "box"
    BY <1>4 DEF IInv, TypeOK, Hold, Reject, Disable, Slot
  <2>2. UNCHANGED <<reports, evs, mail, credits>>
    BY <1>4 DEF Hold, Reject, Disable, loopVars, pageVars
  <2>3. QED  BY <2>1, <2>2, NothingNew
<1>5. CASE SignInOrOut \/ \E b \in Bill : DepositPreflight(b)
  BY <1>5, NothingNew DEF SignInOrOut, DepositPreflight, readerVars, loopVars, pageVars
<1>6. CASE UNCHANGED vars
  BY <1>6, NothingNew DEF vars, readerVars, loopVars, pageVars
<1>7. QED  BY <1>1, <1>2, <1>3, <1>4, <1>5, <1>6 DEF Next, LoopStep

-----------------------------------------------------------------------------
(* Refinement *)

LEMMA InitSlot == Init => SlotInv
  BY DEF Init, SlotInv, InSlot, Slot

LEMMA NextSlot == IInv /\ SlotInv /\ [Next]_vars => SlotInv'
<1> SUFFICES ASSUME IInv, SlotInv, [Next]_vars PROVE SlotInv'  OBVIOUS
<1>1. ASSUME NEW b \in Bill, Insert(b)  PROVE SlotInv'
  <2>1. \A a \in Bill : place'[a] = IF a = b THEN "read" ELSE place[a]
    BY <1>1 DEF IInv, TypeOK, Insert
  <2>2. UNCHANGED preflight /\ InSlot = {}
    BY <1>1 DEF Insert
  <2>3. QED  BY <2>1, <2>2 DEF SlotInv, InSlot
<1>2. CASE Request
  <2>1. bill \in Bill /\ place[bill] # "hand"
    BY <1>2 DEF IInv, LoopInv, Request, Handling
  <2>2. \A b \in Bill : preflight'[b] = "none" \/ b = bill \/ preflight'[b] = preflight[b]
    BY <1>2 DEF IInv, TypeOK, Request
  <2>3. UNCHANGED place
    BY <1>2 DEF Request, readerVars
  <2>4. QED  BY <2>1, <2>2, <2>3 DEF SlotInv, InSlot
<1>3. ASSUME NEW b \in Bill, DepositPreflight(b)  PROVE SlotInv'
  <2>1. \A a \in Bill : preflight'[a] # "none" => preflight[a] # "none"
    BY <1>3 DEF IInv, TypeOK, DepositPreflight
  <2>2. UNCHANGED place
    BY <1>3 DEF DepositPreflight, readerVars
  <2>3. QED  BY <2>1, <2>2 DEF SlotInv, InSlot
<1>4. CASE Poll \/ Hold \/ Reject \/ Disable \/ \E b \in Bill : Stack(b)
  <2>1. \A a \in Bill : /\ place'[a] \in Slot => place[a] \in Slot
                        /\ place'[a] = "hand" => place[a] = "hand"
    <3>1. CASE Poll  BY <3>1 DEF IInv, TypeOK, Poll, Slot
    <3>2. CASE Hold  BY <3>2 DEF IInv, TypeOK, Hold, Slot
    <3>3. CASE Reject  BY <3>3 DEF IInv, TypeOK, Reject, Slot
    <3>4. CASE Disable  BY <3>4 DEF IInv, TypeOK, Disable, Slot
    <3>5. CASE \E b \in Bill : Stack(b)  BY <3>5 DEF IInv, TypeOK, Stack, Slot
    <3>6. QED  BY <1>4, <3>1, <3>2, <3>3, <3>4, <3>5
  <2>2. UNCHANGED preflight
    BY <1>4 DEF Poll, Hold, Reject, Disable, Stack
  <2>3. QED  BY <2>1, <2>2 DEF SlotInv, InSlot
<1>5. CASE UNCHANGED <<place, preflight>>
  BY <1>5 DEF SlotInv, InSlot
<1>6. QED
  BY <1>1, <1>2, <1>3, <1>4, <1>5
     DEF Next, LoopStep, Open, OnDisabled, Enable, OnReadNote, Passed, Refused,
         OnCreditNote, Restart, SignInOrOut, Deposit, vars, readerVars

LEMMA InitAsked == Init => AskedInv
<1>1. SUFFICES ASSUME Init PROVE AskedInv  OBVIOUS
<1>2. \A e : ~ Has(reports, e) /\ ~ Has(evs, e) /\ Once(reports, e) /\ Once(evs, e)
  BY <1>1, HasEmpty DEF Init, Once
<1>3. \A b \in Bill : /\ ~ Has(reports, ReadNote(b)) /\ Once(reports, ReadNote(b))
                    /\ ~ Has(evs, ReadNote(b)) /\ Once(evs, ReadNote(b))
  BY <1>2
<1>4. pc \notin Asking
  BY <1>1 DEF Init, Asking
<1>5. QED  BY <1>3, <1>4 DEF AskedInv

\* No step but Insert, Stack, Poll, OnReadNote, OnCreditNote and Request adds a
\* report or asks about a bill.
LEMMA NothingAsked ==
  ASSUME AskedInv, UNCHANGED reports, evs' = evs \/ evs' = <<>>,
         pc' \in Asking => pc \in Asking /\ UNCHANGED bill,
         \A b \in Bill : preflight[b] = "none" => preflight'[b] = "none"
  PROVE  AskedInv'
<1>1. \A e : Has(evs', e) => Has(evs, e)
  BY HasEmpty
<1>2. \A e : Once(evs, e) => Once(evs', e)
  BY DEF Once
<1>3. \A e : (Has(reports, e))' <=> Has(reports, e)
  BY DEF Has
<1>4. \A e : Once(reports, e) => Once(reports', e)
  BY DEF Once
<1>5. Asking' = Asking
  BY DEF Asking
<1>6. QED  BY <1>1, <1>2, <1>3, <1>4, <1>5 DEF AskedInv

LEMMA InsertAsked ==
  ASSUME IInv, SlotInv, AskedInv, NEW b \in Bill, Insert(b)
  PROVE  AskedInv'
<1>1. ReadNote(b) \in Report /\ reports \in Seq(Report) /\ reports' = Append(reports, ReadNote(b))
  BY EventTypes DEF IInv, TypeOK, Insert
<1>2. UNCHANGED <<evs, pc, bill, preflight>>
  BY DEF Insert, loopVars
<1>3. /\ ~ Has(reports, ReadNote(b)) /\ ~ Has(evs, ReadNote(b))
      /\ ~ (pc \in Asking /\ bill = b)
  BY DEF IInv, NoteInv, LoopInv, Handling, Asking, Insert
<1>4. preflight[b] = "none"
  BY <1>3 DEF SlotInv, Insert
<1>5. \A e : Has(reports', e) <=> Has(reports, e) \/ ReadNote(b) = e
  BY <1>1, HasAppend
<1>6. \A a \in Bill : Once(reports, ReadNote(a)) => Once(reports', ReadNote(a))
  BY <1>1, <1>3, OnceAppend
<1>7. \A a \in Bill : ReadNote(a) = ReadNote(b) => a = b
  BY EventTypes
<1>8. \A e : ((Has(evs, e))' <=> Has(evs, e)) /\ (Once(evs, e) => Once(evs', e))
  BY <1>2 DEF Has, Once
<1>9. Asking' = Asking
  BY DEF Asking
<1>10. QED
  BY <1>2, <1>3, <1>4, <1>5, <1>6, <1>7, <1>8, <1>9 DEF AskedInv

LEMMA StackAsked == ASSUME IInv, AskedInv, NEW b \in Bill, Stack(b) PROVE AskedInv'
<1>1. UNCHANGED <<evs, pc, bill, preflight>>
  BY DEF Stack, loopVars
<1>2. CASE UNCHANGED reports
  BY <1>1, <1>2, NothingAsked
<1>3. CASE reports' = Append(reports, CreditNote(b))
  <2>1. CreditNote(b) \in Report /\ reports \in Seq(Report)
    BY EventTypes DEF IInv, TypeOK
  <2>2. \A a \in Bill : /\ Has(reports', ReadNote(a)) <=> Has(reports, ReadNote(a))
                        /\ Once(reports, ReadNote(a)) => Once(reports', ReadNote(a))
    <3>1. \A a \in Bill : CreditNote(b) # ReadNote(a)
      BY EventTypes
    <3>2. QED  BY <1>3, <2>1, <3>1, HasAppend, OnceAppend
  <2>3. \A e : ((Has(evs, e))' <=> Has(evs, e)) /\ (Once(evs, e) => Once(evs', e))
    BY <1>1 DEF Has, Once
  <2>4. QED  BY <1>1, <2>2, <2>3 DEF AskedInv, Asking
<1>4. QED  BY <1>2, <1>3 DEF Stack

LEMMA PollAsked == ASSUME IInv, AskedInv, Poll PROVE AskedInv'
<1>1. reports \in Seq(Event) /\ Disabled \in Event
  BY EventTypes DEF IInv, TypeOK
<1>2. ASSUME NEW a \in Bill
      PROVE  /\ Has(evs', ReadNote(a)) => Has(reports, ReadNote(a))
             /\ Once(reports, ReadNote(a)) => Once(evs', ReadNote(a))
  <2>1. ReadNote(a) # Disabled
    BY EventTypes
  <2>2. CASE evs' = reports
    BY <2>2
  <2>3. CASE evs' = Append(reports, Disabled)
    BY <1>1, <2>1, <2>3, HasAppend, OnceAppend
  <2>4. CASE evs' = <<Disabled>> \o reports
    BY <1>1, <2>1, <2>4, HasCons, OnceCons
  <2>5. QED  BY <2>2, <2>3, <2>4 DEF Poll
<1>3. \A a : ~ Has(reports', a) /\ Once(reports', a)
  BY HasEmpty DEF Poll, Once
<1>4. UNCHANGED preflight /\ pc' \notin Asking
  BY DEF Poll, After, Asking
<1>5. QED  BY <1>2, <1>3, <1>4 DEF AskedInv, Asking

LEMMA EventAsked == ASSUME IInv, AskedInv, OnReadNote \/ OnCreditNote PROVE AskedInv'
<1>1. /\ evs # <<>> /\ evs \in Seq(Event) /\ evs' = Tail(evs)
      /\ UNCHANGED <<reports, preflight>>
  BY DEF IInv, TypeOK, LoopInv, NextEvent, OnReadNote, OnCreditNote, readerVars
<1>2. \A e : Has(evs, e) <=> Head(evs) = e \/ Has(evs', e)
  BY <1>1, HasTail
<1>3. \A e : Once(evs, e) => Once(evs', e) /\ (Head(evs) = e => ~ Has(evs', e))
  BY <1>1, OnceTail
<1>4. \A e : ((Has(reports, e))' <=> Has(reports, e)) /\ (Once(reports, e) => Once(reports', e))
  BY <1>1 DEF Has, Once
<1>5. CASE OnCreditNote
  <2>1. pc' \notin Asking
    BY <1>5 DEF OnCreditNote, After, Asking
  <2>2. QED  BY <1>1, <1>2, <1>3, <1>4, <2>1 DEF AskedInv, Asking
<1>6. CASE OnReadNote
  <2>1. bill' \in Bill /\ Head(evs) = ReadNote(bill')
    BY <1>6, HeadEvent DEF IInv, OnReadNote
  <2>2. \A a \in Bill : ReadNote(a) = ReadNote(bill') => a = bill'
    BY <2>1, EventTypes
  <2>3. QED  BY <1>1, <1>2, <1>3, <1>4, <2>1, <2>2 DEF AskedInv, Asking
<1>7. QED  BY <1>5, <1>6

LEMMA RequestAsked == ASSUME IInv, AskedInv, Request PROVE AskedInv'
<1>1. UNCHANGED <<reports, evs, bill>> /\ pc' \notin Asking
  BY DEF Request, Asking, readerVars
<1>2. \A e : /\ ((Has(reports, e))' <=> Has(reports, e)) /\ (Once(reports, e) => Once(reports', e))
             /\ ((Has(evs, e))' <=> Has(evs, e)) /\ (Once(evs, e) => Once(evs', e))
  BY <1>1 DEF Has, Once
<1>3. pc \in Asking
  BY DEF Request, Asking
<1>4. \A b \in Bill : b # bill => preflight'[b] = preflight[b]
  BY DEF IInv, TypeOK, Request
<1>5. QED  BY <1>1, <1>2, <1>3, <1>4 DEF AskedInv, Asking

LEMMA NextAsked == IInv /\ SlotInv /\ AskedInv /\ [Next]_vars => AskedInv'
<1> SUFFICES ASSUME IInv, SlotInv, AskedInv, [Next]_vars PROVE AskedInv'  OBVIOUS
<1>1. CASE Poll \/ OnReadNote \/ OnCreditNote \/ Request
  BY <1>1, PollAsked, EventAsked, RequestAsked
<1>2. CASE \E b \in Bill : Insert(b) \/ Stack(b)
  BY <1>2, InsertAsked, StackAsked
<1>3. CASE Open \/ OnDisabled \/ Enable \/ Passed \/ Refused \/ Restart
  BY <1>3, NothingAsked
     DEF Open, OnDisabled, Enable, Passed, Refused, Restart, After, Asking, readerVars
<1>4. CASE Hold \/ Reject \/ Disable
  BY <1>4, NothingAsked DEF Hold, Reject, Disable, After, Asking, loopVars
<1>5. CASE SignInOrOut \/ \E b \in Bill : DepositPreflight(b) \/ Deposit(b)
  <2>1. \A b \in Bill : preflight[b] = "none" => preflight'[b] = "none"
    BY <1>5 DEF IInv, TypeOK, SignInOrOut, DepositPreflight, Deposit
  <2>2. UNCHANGED <<reports, evs, pc, bill>>
    BY <1>5 DEF SignInOrOut, DepositPreflight, Deposit, readerVars, loopVars
  <2>3. QED  BY <2>1, <2>2, NothingAsked
<1>6. CASE UNCHANGED vars
  BY <1>6, NothingAsked DEF vars, readerVars, loopVars
<1>7. QED  BY <1>1, <1>2, <1>3, <1>4, <1>5, <1>6 DEF Next, LoopStep

LEMMA InitPromise == Init => Promise!Init
  BY DEF Init, Promise!Init, Slot

\* How a bill's place, the page's answers and the credits appear to the user.
Where == [b \in Bill |-> IF place[b] \in Slot THEN "slot" ELSE place[b]]
Agreed == {b \in Bill : preflight[b] = "yes"}

LEMMA StepPromise ==
  IInv /\ MoneyInv /\ SlotInv /\ AskedInv /\ [Next]_vars => [Promise!Next]_(Promise!vars)
<1> SUFFICES ASSUME IInv, MoneyInv, SlotInv, AskedInv, [Next]_vars
             PROVE  Promise!Next \/ UNCHANGED Promise!vars
  OBVIOUS
<1> USE DEF IInv
<1>1. ASSUME NEW b \in Bill, Insert(b)  PROVE Promise!Insert(b)
  <2>1. Where' = [Where EXCEPT ![b] = "slot"] /\ Where[b] = "hand"
    BY <1>1 DEF TypeOK, Insert, Where, Slot
  <2>2. UNCHANGED <<Agreed, orphaned, credits>>
    BY <1>1 DEF Insert, Agreed, pageVars
  <2>3. QED  BY <2>1, <2>2 DEF Promise!Insert, Where, Agreed
<1>2. ASSUME NEW b \in Bill, Stack(b)  PROVE Promise!Keep(b) \/ Promise!Return(b)
  <2>1. Where[b] = "slot" /\ b \in Agreed \cup orphaned
    BY <1>2 DEF Stack, ConsentInv, Where, Agreed, Slot
  <2>2. UNCHANGED <<Agreed, orphaned, credits>>
    BY <1>2 DEF Stack, Agreed, pageVars
  <2>3. \/ Where' = [Where EXCEPT ![b] = "box"]
        \/ Where' = [Where EXCEPT ![b] = "returned"]
    BY <1>2 DEF TypeOK, Stack, Where, Slot
  <2>4. QED
    BY <2>1, <2>2, <2>3 DEF Promise!Keep, Promise!Return, Where, Agreed
<1>3. ASSUME Disable \/ Reject
      PROVE  (\E b \in Bill : Promise!Return(b)) \/ UNCHANGED Promise!vars
  <2>1. UNCHANGED <<Agreed, orphaned, credits>>
    BY <1>3 DEF Disable, Reject, Agreed, pageVars
  <2>2. \A a \in Bill : \/ place'[a] = place[a]
                        \/ place[a] \in Slot /\ place'[a] = "returned"
    BY <1>3 DEF TypeOK, Disable, Reject, Slot
  <2>3. CASE \E b \in Bill : place[b] \in Slot /\ place'[b] = "returned"
    <3>1. PICK b \in Bill : place[b] \in Slot /\ place'[b] = "returned"
      BY <2>3
    <3>2. \A a \in Bill : a # b => place'[a] = place[a]
      BY <2>2, <3>1 DEF SlotInv, InSlot
    <3>3. Where' = [Where EXCEPT ![b] = "returned"] /\ Where[b] = "slot"
      BY <3>1, <3>2 DEF Where, Slot
    <3>4. QED  BY <2>1, <3>3 DEF Promise!Return, Where, Agreed
  <2>4. CASE \A a \in Bill : place'[a] = place[a]
    <3>1. UNCHANGED Where
      BY <2>4 DEF Where
    <3>2. QED  BY <2>1, <3>1 DEF Promise!vars, Where, Agreed
  <2>5. QED  BY <2>2, <2>3, <2>4
<1>4. ASSUME Poll \/ Hold  PROVE UNCHANGED Promise!vars
  <2>1. UNCHANGED Where
    BY <1>4 DEF TypeOK, Poll, Hold, Where, Slot
  <2>2. UNCHANGED <<Agreed, orphaned, credits>>
    BY <1>4 DEF Poll, Hold, Agreed, pageVars
  <2>3. QED  BY <2>1, <2>2 DEF Promise!vars, Where, Agreed
<1>5. ASSUME Request  PROVE UNCHANGED Promise!vars
  <2>1. UNCHANGED <<Where, orphaned, credits>>
    BY <1>5 DEF Request, Where, readerVars, pageVars
  <2>2. UNCHANGED Agreed
    BY <1>5 DEF TypeOK, LoopInv, AskedInv, Request, Handling, Asking, Agreed
  <2>3. QED  BY <2>1, <2>2 DEF Promise!vars, Where, Agreed
<1>6. ASSUME NEW b \in Bill, DepositPreflight(b)
      PROVE  Promise!Agree(b) \/ UNCHANGED Promise!vars
  <2>1. UNCHANGED <<Where, orphaned, credits>>
    BY <1>6 DEF DepositPreflight, Where, readerVars, pageVars
  <2>2. Where[b] # "hand"
    BY <1>6 DEF DepositPreflight, SlotInv, Where, Slot
  <2>3. Agreed' = Agreed \cup {b} \/ UNCHANGED Agreed
    BY <1>6 DEF TypeOK, DepositPreflight, Agreed
  <2>4. QED
    BY <2>1, <2>2, <2>3 DEF Promise!Agree, Promise!vars, Where, Agreed
<1>7. ASSUME NEW b \in Bill, Deposit(b)
      PROVE  Promise!Credit(b) \/ UNCHANGED Promise!vars
  <2>1. UNCHANGED <<Where, Agreed, orphaned>>
    BY <1>7 DEF Deposit, Where, Agreed, readerVars
  <2>2. Where[b] = "box" /\ credits[b] = 0
    BY <1>7 DEF Deposit, MoneyInv, Where, Slot
  <2>3. credits' = [credits EXCEPT ![b] = 1] \/ UNCHANGED credits
    BY <1>7, <2>2 DEF Deposit
  <2>4. QED
    BY <2>1, <2>2, <2>3 DEF Promise!Credit, Promise!vars, Where, Agreed
<1>8. ASSUME Restart  PROVE Promise!Restart
  <2>1. UNCHANGED <<Where, Agreed, credits>>
    BY <1>8 DEF Restart, Where, Agreed, readerVars, pageVars
  <2>2. InSlot = {b \in Bill : Where[b] = "slot"}
    BY DEF TypeOK, InSlot, Where, Slot
  <2>3. QED  BY <1>8, <2>1, <2>2 DEF Restart, Promise!Restart, Where, Agreed
<1>9. ASSUME UNCHANGED <<place, preflight, orphaned, credits>>
      PROVE  UNCHANGED Promise!vars
  BY <1>9 DEF Promise!vars
<1>10. Open \/ OnDisabled \/ Enable \/ OnReadNote \/ Passed \/ Refused \/ OnCreditNote
         \/ SignInOrOut \/ UNCHANGED vars
       => UNCHANGED <<place, preflight, orphaned, credits>>
  BY DEF Open, OnDisabled, Enable, OnReadNote, Passed, Refused, OnCreditNote,
         SignInOrOut, vars, readerVars, pageVars
<1>11. QED
  BY <1>1, <1>2, <1>3, <1>4, <1>5, <1>6, <1>7, <1>8, <1>9, <1>10
     DEF Next, LoopStep, Promise!Next

-----------------------------------------------------------------------------
(* Theorems *)

\* Every state the loop, the reader and the page reach satisfies the
\* inductive invariant.
THEOREM Invariance == Spec => []IInv
<1>1. QED  BY InitIInv, NextIInv, PTL DEF Spec

\* Every variable keeps its type.
THEOREM TypeCorrect == Spec => []TypeOK
<1>1. IInv => TypeOK  BY DEF IInv
<1>2. QED  BY <1>1, Invariance, PTL

\* However many bills, restarts and times the reader gives up: the reader
\* takes no bill the page did not agree to, but for one a restart left in it
\* ("We shouldn't take money until the POS has recognized it", cash.js).
THEOREM ConsentIsAsked == Spec => []TakenWithConsent
<1>1. IInv => TakenWithConsent  BY DEF IInv, ConsentInv, TakenWithConsent
<1>2. QED  BY <1>1, Invariance, PTL

\* No money from nothing: a bill earns one credit at most, and one that is
\* credited, or about to be, is in the box.
THEOREM CreditsAreCovered == Spec => []NoFreeMoney
<1>1. MoneyInv => NoFreeMoney
  BY DEF MoneyInv, NoFreeMoney
<1>2. QED  BY <1>1, InitMoney, NextMoney, Invariance, PTL DEF Spec

\* The deposit path does what Escrow.tla promises for every bill: each of its
\* steps is a step of the promise or leaves it as it was.
THEOREM KeepsThePromise == Spec => ImplementsEscrow
<1>1. QED
  BY InitPromise, StepPromise, InitMoney, NextMoney, InitSlot, NextSlot,
     InitAsked, NextAsked, InitIInv, NextIInv, PTL DEF Spec, ImplementsEscrow, Promise!Spec
=============================================================================
