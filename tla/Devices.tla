-------------------------------- MODULE Devices --------------------------------
(***************************************************************************)
(* The two services that report scans to the kiosk: devices/barcode, which *)
(* reads a keyboard-like scanner key by key, and devices/nfc, which asks a *)
(* card for its uid.  Both send through a ReconnectingSocket, whose state  *)
(* (see Relay) decides what send does: on an open websocket it sends, on a *)
(* closing or closed one the message is dropped, and on one that connects  *)
(* it throws, which nobody catches: the process ends.  Its successor       *)
(* listens to the device only once it has connected: what is scanned in    *)
(* between is heard by nobody.                                             *)
(***************************************************************************)
EXTENDS Integers, Sequences, FiniteSets

CONSTANTS Digit,
          Reader,    \* NFC readers
          Card,
          Debounce,  \* DEBOUNCE_TIMEOUT
          MaxTime,   \* bound: the clock
          MaxKey,    \* bound: digits of a code
          MaxScan,   \* bound: codes and cards scanned
          MaxLife,   \* bound: starts of the two services
          None

\* What the constants have to be.
DevicesAssumption ==
    /\ Debounce \in Nat /\ MaxTime \in Nat /\ MaxKey \in Nat /\ MaxScan \in Nat /\ MaxLife \in Nat
    /\ None \notin Card

Service == {"barcode", "nfc"}

VARIABLES now,      \* Date.now()
          ready,    \* readyState of a service's websocket; "down" until it has connected
          life,     \* history: starts of a service
          buffer,   \* barcode
          last,     \* last_scan_time
          reading,  \* the card that a reader is being asked about
          kiosk,    \* the messages sent, in order
          keys,     \* history: the digits since the last ENTER
          missed,   \* history: how many of them, from the first, the service has not
          scans     \* history: what was scanned, and what became of it

vars == <<now, ready, life, buffer, last, reading, kiosk, keys, missed, scans>>

\* The clock is far from 0, where last_scan_time starts.
Init ==
    /\ now = Debounce + 1
    /\ ready = [s \in Service |-> "down"] /\ life = [s \in Service |-> 1]
    /\ buffer = <<>> /\ last = 0
    /\ reading = [r \in Reader |-> None]
    /\ kiosk = <<>>
    /\ keys = <<>> /\ missed = 0 /\ scans = <<>>

\* What becomes of a message that service s sends, and of the process.
Fate(s) == CASE ready[s] = "open" -> "sent" [] ready[s] = "closed" -> "lost" [] OTHER -> "thrown"

Scanned(s, code, skipped, fate) ==
    scans' = Append(scans, [from |-> s, code |-> code, missed |-> skipped, at |-> now,
                            fate |-> fate, life |-> life[s]])

Send(s, type, code) ==
    kiosk' = IF ready[s] = "open"
             THEN Append(kiosk, [from |-> s, type |-> type, code |-> code, at |-> now, life |-> life[s]])
             ELSE kiosk

\* The process ends, and with it what it holds.
Ended(s) ==
    /\ life["barcode"] + life["nfc"] < MaxLife
    /\ ready' = [ready EXCEPT ![s] = "down"] /\ life' = [life EXCEPT ![s] = @ + 1]
    /\ IF s = "barcode"
       THEN buffer' = <<>> /\ last' = 0 /\ UNCHANGED reading
       ELSE reading' = [r \in Reader |-> None] /\ UNCHANGED <<buffer, last>>

\* A service that was started has connected, and listens to its device from here on.
Connects(s) ==
    /\ ready[s] = "down"
    /\ ready' = [ready EXCEPT ![s] = "open"]
    /\ UNCHANGED <<now, life, buffer, last, reading, kiosk, keys, missed, scans>>

\* The barcode service is killed, be it amid a code (for the other, TransmitFails is the same).
Killed ==
    /\ ready["barcode"] # "down" /\ Ended("barcode")
    /\ missed' = Len(keys)
    /\ UNCHANGED <<now, kiosk, keys, scans>>

----------------------------------------------------------------------------
(* The barcode service. *)

Key(d) ==
    /\ Len(keys) < MaxKey /\ Len(scans) < MaxScan
    /\ keys' = Append(keys, d)
    /\ IF ready["barcode"] = "down"
       THEN missed' = Len(keys) + 1 /\ UNCHANGED buffer
       ELSE buffer' = Append(buffer, d) /\ UNCHANGED missed
    /\ UNCHANGED <<now, ready, life, last, reading, kiosk, scans>>

\* ENTER when the service has none of the code.
Unheard ==
    /\ buffer = <<>> /\ keys # <<>>
    /\ keys' = <<>> /\ missed' = 0
    /\ UNCHANGED <<now, ready, life, buffer, last, reading, kiosk, scans>>

TooFast == ~(now - last > Debounce)

Stamp == IF TooFast THEN last ELSE now

\* Mutant of Emptied: only a code that is reported is forgotten.
EmptiedIfSent == IF TooFast THEN buffer ELSE <<>>
Emptied == <<>>

\* ENTER, when the code is reported ...
Report ==
    /\ buffer # <<>> /\ ~TooFast
    /\ Send("barcode", "scan_event", buffer)
    /\ Scanned("barcode", keys, missed, Fate("barcode")) /\ keys' = <<>> /\ missed' = 0
    /\ IF Fate("barcode") = "thrown"
       THEN Ended("barcode")
       ELSE buffer' = Emptied /\ last' = Stamp /\ UNCHANGED <<ready, life, reading>>
    /\ UNCHANGED now

\* ... and when it came too fast.
Drop ==
    /\ buffer # <<>> /\ TooFast
    /\ Scanned("barcode", keys, missed, "dropped") /\ keys' = <<>> /\ missed' = 0
    /\ buffer' = Emptied /\ last' = Stamp
    /\ UNCHANGED <<now, ready, life, reading, kiosk>>

----------------------------------------------------------------------------
(* The NFC service. *)

Detect(r, c) ==
    /\ ready["nfc"] # "down" /\ reading[r] = None /\ Len(scans) < MaxScan
    /\ reading' = [reading EXCEPT ![r] = c]
    /\ UNCHANGED <<now, ready, life, buffer, last, kiosk, keys, missed, scans>>

CardType(ok) == IF ok THEN "scan_event" ELSE "nfc_scan_error"

\* The card answers, with or without success.
Transmitted(r, ok) ==
    /\ reading[r] # None /\ Len(scans) < MaxScan
    /\ Send("nfc", CardType(ok), IF ok THEN <<reading[r]>> ELSE <<>>)
    /\ Scanned("nfc", IF ok THEN <<reading[r]>> ELSE <<>>, 0, Fate("nfc"))
    /\ IF Fate("nfc") = "thrown"
       THEN Ended("nfc")
       ELSE reading' = [reading EXCEPT ![r] = None] /\ UNCHANGED <<ready, life, buffer, last>>
    /\ UNCHANGED <<now, keys, missed>>

\* The card is gone: transmit rejects, and nobody catches that either.
TransmitFails(r) ==
    /\ reading[r] # None
    /\ Ended("nfc")
    /\ UNCHANGED <<now, kiosk, keys, missed, scans>>

----------------------------------------------------------------------------

Tick ==
    /\ now < MaxTime
    /\ now' = now + 1
    /\ UNCHANGED <<ready, life, buffer, last, reading, kiosk, keys, missed, scans>>

\* What happens to a websocket (see Relay).
Reconnecting(s) ==
    /\ ready[s] # "down"
    /\ ready' = [ready EXCEPT ![s] =
           CASE @ = "open" -> "closed" [] @ = "closed" -> "connecting" [] OTHER -> "open"]
    /\ UNCHANGED <<now, life, buffer, last, reading, kiosk, keys, missed, scans>>

Next ==
    \/ \E d \in Digit : Key(d)
    \/ Killed \/ Unheard \/ Report \/ Drop \/ Tick
    \/ \E r \in Reader : \/ \E c \in Card : Detect(r, c)
                         \/ \E ok \in BOOLEAN : Transmitted(r, ok)
                         \/ TransmitFails(r)
    \/ \E s \in Service : Connects(s) \/ Reconnecting(s)

Spec == Init /\ [][Next]_vars

----------------------------------------------------------------------------
(* Properties. *)

\* The types of the variables; a scan names a card, an error does not.
TypeOK ==
    /\ now \in Nat /\ last \in 0..now
    /\ ready \in [Service -> {"down", "open", "closed", "connecting"}]
    /\ buffer \in Seq(Digit) /\ missed \in 0..Len(keys) /\ reading \in [Reader -> Card \cup {None}]
    /\ \A i \in DOMAIN kiosk : (kiosk[i].type = "scan_event") <=> (kiosk[i].code # <<>>)

\* Each report is one scan, in their order, and the whole of it but for the digits that fell
\* before the service listened: nothing of an earlier code that was dropped, lost or cut off by
\* a restart is in front of it.  (The tail of a code that fell into a restart is reported.)
ReportIsScan ==
    LET sent == {i \in DOMAIN scans : scans[i].fate = "sent"}
        heard(x) == SubSeq(x.code, x.missed + 1, Len(x.code))
    IN  /\ Len(kiosk) = Cardinality(sent)
        /\ \A i \in sent : LET m == kiosk[Cardinality(1..i \cap sent)]
                          IN <<m.from, m.code, m.at>> = <<scans[i].from, heard(scans[i]), scans[i].at>>

\* A code is not reported again within the debounce time, unless the service
\* was started in between.
Debounced ==
    \A i, j \in DOMAIN kiosk :
        /\ i < j /\ kiosk[i].from = "barcode" /\ kiosk[j].from = "barcode"
        /\ kiosk[i].life = kiosk[j].life
        => kiosk[j].at - kiosk[i].at > Debounce

\* However fast one scans, a scan is only dropped for one that was let through
\* within the debounce time; dropped scans hold nothing up.
DropsAreClose ==
    \A j \in DOMAIN scans : scans[j].fate = "dropped" =>
        \E i \in 1..(j - 1) : /\ scans[i].from = "barcode" /\ scans[i].fate \in {"sent", "lost"}
                              /\ scans[j].at - scans[i].at <= Debounce
=============================================================================
