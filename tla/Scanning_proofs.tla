-------------------------- MODULE Scanning_proofs --------------------------
(***************************************************************************)
(* Theorems about Scanning for any number of codes, forms, readers, cards  *)
(* and clock ticks.  The camera's are those of ScannerCamera_proofs.       *)
(*                                                                         *)
(* The argument.  Devices: last_scan_time is the time of the last scan     *)
(* that was let through, if one was since the start (LastInv), and no      *)
(* report of this life is later (ReportedInv).  Forms: one answer is       *)
(* current for a form, and its first one comes back before it is filled    *)
(* (LookupInv); a form is busy with one save, of what it holds (SaveInv);  *)
(* so what is not stored is marked, unless it was typed during a save      *)
(* (MarkedInv), and a product that was made is known to its form, on its   *)
(* way to it, or lost (CountInv).                                          *)
(***************************************************************************)
EXTENDS Scanning, ScannerCamera_proofs, Sequences, SequenceTheorems, FiniteSetTheorems

\* The instances count as this module does.
LEMMA SameCount ==
  \A S : Devices!Cardinality(S) = Cardinality(S) /\ Forms!Cardinality(S) = Cardinality(S)
  BY DEF Devices!Cardinality, Forms!Cardinality, Cardinality

----------------------------------------------------------------------------
(* Devices: the invariant. *)

Sent == {"sent", "lost", "thrown", "dropped"}
Message == [from : Devices!Service, type : {"scan_event", "nfc_scan_error"},
            code : Seq(Digit \cup Card), at : Nat, life : Nat]
Scan == [from : Devices!Service, code : Seq(Digit \cup Card), missed : Nat, at : Nat,
         fate : Sent, life : Nat]
Readiness == {"down", "open", "closed", "connecting"}

\* Of a scan, what its service has.
Heard(x) == SubSeq(x.code, x.missed + 1, Len(x.code))

DeviceTypes ==
    /\ now \in Nat /\ now > Debounce /\ last \in 0..now
    /\ ready \in [Devices!Service -> Readiness]
    /\ life \in [Devices!Service -> Nat]
    /\ keys \in Seq(Digit) /\ missed \in 0..Len(keys)
    /\ buffer \in Seq(Digit) /\ buffer = SubSeq(keys, missed + 1, Len(keys))
    /\ ready["barcode"] = "down" => buffer = <<>>
    /\ reading \in [Reader -> Card \cup {None}]
    /\ kiosk \in Seq(Message) /\ scans \in Seq(Scan)
    /\ \A i \in DOMAIN kiosk : (kiosk[i].type = "scan_event") <=> (kiosk[i].code # <<>>)

\* A report of the present life is no later than last_scan_time.
ReportedInv ==
    /\ Devices!Debounced
    /\ \A i \in DOMAIN kiosk : kiosk[i].from = "barcode" =>
          /\ kiosk[i].life <= life["barcode"]
          /\ kiosk[i].life = life["barcode"] => kiosk[i].at <= last

\* A scan of time t was let through.
LetThrough(t) ==
    \E i \in DOMAIN scans :
        scans[i].from = "barcode" /\ scans[i].fate \in {"sent", "lost"} /\ scans[i].at = t

LastInv == Devices!DropsAreClose /\ (last = 0 \/ LetThrough(last))

DeviceInv == DeviceTypes /\ Devices!ReportIsScan /\ ReportedInv /\ LastInv

DeviceBound == Debounce \in Nat /\ None \notin Card

----------------------------------------------------------------------------
(* Devices: what a scan adds. *)

\* Scan x is added, and message m if x was sent.
Added(x, m) ==
    /\ scans' = Append(scans, x)
    /\ kiosk' = IF x.fate = "sent" THEN Append(kiosk, m) ELSE kiosk

Says(m, x) == m.from = x.from /\ m.code = Heard(x) /\ m.at = x.at

\* A code that grows, and a code that is heard from its first digit.
LEMMA HeardGrows ==
  ASSUME NEW S, NEW s \in Seq(S), NEW d \in S, NEW n \in 0..Len(s)
  PROVE  SubSeq(Append(s, d), n + 1, Len(s) + 1) = Append(SubSeq(s, n + 1, Len(s)), d)
<1> DEFINE l == Len(s)
           a == SubSeq(Append(s, d), n + 1, l + 1)
           b == SubSeq(s, n + 1, l)
<1>1. l \in Nat /\ n \in Nat /\ n <= l
  OBVIOUS
<1>2. /\ Append(s, d) \in Seq(S) /\ Len(Append(s, d)) = l + 1 /\ Append(s, d)[l + 1] = d
      /\ \A i \in 1..l : Append(s, d)[i] = s[i]
  OBVIOUS
<1>3. b \in Seq(S) /\ Len(b) = l - n /\ \A i \in 1..(l - n) : b[i] = s[n + i]
  BY <1>1
<1>4. a \in Seq(S) /\ Len(a) = l + 1 - n /\ \A i \in 1..(l + 1 - n) : a[i] = Append(s, d)[n + i]
  BY <1>1, <1>2
<1>5. /\ Append(b, d) \in Seq(S) /\ Len(Append(b, d)) = l + 1 - n
      /\ \A i \in 1..(l + 1 - n) : Append(b, d)[i] = IF i = l + 1 - n THEN d ELSE s[n + i]
  BY <1>1, <1>3
<1>6. \A i \in 1..(l + 1 - n) : a[i] = Append(b, d)[i]
  BY <1>1, <1>2, <1>4, <1>5
<1>7. Len(a) = Len(Append(b, d)) /\ \A i \in 1..Len(a) : a[i] = Append(b, d)[i]
  BY <1>4, <1>5, <1>6
<1>8. QED  BY <1>4, <1>5, <1>7, SeqEqual

LEMMA AllHeard ==
  ASSUME NEW S, NEW s \in Seq(S)  PROVE SubSeq(s, 1, Len(s)) = s
  OBVIOUS

LEMMA NoneHeard ==
  ASSUME NEW S, NEW s \in Seq(S)  PROVE SubSeq(s, Len(s) + 1, Len(s)) = <<>>
  OBVIOUS

\* The messages are the scans that were sent, in their order.
LEMMA KeepsReports ==
  ASSUME scans \in Seq(Scan), kiosk \in Seq(Message), Devices!ReportIsScan,
         NEW x \in Scan, NEW m \in Message, Says(m, x), Added(x, m)
  PROVE  Devices!ReportIsScan'
<1> DEFINE n == Len(scans)
           sent == {i \in DOMAIN scans : scans[i].fate = "sent"}
           rank(i) == Cardinality(1..i \cap sent)
           sent1 == {i \in DOMAIN scans' : scans'[i].fate = "sent"}
           rank1(i) == Cardinality(1..i \cap sent1)
<1>1. /\ n \in Nat /\ DOMAIN scans = 1..n /\ DOMAIN scans' = 1..(n + 1)
      /\ scans'[n + 1] = x /\ \A i \in 1..n : scans'[i] = scans[i]
  BY DEF Added
<1>2. IsFiniteSet(sent)
  <2>1. IsFiniteSet(1..n)
    BY <1>1, FS_Interval
  <2>2. sent \in SUBSET (1..n)
    BY <1>1
  <2>3. QED  BY <2>1, <2>2, FS_Subset
<1>3. Len(kiosk) = Cardinality(sent) /\ \A i \in sent : Says(kiosk[rank(i)], scans[i])
  BY SameCount DEF Devices!ReportIsScan, Says, Heard
<1>4. Cardinality(sent) \in Nat
  BY <1>2, FS_CardinalityType
<1>5. \A i \in 1..n : 1..i \cap sent1 = 1..i \cap sent
  BY <1>1
<1>6. \A i \in sent : rank(i) \in 1..Len(kiosk)
  <2> SUFFICES ASSUME NEW i \in sent  PROVE rank(i) \in 1..Len(kiosk)
    OBVIOUS
  <2>1. 1..i \cap sent \in SUBSET sent
    OBVIOUS
  <2>2. IsFiniteSet(1..i \cap sent) /\ rank(i) <= Cardinality(sent)
    BY <1>2, <2>1, FS_Subset
  <2>3. i \in 1..i \cap sent
    BY <1>1
  <2>4. rank(i) # 0
    BY <2>2, <2>3, FS_EmptySet
  <2>5. rank(i) \in Nat
    BY <2>2, FS_CardinalityType
  <2>6. QED  BY <1>3, <1>4, <2>2, <2>4, <2>5
<1>7. CASE x.fate # "sent"
  <2>1. sent1 = sent
    BY <1>1, <1>7
  <2>2. kiosk' = kiosk
    BY <1>7 DEF Added
  <2>3. Len(kiosk') = Cardinality(sent1)
    BY <1>3, <2>1, <2>2
  <2>4. ASSUME NEW i \in sent1  PROVE Says(kiosk'[rank1(i)], scans'[i])
    <3>1. i \in sent /\ i \in 1..n /\ rank1(i) = rank(i)
      BY <2>1, <1>1
    <3>2. scans'[i] = scans[i]
      BY <3>1, <1>1
    <3>3. QED  BY <3>1, <3>2, <2>2, <1>3
  <2>5. QED  BY <2>3, <2>4, SameCount DEF Devices!ReportIsScan, Says, Heard
<1>8. CASE x.fate = "sent"
  <2>1. sent1 = sent \cup {n + 1} /\ n + 1 \notin sent
    BY <1>1, <1>8
  <2>2. kiosk' = Append(kiosk, m)
    BY <1>8 DEF Added
  <2>3. Len(kiosk') = Cardinality(sent1)
    <3>1. Cardinality(sent1) = Cardinality(sent) + 1
      BY <2>1, <1>2, FS_AddElement
    <3>2. QED  BY <3>1, <2>2, <1>3
  <2>4. ASSUME NEW i \in sent1  PROVE Says(kiosk'[rank1(i)], scans'[i])
    <3>1. CASE i = n + 1
      <4>1. 1..i \cap sent1 = sent1
        BY <3>1, <1>1
      <4>2. rank1(i) = Len(kiosk')
        BY <4>1, <2>3
      <4>3. kiosk'[Len(kiosk')] = m
        BY <2>2
      <4>4. QED  BY <4>2, <4>3, <3>1, <1>1
    <3>2. CASE i \in sent
      <4>1. i \in 1..n
        BY <3>2, <1>1
      <4>2. rank1(i) = rank(i)
        BY <4>1, <1>5
      <4>3. scans'[i] = scans[i]
        BY <4>1, <1>1
      <4>4. kiosk'[rank(i)] = kiosk[rank(i)]
        BY <3>2, <1>6, <2>2
      <4>5. Says(kiosk[rank(i)], scans[i])
        BY <3>2, <1>3
      <4>6. QED  BY <4>2, <4>3, <4>4, <4>5
    <3>3. QED  BY <2>1, <3>1, <3>2
  <2>5. QED  BY <2>3, <2>4, SameCount DEF Devices!ReportIsScan, Says, Heard
<1>9. QED  BY <1>7, <1>8

LEMMA KeepsLetThrough ==
  ASSUME NEW S, scans \in Seq(S), NEW x \in S, scans' = Append(scans, x), NEW t, LetThrough(t)
  PROVE  \E i \in DOMAIN scans' : /\ scans'[i].from = "barcode" /\ scans'[i].at = t
                                  /\ scans'[i].fate \in {"sent", "lost"}
<1>1. PICK i \in DOMAIN scans :
        scans[i].from = "barcode" /\ scans[i].fate \in {"sent", "lost"} /\ scans[i].at = t
  BY DEF LetThrough
<1>2. i \in DOMAIN scans' /\ scans'[i] = scans[i]
  OBVIOUS
<1>3. QED  BY <1>1, <1>2

\* A scan is only dropped for one let through within the debounce time.
LEMMA KeepsDrops ==
  ASSUME scans \in Seq(Scan), NEW x \in Scan, scans' = Append(scans, x), Devices!DropsAreClose,
         x.fate = "dropped" => LetThrough(last) /\ x.at - last <= Debounce
  PROVE  Devices!DropsAreClose'
<1> DEFINE n == Len(scans)
           Close(S, j) == \E i \in 1..(j - 1) : /\ S[i].from = "barcode" /\ S[i].fate \in {"sent", "lost"}
                                                /\ S[j].at - S[i].at <= Debounce
<1>1. /\ n \in Nat /\ DOMAIN scans = 1..n /\ DOMAIN scans' = 1..(n + 1)
      /\ scans'[n + 1] = x /\ \A i \in 1..n : scans'[i] = scans[i]
  OBVIOUS
<1>2. ASSUME NEW j \in DOMAIN scans', scans'[j].fate = "dropped"  PROVE Close(scans', j)
  <2>1. CASE j = n + 1
    <3>1. PICK i \in 1..n :
            scans[i].from = "barcode" /\ scans[i].fate \in {"sent", "lost"} /\ scans[i].at = last
      BY <1>1, <1>2, <2>1 DEF LetThrough
    <3>2. scans'[i] = scans[i] /\ i \in 1..(j - 1) /\ scans'[j] = x
      BY <1>1, <2>1, <3>1
    <3>3. x.at - last <= Debounce
      BY <1>1, <1>2, <2>1
    <3>4. QED  BY <3>1, <3>2, <3>3
  <2>2. CASE j \in 1..n
    <3>1. scans[j].fate = "dropped" /\ scans'[j] = scans[j]
      BY <1>1, <1>2, <2>2
    <3>2. PICK i \in 1..(j - 1) : /\ scans[i].from = "barcode" /\ scans[i].fate \in {"sent", "lost"}
                                 /\ scans[j].at - scans[i].at <= Debounce
      BY <3>1, <2>2, <1>1 DEF Devices!DropsAreClose
    <3>3. scans'[i] = scans[i]
      BY <3>2, <2>2, <1>1
    <3>4. QED  BY <3>1, <3>2, <3>3
  <2>3. QED  BY <1>1, <2>1, <2>2
<1>3. QED  BY <1>2 DEF Devices!DropsAreClose

\* A code is reported later than the debounce time after the ones of its life.
LEMMA KeepsDebounced ==
  ASSUME DeviceTypes, ReportedInv, Debounce \in Nat, NEW m \in Message, kiosk' = Append(kiosk, m),
         m.from = "barcode" => m.life = life["barcode"] /\ m.at - last > Debounce
  PROVE  Devices!Debounced'
<1> DEFINE n == Len(kiosk)
<1>1. /\ n \in Nat /\ DOMAIN kiosk = 1..n /\ DOMAIN kiosk' = 1..(n + 1)
      /\ kiosk'[n + 1] = m /\ \A i \in 1..n : kiosk'[i] = kiosk[i] /\ kiosk[i] \in Message
  BY DEF DeviceTypes
<1>2. ASSUME NEW i \in DOMAIN kiosk', NEW j \in DOMAIN kiosk', i < j,
             kiosk'[i].from = "barcode", kiosk'[j].from = "barcode", kiosk'[i].life = kiosk'[j].life
      PROVE  kiosk'[j].at - kiosk'[i].at > Debounce
  <2>1. i \in 1..n /\ kiosk'[i] = kiosk[i]
    BY <1>1, <1>2
  <2>2. CASE j = n + 1
    <3>1. kiosk[i].life = life["barcode"] /\ m.at - last > Debounce
      BY <1>1, <1>2, <2>1, <2>2
    <3>2. kiosk[i].at <= last
      BY <1>1, <1>2, <2>1, <3>1 DEF ReportedInv
    <3>3. kiosk[i].at \in Nat /\ m.at \in Nat /\ last \in Nat
      BY <1>1, <2>1 DEF Message, DeviceTypes
    <3>4. QED  BY <1>1, <2>1, <2>2, <3>1, <3>2, <3>3
  <2>3. CASE j \in 1..n
    <3>1. kiosk'[j] = kiosk[j]
      BY <1>1, <2>3
    <3>2. QED  BY <1>1, <1>2, <2>1, <2>3, <3>1 DEF ReportedInv, Devices!Debounced
  <2>4. QED  BY <1>1, <2>2, <2>3
<1>3. QED  BY <1>2 DEF Devices!Debounced

LEMMA DevicesStart == ASSUME DeviceBound  PROVE Devices!Init => DeviceInv
<1> SUFFICES ASSUME Devices!Init  PROVE DeviceInv
  OBVIOUS
<1>1. DeviceTypes
  <2>1. /\ keys \in Seq(Digit) /\ missed \in 0..Len(keys) /\ buffer \in Seq(Digit)
        /\ buffer = SubSeq(keys, missed + 1, Len(keys))
    BY DEF Devices!Init
  <2>2. ready \in [Devices!Service -> Readiness] /\ life \in [Devices!Service -> Nat]
    BY DEF Devices!Init, Readiness
  <2>3. kiosk \in Seq(Message) /\ scans \in Seq(Scan) /\ kiosk = <<>> /\ buffer = <<>>
    BY DEF Devices!Init
  <2>4. now \in Nat /\ now > Debounce /\ last \in 0..now /\ reading \in [Reader -> Card \cup {None}]
    BY DEF Devices!Init, DeviceBound
  <2>5. QED  BY <2>1, <2>2, <2>3, <2>4 DEF DeviceTypes
<1>2. kiosk = <<>> /\ scans = <<>> /\ last = 0
  BY DEF Devices!Init
<1>3. Devices!ReportIsScan
  <2>1. {i \in DOMAIN scans : scans[i].fate = "sent"} = {}
    BY <1>2
  <2>2. Len(kiosk) = 0 /\ Cardinality({}) = 0
    BY <1>2, FS_EmptySet
  <2>3. QED  BY <2>1, <2>2, SameCount DEF Devices!ReportIsScan
<1>4. ReportedInv /\ LastInv
  BY <1>2 DEF ReportedInv, LastInv, Devices!Debounced, Devices!DropsAreClose
<1>5. QED  BY <1>1, <1>3, <1>4 DEF DeviceInv

----------------------------------------------------------------------------
(* Devices: the steps. *)

\* What a step that scans nothing keeps.
LEMMA SameReports ==
  ASSUME Devices!ReportIsScan, UNCHANGED <<kiosk, scans>>  PROVE Devices!ReportIsScan'
<1>1. /\ Len(kiosk) = Devices!Cardinality({i \in DOMAIN scans : scans[i].fate = "sent"})
      /\ \A i \in {j \in DOMAIN scans : scans[j].fate = "sent"} :
            Says(kiosk[Devices!Cardinality(1..i \cap {j \in DOMAIN scans : scans[j].fate = "sent"})],
                 scans[i])
  BY DEF Devices!ReportIsScan, Says, Heard
<1>2. QED  BY <1>1 DEF Devices!ReportIsScan, Says, Heard

LEMMA QuietKeeps ==
  ASSUME DeviceInv, UNCHANGED <<kiosk, scans, last>>, life'["barcode"] = life["barcode"], DeviceTypes'
  PROVE  DeviceInv'
<1>1. Devices!ReportIsScan' /\ LastInv'
  BY SameReports DEF DeviceInv, LastInv, Devices!DropsAreClose, LetThrough
<1>2. ReportedInv'
  BY DEF DeviceInv, ReportedInv, Devices!Debounced
<1>3. QED  BY <1>1, <1>2 DEF DeviceInv

LEMMA KeyKeeps ==
  ASSUME DeviceInv, NEW d \in Digit, Devices!Key(d)  PROVE DeviceInv'
<1>1. DeviceTypes
  BY DEF DeviceInv
<1>2. /\ keys' = Append(keys, d) /\ keys' \in Seq(Digit) /\ Len(keys') = Len(keys) + 1
      /\ Len(keys) \in Nat
  BY <1>1 DEF Devices!Key, DeviceTypes
<1>3. /\ missed' \in 0..Len(keys') /\ buffer' \in Seq(Digit)
      /\ buffer' = SubSeq(keys', missed' + 1, Len(keys'))
      /\ ready'["barcode"] = "down" => buffer' = <<>>
  <2>1. CASE ready["barcode"] = "down"
    <3>1. buffer = <<>> /\ missed' = Len(keys') /\ buffer' = buffer
      BY <1>1, <1>2, <2>1 DEF Devices!Key, DeviceTypes
    <3>2. SubSeq(keys', Len(keys') + 1, Len(keys')) = <<>>
      BY <1>2, NoneHeard
    <3>3. QED  BY <1>2, <3>1, <3>2
  <2>2. CASE ready["barcode"] # "down"
    <3>1. buffer' = Append(buffer, d) /\ missed' = missed /\ ready' = ready
      BY <2>2 DEF Devices!Key
    <3>2. SubSeq(keys', missed + 1, Len(keys) + 1) = Append(SubSeq(keys, missed + 1, Len(keys)), d)
      BY <1>1, <1>2, HeardGrows DEF DeviceTypes
    <3>3. /\ missed \in 0..Len(keys) /\ buffer \in Seq(Digit)
          /\ buffer = SubSeq(keys, missed + 1, Len(keys))
      BY <1>1 DEF DeviceTypes
    <3>4. missed' \in 0..Len(keys') /\ buffer' \in Seq(Digit) /\ ready'["barcode"] # "down"
      BY <1>2, <2>2, <3>1, <3>3
    <3>5. buffer' = SubSeq(keys', missed' + 1, Len(keys'))
      BY <1>2, <3>1, <3>2, <3>3
    <3>6. QED  BY <3>4, <3>5
  <2>3. QED  BY <2>1, <2>2
<1>4. DeviceTypes'
  BY <1>1, <1>2, <1>3 DEF Devices!Key, DeviceTypes
<1>5. QED  BY <1>4, QuietKeeps DEF Devices!Key

\* What is forgotten of a code, by the service and by the history.
LEMMA Forgets ==
  ASSUME buffer' = <<>>, keys' = <<>>, missed' = 0
  PROVE  /\ keys' \in Seq(Digit) /\ missed' \in 0..Len(keys')
         /\ buffer' \in Seq(Digit) /\ buffer' = SubSeq(keys', missed' + 1, Len(keys'))
  OBVIOUS

LEMMA UnheardKeeps ==
  ASSUME DeviceInv, Devices!Unheard  PROVE DeviceInv'
<1>1. DeviceTypes'
  BY Forgets DEF Devices!Unheard, DeviceInv, DeviceTypes
<1>2. QED  BY <1>1, QuietKeeps DEF Devices!Unheard

\* The end of a process.
LEMMA EndedTypes ==
  ASSUME DeviceTypes, NEW s \in Devices!Service, Devices!Ended(s)
  PROVE  /\ ready' \in [Devices!Service -> Readiness] /\ ready'[s] = "down"
         /\ life' \in [Devices!Service -> Nat] /\ life'[s] = life[s] + 1
         /\ \A q \in Devices!Service \ {s} : ready'[q] = ready[q] /\ life'[q] = life[q]
  BY DEF Devices!Ended, DeviceTypes, Readiness

\* The reports of the earlier life are those of an earlier life.
LEMMA EndKeepsReports ==
  ASSUME DeviceTypes, ReportedInv, Devices!DropsAreClose', kiosk' = kiosk,
         last' = 0, life'["barcode"] = life["barcode"] + 1
  PROVE  ReportedInv' /\ LastInv'
<1>1. life["barcode"] \in Nat
  BY DEF DeviceTypes, Devices!Service
<1>2. \A i \in DOMAIN kiosk : kiosk[i].life \in Nat
  <2>1. \A i \in DOMAIN kiosk : kiosk[i] \in Message
    BY DEF DeviceTypes
  <2>2. QED  BY <2>1 DEF Message
<1>3. Devices!Debounced'
  BY DEF ReportedInv, Devices!Debounced
<1>4. ASSUME NEW i \in DOMAIN kiosk', kiosk'[i].from = "barcode"
      PROVE  kiosk'[i].life <= life'["barcode"] /\ kiosk'[i].life # life'["barcode"]
  <2>1. kiosk[i].life <= life["barcode"]
    BY <1>4 DEF ReportedInv
  <2>2. QED  BY <1>1, <1>2, <2>1
<1>5. QED  BY <1>3, <1>4 DEF ReportedInv, LastInv

LEMMA KilledKeeps ==
  ASSUME DeviceInv, Devices!Killed  PROVE DeviceInv'
<1>1. DeviceTypes /\ Devices!Ended("barcode") /\ "barcode" \in Devices!Service
  BY DEF Devices!Killed, DeviceInv, Devices!Service
<1>2. /\ keys' = keys /\ missed' = Len(keys) /\ UNCHANGED <<now, kiosk, scans, reading>>
      /\ buffer' = <<>> /\ last' = 0
  BY <1>1 DEF Devices!Killed, Devices!Ended
<1>3. /\ ready' \in [Devices!Service -> Readiness] /\ life' \in [Devices!Service -> Nat]
      /\ life'["barcode"] = life["barcode"] + 1
  BY <1>1, EndedTypes
<1>4. /\ missed' \in 0..Len(keys') /\ buffer' \in Seq(Digit)
      /\ buffer' = SubSeq(keys', missed' + 1, Len(keys'))
  <2>1. keys \in Seq(Digit) /\ Len(keys) \in Nat
    BY <1>1 DEF DeviceTypes
  <2>2. QED  BY <1>2, <2>1, NoneHeard
<1>5. DeviceTypes'
  BY <1>1, <1>2, <1>3, <1>4 DEF DeviceTypes
<1>6. Devices!ReportIsScan' /\ Devices!DropsAreClose'
  BY <1>2, SameReports DEF DeviceInv, LastInv, Devices!DropsAreClose
<1>7. ReportedInv' /\ LastInv'
  BY <1>1, <1>2, <1>3, <1>6, EndKeepsReports DEF DeviceInv
<1>8. QED  BY <1>5, <1>6, <1>7 DEF DeviceInv

LEMMA DetectKeeps ==
  ASSUME DeviceInv, NEW r \in Reader, NEW c \in Card, Devices!Detect(r, c)  PROVE DeviceInv'
<1>1. DeviceTypes'
  BY DEF Devices!Detect, DeviceInv, DeviceTypes
<1>2. QED  BY <1>1, QuietKeeps DEF Devices!Detect

LEMMA TransmitFailsKeeps ==
  ASSUME DeviceInv, NEW r \in Reader, Devices!TransmitFails(r)  PROVE DeviceInv'
<1>1. DeviceTypes /\ Devices!Ended("nfc") /\ "nfc" \in Devices!Service
  BY DEF Devices!TransmitFails, DeviceInv, Devices!Service
<1>2. /\ ready' \in [Devices!Service -> Readiness] /\ life' \in [Devices!Service -> Nat]
      /\ ready'["barcode"] = ready["barcode"] /\ life'["barcode"] = life["barcode"]
  BY <1>1, EndedTypes DEF Devices!Service
<1>3. reading' \in [Reader -> Card \cup {None}] /\ UNCHANGED <<buffer, last>>
  BY <1>1 DEF Devices!Ended
<1>4. DeviceTypes'
  BY <1>1, <1>2, <1>3 DEF Devices!TransmitFails, DeviceTypes
<1>5. QED  BY <1>2, <1>3, <1>4, QuietKeeps DEF Devices!TransmitFails

LEMMA TickKeeps ==
  ASSUME DeviceInv, DeviceBound, Devices!Tick  PROVE DeviceInv'
<1>1. DeviceTypes'
  BY DEF Devices!Tick, DeviceInv, DeviceTypes, DeviceBound
<1>2. QED  BY <1>1, QuietKeeps DEF Devices!Tick

LEMMA ReconnectingKeeps ==
  ASSUME DeviceInv, NEW s \in Devices!Service, Devices!Reconnecting(s)  PROVE DeviceInv'
<1>1. DeviceTypes'
  BY DEF Devices!Reconnecting, DeviceInv, DeviceTypes, Readiness
<1>2. QED  BY <1>1, QuietKeeps DEF Devices!Reconnecting

LEMMA ConnectsKeeps ==
  ASSUME DeviceInv, NEW s \in Devices!Service, Devices!Connects(s)  PROVE DeviceInv'
<1>1. DeviceTypes'
  BY DEF Devices!Connects, DeviceInv, DeviceTypes, Readiness
<1>2. QED  BY <1>1, QuietKeeps DEF Devices!Connects

\* ENTER: last_scan_time becomes now, with the report no earlier than it, or
\* starts again from 0 in a new life.
LEMMA ReportKeeps ==
  ASSUME DeviceInv, DeviceBound, Devices!Report  PROVE DeviceInv'
<1> DEFINE fate == Devices!Fate("barcode")
           x == [from |-> "barcode", code |-> keys, missed |-> missed, at |-> now, fate |-> fate,
                 life |-> life["barcode"]]
           m == [from |-> "barcode", type |-> "scan_event", code |-> buffer, at |-> now,
                 life |-> life["barcode"]]
<1>1. DeviceTypes /\ buffer # <<>> /\ now - last > Debounce
  BY DEF Devices!Report, Devices!TooFast, DeviceInv
<1>2. fate \in {"sent", "lost", "thrown"} /\ (fate = "sent" <=> ready["barcode"] = "open")
  BY DEF Devices!Fate
<1>3. /\ buffer \in Seq(Digit \cup Card) /\ keys \in Seq(Digit \cup Card) /\ missed \in Nat
      /\ buffer = SubSeq(keys, missed + 1, Len(keys)) /\ now \in Nat /\ life["barcode"] \in Nat
  BY <1>1 DEF DeviceTypes, Devices!Service
<1>4. x \in Scan /\ m \in Message /\ Says(m, x)
  BY <1>2, <1>3 DEF Scan, Message, Says, Heard, Sent, Devices!Service
<1>5. Added(x, m)
  BY <1>2 DEF Devices!Report, Devices!Scanned, Devices!Send, Added
<1>6. scans \in Seq(Scan) /\ kiosk \in Seq(Message) /\ scans' = Append(scans, x)
  BY <1>1, <1>5 DEF DeviceTypes, Added
<1>7. scans' \in Seq(Scan) /\ kiosk' \in Seq(Message)
  BY <1>4, <1>5, <1>6 DEF Added
<1>8. Devices!ReportIsScan'
  BY <1>4, <1>5, <1>6, KeepsReports DEF DeviceInv
<1>9. Devices!DropsAreClose'
  <2>1. x.fate # "dropped"
    BY <1>2
  <2>2. QED  BY <1>4, <1>6, <2>1, KeepsDrops DEF DeviceInv, LastInv
<1>10. Devices!Debounced'
  <2>1. CASE kiosk' = kiosk
    BY <2>1 DEF DeviceInv, ReportedInv, Devices!Debounced
  <2>2. CASE kiosk' = Append(kiosk, m)
    BY <1>1, <1>4, <2>2, KeepsDebounced DEF DeviceInv, DeviceBound
  <2>3. QED  BY <1>5, <2>1, <2>2 DEF Added
<1>11. \A i \in DOMAIN kiosk' : (i \in DOMAIN kiosk /\ kiosk'[i] = kiosk[i]) \/ kiosk'[i] = m
  BY <1>5, <1>6 DEF Added
<1>12. \A i \in DOMAIN kiosk' : (kiosk'[i].type = "scan_event") <=> (kiosk'[i].code # <<>>)
  BY <1>1, <1>11 DEF DeviceTypes
<1>13. /\ ready' \in [Devices!Service -> Readiness]
       /\ life' \in [Devices!Service -> Nat] /\ UNCHANGED <<now, reading>>
       /\ buffer' = <<>> /\ keys' = <<>> /\ missed' = 0
  <2>1. CASE fate = "thrown"
    <3>1. Devices!Ended("barcode") /\ "barcode" \in Devices!Service
      BY <2>1 DEF Devices!Report, Devices!Service
    <3>2. QED  BY <1>1, <3>1, EndedTypes DEF Devices!Report, Devices!Ended
  <2>2. CASE fate # "thrown"
    BY <1>1, <2>2 DEF Devices!Report, Devices!Emptied, DeviceTypes
  <2>3. QED  BY <2>1, <2>2
<1>14. \A i \in DOMAIN kiosk : kiosk[i] \in Message /\ kiosk[i].at \in Nat /\ kiosk[i].life \in Nat
  <2>1. \A i \in DOMAIN kiosk : kiosk[i] \in Message
    BY <1>6
  <2>2. QED  BY <2>1 DEF Message
<1>15. CASE fate = "thrown"
  <2>1. Devices!Ended("barcode") /\ "barcode" \in Devices!Service
    BY <1>15 DEF Devices!Report, Devices!Service
  <2>2. last' = 0 /\ life'["barcode"] = life["barcode"] + 1
    BY <1>1, <2>1, EndedTypes DEF Devices!Ended
  <2>3. DeviceTypes'
    BY <1>1, <1>7, <1>12, <1>13, <2>2, Forgets DEF DeviceTypes
  <2>4. kiosk' = kiosk
    BY <1>5, <1>15 DEF Added
  <2>5. ReportedInv' /\ LastInv'
    BY <1>1, <1>9, <2>2, <2>4, EndKeepsReports DEF DeviceInv
  <2>6. QED  BY <1>8, <2>3, <2>5 DEF DeviceInv
<1>16. CASE fate # "thrown"
  <2>1. last' = now /\ life' = life
    BY <1>16 DEF Devices!Report, Devices!Stamp
  <2>2. DeviceTypes'
    BY <1>1, <1>7, <1>12, <1>13, <2>1, Forgets DEF DeviceTypes
  <2>3. ASSUME NEW i \in DOMAIN kiosk', kiosk'[i].from = "barcode"
        PROVE  /\ kiosk'[i].life <= life'["barcode"]
               /\ kiosk'[i].life = life'["barcode"] => kiosk'[i].at <= last'
    <3>1. CASE kiosk'[i] = m
      BY <1>3, <2>1, <3>1
    <3>2. CASE i \in DOMAIN kiosk /\ kiosk'[i] = kiosk[i]
      <4>1. /\ kiosk[i].life <= life["barcode"]
            /\ kiosk[i].life = life["barcode"] => kiosk[i].at <= last
        BY <2>3, <3>2 DEF DeviceInv, ReportedInv
      <4>2. last \in Nat /\ last <= now
        BY <1>1 DEF DeviceTypes
      <4>3. QED  BY <1>3, <1>14, <2>1, <3>2, <4>1, <4>2
    <3>3. QED  BY <1>11, <3>1, <3>2
  <2>4. ReportedInv'
    BY <1>10, <2>3 DEF ReportedInv
  <2>5. LetThrough(last)'
    <3>1. Len(scans') \in DOMAIN scans' /\ scans'[Len(scans')] = x
      BY <1>6
    <3>2. x.from = "barcode" /\ x.fate \in {"sent", "lost"} /\ x.at = last'
      BY <1>2, <1>16, <2>1
    <3>3. QED  BY <3>1, <3>2 DEF LetThrough
  <2>6. QED  BY <1>8, <1>9, <2>2, <2>4, <2>5 DEF DeviceInv, LastInv
<1>17. QED  BY <1>15, <1>16

\* ENTER within the debounce time: last_scan_time is not 0, or now would be
\* within the debounce time of 0.
LEMMA DropKeeps ==
  ASSUME DeviceInv, DeviceBound, Devices!Drop  PROVE DeviceInv'
<1> DEFINE x == [from |-> "barcode", code |-> keys, missed |-> missed, at |-> now,
                 fate |-> "dropped", life |-> life["barcode"]]
<1>1. DeviceTypes /\ now - last <= Debounce
  BY DEF Devices!Drop, Devices!TooFast, DeviceInv, DeviceTypes, DeviceBound
<1>2. x \in Scan
  <2>1. keys \in Seq(Digit \cup Card) /\ missed \in Nat /\ now \in Nat /\ life["barcode"] \in Nat
    BY <1>1 DEF DeviceTypes, Devices!Service
  <2>2. QED  BY <2>1 DEF Scan, Sent, Devices!Service
<1>3. scans \in Seq(Scan) /\ kiosk \in Seq(Message) /\ scans' = Append(scans, x) /\ kiosk' = kiosk
  BY <1>1 DEF Devices!Drop, Devices!Scanned, DeviceTypes
<1>4. last' = last /\ life' = life
  BY DEF Devices!Drop, Devices!Stamp
<1>5. Devices!ReportIsScan'
  <2> DEFINE m == [from |-> "barcode", type |-> "scan_event", code |-> buffer, at |-> now,
                   life |-> life["barcode"]]
  <2>1. buffer \in Seq(Digit \cup Card) /\ buffer = SubSeq(keys, missed + 1, Len(keys))
    BY <1>1 DEF DeviceTypes
  <2>2. m \in Message /\ Says(m, x)
    BY <1>2, <2>1 DEF Message, Scan, Says, Heard
  <2>3. Added(x, m)
    BY <1>3 DEF Added
  <2>4. QED  BY <1>2, <1>3, <2>2, <2>3, KeepsReports DEF DeviceInv
<1>6. LetThrough(last)
  BY <1>1 DEF DeviceInv, LastInv, DeviceTypes, DeviceBound
<1>7. Devices!DropsAreClose'
  BY <1>1, <1>2, <1>3, <1>6, KeepsDrops DEF DeviceInv, LastInv
<1>8. LetThrough(last)'
  BY <1>2, <1>3, <1>4, <1>6, KeepsLetThrough DEF LetThrough
<1>9. ReportedInv'
  BY <1>3, <1>4 DEF DeviceInv, ReportedInv, Devices!Debounced
<1>10. DeviceTypes'
  BY <1>1, <1>2, <1>3, <1>4, Forgets DEF Devices!Drop, Devices!Emptied, DeviceTypes
<1>11. QED  BY <1>5, <1>7, <1>8, <1>9, <1>10 DEF DeviceInv, LastInv

\* A card's answer has nothing to do with the barcodes.
LEMMA TransmittedKeeps ==
  ASSUME DeviceInv, DeviceBound, NEW r \in Reader, NEW ok \in BOOLEAN, Devices!Transmitted(r, ok)
  PROVE  DeviceInv'
<1> DEFINE fate == Devices!Fate("nfc")
           code == IF ok THEN <<reading[r]>> ELSE <<>>
           x == [from |-> "nfc", code |-> code, missed |-> 0, at |-> now, fate |-> fate, life |-> life["nfc"]]
           m == [from |-> "nfc", type |-> Devices!CardType(ok), code |-> code, at |-> now,
                 life |-> life["nfc"]]
<1>1. DeviceTypes /\ reading[r] \in Card
  BY DEF Devices!Transmitted, DeviceInv, DeviceTypes
<1>2. fate \in {"sent", "lost", "thrown"} /\ (fate = "sent" <=> ready["nfc"] = "open")
  BY DEF Devices!Fate
<1>3. code \in Seq(Digit \cup Card) /\ now \in Nat /\ life["nfc"] \in Nat
  <2>1. <<>> \in Seq(Digit \cup Card) /\ <<reading[r]>> \in Seq(Digit \cup Card)
    BY <1>1
  <2>2. now \in Nat /\ life["nfc"] \in Nat
    BY <1>1 DEF DeviceTypes, Devices!Service
  <2>3. QED  BY <2>1, <2>2
<1>4. x \in Scan /\ m \in Message /\ Says(m, x)
  <2>1. SubSeq(code, 1, Len(code)) = code
    BY <1>3, AllHeard
  <2>2. Heard(x) = code
    BY <2>1 DEF Heard
  <2>3. QED  BY <1>2, <1>3, <2>2 DEF Scan, Message, Says, Sent, Devices!Service, Devices!CardType
<1>5. Added(x, m)
  BY <1>2 DEF Devices!Transmitted, Devices!Scanned, Devices!Send, Added
<1>6. scans \in Seq(Scan) /\ kiosk \in Seq(Message) /\ scans' = Append(scans, x)
  BY <1>1, <1>5 DEF DeviceTypes, Added
<1>7. scans' \in Seq(Scan) /\ kiosk' \in Seq(Message)
  BY <1>4, <1>5, <1>6 DEF Added
<1>8. Devices!ReportIsScan'
  BY <1>4, <1>5, <1>6, KeepsReports DEF DeviceInv
<1>9. UNCHANGED <<now, buffer, last, keys, missed>>
  BY DEF Devices!Transmitted, Devices!Ended
<1>10. Devices!DropsAreClose'
  <2>1. x.fate # "dropped"
    BY <1>2
  <2>2. QED  BY <1>4, <1>6, <2>1, KeepsDrops DEF DeviceInv, LastInv
<1>11. LastInv'
  <2>1. CASE last = 0
    BY <1>9, <1>10, <2>1 DEF LastInv
  <2>2. CASE LetThrough(last)
    BY <1>4, <1>6, <1>9, <1>10, <2>2, KeepsLetThrough DEF LastInv, LetThrough
  <2>3. QED  BY <2>1, <2>2 DEF DeviceInv, LastInv
<1>12. Devices!Debounced'
  <2>1. CASE kiosk' = kiosk
    BY <2>1 DEF DeviceInv, ReportedInv, Devices!Debounced
  <2>2. CASE kiosk' = Append(kiosk, m)
    BY <1>1, <1>4, <2>2, KeepsDebounced DEF DeviceInv, DeviceBound
  <2>3. QED  BY <1>5, <2>1, <2>2 DEF Added
<1>13. \A i \in DOMAIN kiosk' : (i \in DOMAIN kiosk /\ kiosk'[i] = kiosk[i]) \/ kiosk'[i] = m
  BY <1>5, <1>6 DEF Added
<1>14. /\ ready' \in [Devices!Service -> Readiness] /\ ready'["barcode"] = ready["barcode"]
       /\ life' \in [Devices!Service -> Nat] /\ life'["barcode"] = life["barcode"]
       /\ reading' \in [Reader -> Card \cup {None}]
  <2>1. CASE fate = "thrown"
    <3>1. Devices!Ended("nfc") /\ "nfc" \in Devices!Service
      BY <2>1 DEF Devices!Transmitted, Devices!Service
    <3>2. QED  BY <1>1, <3>1, EndedTypes DEF Devices!Ended, Devices!Service
  <2>2. CASE fate # "thrown"
    BY <1>1, <2>2 DEF Devices!Transmitted, DeviceTypes
  <2>3. QED  BY <2>1, <2>2
<1>15. ReportedInv'
  BY <1>9, <1>12, <1>13, <1>14 DEF DeviceInv, ReportedInv
<1>16. \A i \in DOMAIN kiosk' : (kiosk'[i].type = "scan_event") <=> (kiosk'[i].code # <<>>)
  <2>1. (m.type = "scan_event") <=> (m.code # <<>>)
    BY DEF Devices!CardType
  <2>2. QED  BY <1>1, <1>13, <2>1 DEF DeviceTypes
<1>17. DeviceTypes'
  BY <1>1, <1>7, <1>9, <1>14, <1>16 DEF DeviceTypes
<1>18. QED  BY <1>8, <1>11, <1>15, <1>17 DEF DeviceInv

\* The reader services keep the invariant.
LEMMA DevicesKeep ==
  ASSUME DeviceBound  PROVE Devices!Spec => []DeviceInv
<1>1. DeviceInv /\ [Devices!Next]_Devices!vars => DeviceInv'
  <2> SUFFICES ASSUME DeviceInv, [Devices!Next]_Devices!vars  PROVE DeviceInv'
    OBVIOUS
  <2>1. CASE UNCHANGED Devices!vars
    <3>1. DeviceTypes'
      BY <2>1 DEF Devices!vars, DeviceInv, DeviceTypes
    <3>2. QED  BY <2>1, <3>1, QuietKeeps DEF Devices!vars
  <2>2. CASE Devices!Next
    BY <2>2, KeyKeeps, UnheardKeeps, DetectKeeps, TransmitFailsKeeps, TickKeeps, ConnectsKeeps,
       KilledKeeps, ReconnectingKeeps, ReportKeeps, DropKeeps, TransmittedKeeps DEF Devices!Next
  <2>3. QED  BY <2>1, <2>2
<1>2. QED  BY <1>1, DevicesStart, PTL DEF Devices!Spec

\* A composed behaviour is one of the services.
LEMMA PartIsDevices == PartSpec => Devices!Spec
<1>1. PartInit => Devices!Init
  BY DEF PartInit
<1>2. [PartNext]_<<part, vars, formsVars, deviceVars>> => [Devices!Next]_Devices!vars
  BY DEF PartNext, deviceVars, Devices!vars
<1>3. QED  BY <1>1, <1>2, PTL DEF PartSpec, Devices!Spec

\* The reader's scans are reported in order and whole, but for the digits that
\* fell before the service listened, never twice within the debounce time, and
\* dropped only for one let through within it.
THEOREM ScansReported == PartSpec => []ScansAreReported
<1>1. DeviceBound
  BY ScanningAssumption DEF Devices!DevicesAssumption, DeviceBound
<1>2. DeviceInv => ScansAreReported
  BY DEF DeviceInv, ReportedInv, LastInv, ScansAreReported
<1>3. QED  BY <1>1, <1>2, PartIsDevices, DevicesKeep, PTL

----------------------------------------------------------------------------
(* Forms: the invariant. *)

Lookup == [key : Forms!Key, work : 0..cleared, token : 1..(MaxRetry + 1), retry : BOOLEAN]
Saving == [key : Forms!Key, work : 0..cleared, content : 1..edits, done : BOOLEAN, create : BOOLEAN]

\* A save whose form is on the page.
Present(s) == s.work = cleared

FormTypes ==
    /\ formView \in {"scan", "details"} /\ cleared \in 0..MaxStartOver /\ edits \in 0..MaxEdit
    /\ keyed \subseteq Forms!Key /\ IsFiniteSet(keyed)
    /\ Forms!Shown \subseteq keyed /\ (formView = "details" => Forms!Shown = keyed)
    /\ forms \in [Forms!Key -> Forms!Form \cup {None}]
    /\ \A k \in Forms!Shown : /\ forms[k].token \in 1..(MaxRetry + 1)
                              /\ forms[k].content \in 0..edits /\ forms[k].stored \in 0..edits
    /\ lookups \subseteq Lookup /\ saves \subseteq Saving
    /\ created \in [Forms!Key -> Nat] /\ lost \in [Forms!Key -> Nat]

\* A form that is not filled has a lookup on its way, and the first lookup of
\* a form that is filled has come back.
LookupInv ==
    /\ \A k \in Forms!Shown : forms[k].init \/ \E l \in lookups : Forms!Current(l) /\ l.key = k
    /\ \A l \in lookups : /\ l.retry <=> l.token # 1
                          /\ Forms!Current(l) /\ ~l.retry => ~forms[l.key].init

\* A form is busy with one save, of what it holds, if nothing was typed since.
SaveInv ==
    /\ \A k \in Forms!Shown : forms[k].busy => \E s \in saves : Present(s) /\ s.key = k
    /\ \A s \in saves : Present(s) =>
          /\ s.key \in Forms!Shown /\ forms[s.key].busy
          /\ forms[s.key].content \in {0, s.content} \/ forms[s.key].raced
          /\ s.create <=> s.key \in NoBarcode /\ ~forms[s.key].itemId
    /\ \A s, r \in saves : Present(s) /\ Present(r) /\ s.key = r.key => s = r

\* What is not stored is marked, unless it was typed during a save.
MarkedInv ==
    \A k \in Forms!Shown :
        /\ ~forms[k].init => forms[k].content = 0
        /\ forms[k].saved \/ ~forms[k].dirty =>
              forms[k].content \in {0, forms[k].stored} \/ forms[k].raced

\* The products that were made: one per lost answer, and one that is known or
\* whose answer is on its way.
CountInv ==
    \A k \in NoBarcode :
        IF k \notin Forms!Shown THEN created[k] = 0
        ELSE \/ created[k] <= lost[k]
             \/ /\ created[k] <= lost[k] + 1
                /\ \/ forms[k].itemId
                   \/ \E s \in saves : Present(s) /\ s.key = k /\ s.create /\ s.done

FormsInv == FormTypes /\ LookupInv /\ SaveInv /\ MarkedInv /\ CountInv

FormsBound ==
    /\ MaxEdit \in Nat /\ MaxRetry \in Nat /\ MaxStartOver \in Nat
    /\ Barcode \cap NoBarcode = {} /\ None \notin Forms!Form

----------------------------------------------------------------------------
(* Forms: steps on the captures. *)

LEMMA FormsStart == ASSUME FormsBound  PROVE Forms!Init => FormsInv
<1> SUFFICES ASSUME Forms!Init  PROVE FormsInv
  OBVIOUS
<1>1. Forms!Shown = {} /\ keyed = {} /\ lookups = {} /\ saves = {}
  BY DEF Forms!Init, Forms!Shown
<1>2. FormTypes
  BY <1>1, FS_EmptySet DEF Forms!Init, FormTypes, FormsBound
<1>3. LookupInv /\ SaveInv /\ MarkedInv
  BY <1>1 DEF LookupInv, SaveInv, MarkedInv
<1>4. CountInv
  BY <1>1 DEF Forms!Init, CountInv, Forms!Key
<1>5. QED  BY <1>2, <1>3, <1>4 DEF FormsInv

\* What is shown is a form.
LEMMA ShownForm ==
  ASSUME FormTypes, NEW k \in Forms!Shown
  PROVE  k \in Forms!Key /\ forms[k] \in Forms!Form /\ forms[k] # None
  BY DEF FormTypes, Forms!Shown

\* A step on one form.
LEMMA OneForm ==
  ASSUME FormTypes, FormsBound, NEW k \in Forms!Shown, NEW g \in Forms!Form,
         forms' = [forms EXCEPT ![k] = g]
  PROVE  /\ forms' \in [Forms!Key -> Forms!Form \cup {None}] /\ Forms!Shown' = Forms!Shown
         /\ forms'[k] = g /\ \A j \in Forms!Key : j # k => forms'[j] = forms[j]
<1>1. /\ forms' \in [Forms!Key -> Forms!Form \cup {None}]
      /\ forms'[k] = g /\ \A j \in Forms!Key : j # k => forms'[j] = forms[j]
  BY ShownForm DEF FormTypes
<1>2. Forms!Shown' = {j \in Forms!Key : forms'[j] # None}
  BY DEF Forms!Shown
<1>3. Forms!Shown' = Forms!Shown
  BY <1>1, <1>2 DEF Forms!Shown, FormsBound
<1>4. QED  BY <1>1, <1>3

LEMMA ScannedKeeps ==
  ASSUME FormsInv, NEW k \in Forms!Key, Forms!Scanned(k)  PROVE FormsInv'
<1>1. /\ keyed' = keyed \cup {k} /\ formView = "scan"
      /\ UNCHANGED <<formView, forms, cleared, lookups, saves, edits, created, lost>>
  BY DEF Forms!Scanned
<1>2. Forms!Shown' = Forms!Shown
  BY <1>1 DEF Forms!Shown
<1>3. IsFiniteSet(keyed')
  BY <1>1, FS_AddElement DEF FormsInv, FormTypes
<1>4. FormTypes'
  BY <1>1, <1>2, <1>3 DEF FormsInv, FormTypes, Lookup, Saving
<1>5. LookupInv' /\ SaveInv' /\ MarkedInv' /\ CountInv'
  BY <1>1, <1>2 DEF FormsInv, LookupInv, SaveInv, MarkedInv, CountInv, Present, Forms!Current
<1>6. QED  BY <1>4, <1>5 DEF FormsInv

\* The new forms are not filled, each has a lookup, and nothing was made for them.
LEMMA DetailsKeep ==
  ASSUME FormsInv, FormsBound, NEW cs \in SUBSET Forms!Key, keyed \subseteq cs, IsFiniteSet(cs),
         keyed' = cs, Forms!ShowDetailsView(cs), UNCHANGED <<cleared, saves, edits, created, lost>>
  PROVE  FormsInv'
<1> DEFINE new == cs \ Forms!Shown
           asked == {[key |-> k, work |-> cleared, token |-> 1, retry |-> FALSE] : k \in new}
<1>1. /\ formView' = "details"
      /\ forms' = [k \in Forms!Key |-> IF k \in new THEN Forms!NewForm ELSE forms[k]]
      /\ lookups' = lookups \cup asked
  BY DEF Forms!ShowDetailsView
<1>2. Forms!NewForm \in Forms!Form /\ Forms!NewForm # None
  <2>1. Forms!NewForm \in Forms!Form
    BY DEF Forms!NewForm, Forms!Form
  <2>2. QED  BY <2>1 DEF FormsBound
<1>3. Forms!Shown' = cs
  <2>1. Forms!Shown' = {k \in Forms!Key : forms'[k] # None}
    BY DEF Forms!Shown
  <2>2. Forms!Shown \subseteq cs
    BY DEF FormsInv, FormTypes
  <2>3. QED  BY <1>1, <1>2, <2>1, <2>2 DEF Forms!Shown
<1>4. \A k \in Forms!Shown' : \/ k \in Forms!Shown /\ forms'[k] = forms[k]
                              \/ k \in new /\ forms'[k] = Forms!NewForm
  <2> SUFFICES ASSUME NEW k \in cs
               PROVE  \/ k \in Forms!Shown /\ forms'[k] = forms[k]
                      \/ k \in new /\ forms'[k] = Forms!NewForm
    BY <1>3
  <2>1. k \in Forms!Key
    OBVIOUS
  <2>2. QED  BY <1>1, <2>1
<1>5. asked \subseteq Lookup
  <2> SUFFICES ASSUME NEW k \in new
               PROVE  [key |-> k, work |-> cleared, token |-> 1, retry |-> FALSE] \in Lookup
    OBVIOUS
  <2>1. k \in Forms!Key /\ cleared \in 0..cleared /\ 1 \in 1..(MaxRetry + 1)
    BY DEF FormsInv, FormTypes, FormsBound
  <2>2. QED  BY <2>1 DEF Lookup
<1>6. FormTypes'
  <2>1. forms' \in [Forms!Key -> Forms!Form \cup {None}]
    BY <1>1, <1>2 DEF FormsInv, FormTypes
  <2>2. ASSUME NEW k \in Forms!Shown'
        PROVE  /\ forms'[k].token \in 1..(MaxRetry + 1)
               /\ forms'[k].content \in 0..edits' /\ forms'[k].stored \in 0..edits'
    BY <1>4 DEF FormsInv, FormTypes, FormsBound, Forms!NewForm
  <2>3. lookups' \subseteq Lookup' /\ saves' \subseteq Saving'
    BY <1>1, <1>5 DEF FormsInv, FormTypes, Lookup, Saving
  <2>4. QED  BY <1>1, <1>3, <2>1, <2>2, <2>3 DEF FormsInv, FormTypes
<1>7. LookupInv'
  <2>1. ASSUME NEW k \in Forms!Shown', ~forms'[k].init
        PROVE  \E l \in lookups' : Forms!Current(l)' /\ l.key = k
    <3>1. CASE k \in Forms!Shown /\ forms'[k] = forms[k]
      <4>1. PICK l \in lookups : Forms!Current(l) /\ l.key = k
        BY <2>1, <3>1 DEF FormsInv, LookupInv
      <4>2. Forms!Current(l)' /\ l \in lookups'
        BY <1>1, <3>1, <4>1 DEF Forms!Current
      <4>3. QED  BY <4>1, <4>2
    <3>2. CASE k \in new /\ forms'[k] = Forms!NewForm
      <4> DEFINE l == [key |-> k, work |-> cleared, token |-> 1, retry |-> FALSE]
      <4>1. l \in lookups' /\ Forms!Current(l)'
        BY <1>1, <1>2, <3>2 DEF Forms!Current, Forms!NewForm
      <4>2. QED  BY <4>1
    <3>3. QED  BY <1>4, <3>1, <3>2
  <2>2. ASSUME NEW l \in lookups'
        PROVE  /\ l.retry <=> l.token # 1
               /\ Forms!Current(l)' /\ ~l.retry => ~forms'[l.key].init
    <3>1. l.retry <=> l.token # 1
      BY <1>1 DEF FormsInv, LookupInv
    <3>2. ASSUME Forms!Current(l)', ~l.retry  PROVE ~forms'[l.key].init
      <4>1. l.key \in Forms!Shown'
        BY <1>1, <1>5, <3>2 DEF Forms!Current, Forms!Shown, Lookup, FormsInv, FormTypes
      <4>2. CASE l.key \in new /\ forms'[l.key] = Forms!NewForm
        BY <4>2 DEF Forms!NewForm
      <4>3. CASE l.key \in Forms!Shown /\ forms'[l.key] = forms[l.key]
        <5>1. l \in lookups
          BY <1>1, <4>3
        <5>2. Forms!Current(l)
          BY <3>2, <4>3 DEF Forms!Current
        <5>3. QED  BY <3>2, <4>3, <5>1, <5>2 DEF FormsInv, LookupInv
      <4>4. QED  BY <1>4, <4>1, <4>2, <4>3
    <3>3. QED  BY <3>1, <3>2
  <2>3. QED  BY <2>1, <2>2 DEF LookupInv
<1>8. SaveInv'
  <2>1. ASSUME NEW k \in Forms!Shown', forms'[k].busy
        PROVE  \E s \in saves' : Present(s)' /\ s.key = k
    BY <1>4, <2>1 DEF FormsInv, SaveInv, Present, Forms!NewForm
  <2>2. ASSUME NEW s \in saves', Present(s)'
        PROVE  /\ s.key \in Forms!Shown' /\ forms'[s.key].busy
               /\ forms'[s.key].content \in {0, s.content} \/ forms'[s.key].raced
               /\ s.create <=> s.key \in NoBarcode /\ ~forms'[s.key].itemId
    <3>1. s \in saves /\ Present(s) /\ s.key \in Forms!Shown
      BY <2>2 DEF FormsInv, SaveInv, Present
    <3>2. s.key \in Forms!Shown' /\ forms'[s.key] = forms[s.key]
      BY <1>1, <1>3, <3>1 DEF FormsInv, FormTypes, Forms!Shown
    <3>3. QED  BY <3>1, <3>2 DEF FormsInv, SaveInv
  <2>3. QED  BY <2>1, <2>2 DEF SaveInv, FormsInv, Present
<1>9. MarkedInv'
  BY <1>4 DEF FormsInv, MarkedInv, Forms!NewForm
<1>10. CountInv'
  <2> SUFFICES ASSUME NEW k \in NoBarcode, k \in Forms!Shown'
               PROVE  \/ created[k] <= lost[k]
                      \/ /\ created[k] <= lost[k] + 1
                         /\ \/ forms'[k].itemId
                            \/ \E s \in saves : Present(s) /\ s.key = k /\ s.create /\ s.done
    <3>1. Forms!Shown \subseteq Forms!Shown'
      BY <1>3 DEF FormsInv, FormTypes
    <3>2. QED  BY <3>1 DEF FormsInv, CountInv, Present
  <2>1. CASE k \in Forms!Shown /\ forms'[k] = forms[k]
    BY <2>1 DEF FormsInv, CountInv
  <2>2. CASE k \in new
    BY <2>2 DEF FormsInv, CountInv, FormTypes, Forms!Key
  <2>3. QED  BY <1>4, <2>1, <2>2
<1>11. QED  BY <1>6, <1>7, <1>8, <1>9, <1>10 DEF FormsInv

LEMMA ReviewKeeps ==
  ASSUME FormsInv, FormsBound, Forms!Review  PROVE FormsInv'
<1>1. keyed \in SUBSET Forms!Key /\ IsFiniteSet(keyed)
  BY DEF FormsInv, FormTypes
<1>2. QED  BY <1>1, DetailsKeep DEF Forms!Review

LEMMA EnteredKeeps ==
  ASSUME FormsInv, FormsBound, NEW k \in Forms!Key, Forms!Entered(k)  PROVE FormsInv'
<1>1. keyed' = keyed \cup {k}
  BY DEF Forms!Entered
<1>2. keyed \cup {k} \in SUBSET Forms!Key /\ IsFiniteSet(keyed \cup {k})
  BY FS_AddElement DEF FormsInv, FormTypes
<1>3. Forms!ShowDetailsView(keyed \cup {k}) /\ UNCHANGED <<cleared, saves, edits, created, lost>>
  BY <1>1 DEF Forms!Entered
<1>4. QED  BY <1>1, <1>2, <1>3, DetailsKeep


----------------------------------------------------------------------------
(* Forms: a lookup's answer. *)

\* Only one answer is current for a form.
LEMMA OneCurrent ==
  ASSUME FormTypes, LookupInv, NEW l \in lookups, NEW m \in lookups,
         Forms!Current(l), Forms!Current(m), l.key = m.key
  PROVE  l = m
<1>1. l \in Lookup /\ m \in Lookup
  BY DEF FormTypes
<1>2. l.work = m.work /\ l.token = m.token
  BY DEF Forms!Current
<1>3. l.retry = m.retry
  <2>1. l.retry \in BOOLEAN /\ m.retry \in BOOLEAN
    BY <1>1 DEF Lookup
  <2>2. (l.retry <=> l.token # 1) /\ (m.retry <=> m.token # 1)
    BY DEF LookupInv
  <2>3. QED  BY <1>2, <2>1, <2>2
<1>4. QED  BY <1>1, <1>2, <1>3 DEF Lookup

LEMMA CurrentShown ==
  ASSUME FormTypes, NEW l \in lookups, Forms!Current(l)
  PROVE  l.key \in Forms!Shown
  BY DEF FormTypes, Lookup, Forms!Current, Forms!Shown

\* An answer that nobody waits for changes nothing.
LEMMA LateAnswerKeeps ==
  ASSUME FormsInv, NEW l \in lookups, ~Forms!Current(l), lookups' = lookups \ {l},
         UNCHANGED <<formView, keyed, forms, cleared, saves, edits, created, lost>>
  PROVE  FormsInv'
<1>1. Forms!Shown' = Forms!Shown
  BY DEF Forms!Shown
<1>2. FormTypes'
  BY <1>1 DEF FormsInv, FormTypes, Lookup, Saving
<1>3. LookupInv'
  BY <1>1 DEF FormsInv, LookupInv, Forms!Current
<1>4. SaveInv' /\ MarkedInv' /\ CountInv'
  BY <1>1 DEF FormsInv, SaveInv, MarkedInv, CountInv, Present
<1>5. QED  BY <1>2, <1>3, <1>4 DEF FormsInv

\* A form whose marks stay, and that holds what it held or nothing.
LEMMA MarksStay ==
  ASSUME FormsInv, FormsBound, NEW k \in Forms!Shown, NEW g \in Forms!Form,
         forms' = [forms EXCEPT ![k] = g], UNCHANGED <<cleared, saves, created, lost>>,
         g.busy = forms[k].busy, g.itemId = forms[k].itemId, g.stored = forms[k].stored,
         g.saved = forms[k].saved, g.dirty = forms[k].dirty, g.raced = forms[k].raced,
         g.content \in {0, forms[k].content}, forms[k].init => g.init
  PROVE  SaveInv' /\ MarkedInv' /\ CountInv'
<1>1. /\ Forms!Shown' = Forms!Shown /\ forms'[k] = g
      /\ \A j \in Forms!Shown : j # k => forms'[j] = forms[j]
  BY OneForm DEF FormsInv, Forms!Shown
<1>2. SaveInv'
  <2>1. \A j \in Forms!Shown : forms'[j].busy = forms[j].busy /\ forms'[j].itemId = forms[j].itemId
                               /\ forms'[j].raced = forms[j].raced
                               /\ forms'[j].content \in {0, forms[j].content}
    BY <1>1
  <2>2. ASSUME NEW j \in Forms!Shown, forms'[j].busy  PROVE \E s \in saves' : Present(s)' /\ s.key = j
    BY <2>1, <2>2 DEF FormsInv, SaveInv, Present
  <2>3. ASSUME NEW s \in saves, Present(s)
        PROVE  /\ s.key \in Forms!Shown /\ forms'[s.key].busy
               /\ forms'[s.key].content \in {0, s.content} \/ forms'[s.key].raced
               /\ s.create <=> s.key \in NoBarcode /\ ~forms'[s.key].itemId
    BY <2>1, <2>3 DEF FormsInv, SaveInv
  <2>4. QED  BY <1>1, <2>2, <2>3 DEF FormsInv, SaveInv, Present
<1>3. MarkedInv'
  BY <1>1 DEF FormsInv, MarkedInv
<1>4. CountInv'
  BY <1>1 DEF FormsInv, CountInv, Present
<1>5. QED  BY <1>2, <1>3, <1>4

\* The types, of a step on one form.
LEMMA TypesStay ==
  ASSUME FormsInv, FormsBound, NEW k \in Forms!Shown, NEW g \in Forms!Form,
         forms' = [forms EXCEPT ![k] = g], UNCHANGED <<formView, keyed, cleared>>,
         g.token \in 1..(MaxRetry + 1), g.content \in 0..edits', g.stored \in 0..edits',
         edits' \in 0..MaxEdit, edits <= edits', lookups' \subseteq Lookup', saves' \subseteq Saving',
         created' \in [Forms!Key -> Nat], lost' \in [Forms!Key -> Nat]
  PROVE  FormTypes'
<1>1. /\ forms' \in [Forms!Key -> Forms!Form \cup {None}] /\ Forms!Shown' = Forms!Shown
      /\ forms'[k] = g /\ \A j \in Forms!Shown : j # k => forms'[j] = forms[j]
  BY OneForm DEF FormsInv, Forms!Shown
<1>2. ASSUME NEW j \in Forms!Shown'
      PROVE  /\ forms'[j].token \in 1..(MaxRetry + 1)
             /\ forms'[j].content \in 0..edits' /\ forms'[j].stored \in 0..edits'
  <2>1. CASE j = k
    BY <1>1, <2>1
  <2>2. CASE j # k
    <3>1. /\ forms'[j] = forms[j] /\ forms[j].token \in 1..(MaxRetry + 1)
          /\ forms[j].content \in 0..edits /\ forms[j].stored \in 0..edits
      BY <1>1, <2>2 DEF FormsInv, FormTypes
    <3>2. edits \in Nat /\ edits' \in Nat
      BY DEF FormsInv, FormTypes, FormsBound
    <3>3. QED  BY <3>1, <3>2
  <2>3. QED  BY <2>1, <2>2
<1>3. QED  BY <1>1, <1>2 DEF FormsInv, FormTypes

\* The first answer fills the form; a current one is waited for no longer.
LEMMA AnswerKeeps ==
  ASSUME FormsInv, FormsBound, NEW l \in lookups, Forms!Current(l), NEW g \in Forms!Form,
         forms' = [forms EXCEPT ![l.key] = g], lookups' = lookups \ {l},
         UNCHANGED <<formView, keyed, cleared, saves, edits, created, lost>>,
         g.token = forms[l.key].token, g.busy = forms[l.key].busy, g.raced = forms[l.key].raced,
         g.itemId = forms[l.key].itemId, g.stored = forms[l.key].stored,
         g.saved = forms[l.key].saved, g.dirty = forms[l.key].dirty,
         g.content \in {0, forms[l.key].content}, g.init
  PROVE  FormsInv'
<1>1. l.key \in Forms!Shown
  BY CurrentShown DEF FormsInv
<1>2. /\ Forms!Shown' = Forms!Shown /\ forms'[l.key] = g
      /\ \A j \in Forms!Key : j # l.key => forms'[j] = forms[j]
  BY <1>1, OneForm DEF FormsInv
<1>3. SaveInv' /\ MarkedInv' /\ CountInv'
  BY <1>1, MarksStay
<1>4. FormTypes'
  <2>1. /\ g.token \in 1..(MaxRetry + 1) /\ g.content \in 0..edits /\ g.stored \in 0..edits
        /\ edits \in 0..MaxEdit
    BY <1>1 DEF FormsInv, FormTypes, FormsBound
  <2>2. lookups' \subseteq Lookup' /\ saves' \subseteq Saving'
    BY DEF FormsInv, FormTypes, Lookup, Saving
  <2>3. edits <= edits'
    BY <2>1
  <2>4. QED  BY <1>1, <2>1, <2>2, <2>3, TypesStay DEF FormsInv, FormTypes
<1>5. LookupInv'
  <2>1. ASSUME NEW m \in lookups, m.key # l.key  PROVE Forms!Current(m)' <=> Forms!Current(m)
    <3>1. m.key \in Forms!Key
      BY DEF FormsInv, FormTypes, Lookup
    <3>2. QED  BY <1>2, <2>1, <3>1 DEF Forms!Current
  <2>2. ASSUME NEW m \in lookups, m.key = l.key, Forms!Current(m)'  PROVE m = l
    <3>1. Forms!Current(m)
      BY <1>1, <1>2, <2>2, ShownForm DEF Forms!Current, FormsInv
    <3>2. QED  BY <2>2, <3>1, OneCurrent DEF FormsInv
  <2>3. ASSUME NEW k \in Forms!Shown', ~forms'[k].init
        PROVE  \E m \in lookups' : Forms!Current(m)' /\ m.key = k
    <3>1. k # l.key /\ k \in Forms!Shown /\ forms'[k] = forms[k]
      BY <1>2, <2>3 DEF Forms!Shown
    <3>2. PICK m \in lookups : Forms!Current(m) /\ m.key = k
      BY <2>3, <3>1 DEF FormsInv, LookupInv
    <3>3. QED  BY <2>1, <3>1, <3>2
  <2>4. ASSUME NEW m \in lookups'
        PROVE  /\ m.retry <=> m.token # 1
               /\ Forms!Current(m)' /\ ~m.retry => ~forms'[m.key].init
    <3>1. m \in lookups /\ m # l /\ m.key \in Forms!Key
      BY DEF FormsInv, FormTypes, Lookup
    <3>2. CASE m.key # l.key
      BY <1>2, <2>1, <3>1, <3>2 DEF FormsInv, LookupInv
    <3>3. CASE m.key = l.key
      BY <2>2, <3>1, <3>3 DEF FormsInv, LookupInv
    <3>4. QED  BY <3>2, <3>3
  <2>5. QED  BY <2>3, <2>4 DEF LookupInv
<1>6. QED  BY <1>3, <1>4, <1>5 DEF FormsInv

LEMMA LookupOkKeeps ==
  ASSUME FormsInv, FormsBound, NEW l \in lookups, Forms!LookupOk(l)  PROVE FormsInv'
<1>1. CASE Forms!Current(l)
  <2> DEFINE f == forms[l.key]
             g == Forms!Populated(f, Forms!Preserve(l, f))
  <2>1. l.key \in Forms!Shown /\ f \in Forms!Form
    BY <1>1, CurrentShown, ShownForm DEF FormsInv
  <2>2. /\ g \in Forms!Form /\ g.init /\ g.token = f.token /\ g.busy = f.busy /\ g.raced = f.raced
        /\ g.itemId = f.itemId /\ g.stored = f.stored /\ g.saved = f.saved /\ g.dirty = f.dirty
        /\ g.content \in {0, f.content}
    BY <2>1 DEF Forms!Populated, Forms!Form
  <2>3. /\ forms' = [forms EXCEPT ![l.key] = g] /\ lookups' = lookups \ {l}
        /\ UNCHANGED <<formView, keyed, cleared, saves, edits, created, lost>>
    BY <1>1 DEF Forms!LookupOk
  <2>4. QED  BY <1>1, <2>2, <2>3, AnswerKeeps
<1>2. CASE ~Forms!Current(l)
  BY <1>2, LateAnswerKeeps DEF Forms!LookupOk
<1>3. QED  BY <1>1, <1>2

LEMMA LookupFailedKeeps ==
  ASSUME FormsInv, FormsBound, NEW l \in lookups, Forms!LookupFailed(l)  PROVE FormsInv'
<1>1. CASE Forms!Current(l)
  <2> DEFINE f == forms[l.key]
             g == [(IF f.init THEN f ELSE Forms!Populated(f, FALSE)) EXCEPT !.retryable = TRUE]
  <2>1. l.key \in Forms!Shown /\ f \in Forms!Form
    BY <1>1, CurrentShown, ShownForm DEF FormsInv
  <2>2. /\ g \in Forms!Form /\ g.init /\ g.token = f.token /\ g.busy = f.busy /\ g.raced = f.raced
        /\ g.itemId = f.itemId /\ g.stored = f.stored /\ g.saved = f.saved /\ g.dirty = f.dirty
        /\ g.content \in {0, f.content}
    BY <2>1 DEF Forms!Populated, Forms!Form
  <2>3. /\ forms' = [forms EXCEPT ![l.key] = g] /\ lookups' = lookups \ {l}
        /\ UNCHANGED <<formView, keyed, cleared, saves, edits, created, lost>>
    BY <1>1 DEF Forms!LookupFailed
  <2>4. QED  BY <1>1, <2>2, <2>3, AnswerKeeps
<1>2. CASE ~Forms!Current(l)
  BY <1>2, LateAnswerKeeps DEF Forms!LookupFailed
<1>3. QED  BY <1>1, <1>2


\* A step on one form that asks for nothing and leaves its lookup alone.
LEMMA LookupsStay ==
  ASSUME FormsInv, FormsBound, NEW k \in Forms!Shown, NEW g \in Forms!Form,
         forms' = [forms EXCEPT ![k] = g], UNCHANGED <<cleared, lookups>>,
         g.token = forms[k].token, g.init = forms[k].init
  PROVE  LookupInv'
<1>1. /\ Forms!Shown' = Forms!Shown /\ forms'[k] = g
      /\ \A j \in Forms!Key : j # k => forms'[j] = forms[j]
  BY OneForm DEF FormsInv
<1>2. \A j \in Forms!Shown : forms'[j].init = forms[j].init
  BY <1>1 DEF Forms!Shown
<1>3. \A l \in lookups : Forms!Current(l)' <=> Forms!Current(l)
  <2> SUFFICES ASSUME NEW l \in lookups  PROVE Forms!Current(l)' <=> Forms!Current(l)
    OBVIOUS
  <2>1. l.key \in Forms!Key
    BY DEF FormsInv, FormTypes, Lookup
  <2>2. CASE l.key = k
    BY <1>1, <2>2, ShownForm DEF Forms!Current, FormsInv, FormsBound
  <2>3. CASE l.key # k
    BY <1>1, <2>1, <2>3 DEF Forms!Current
  <2>4. QED  BY <2>2, <2>3
<1>4. \A l \in lookups : Forms!Current(l) => l.key \in Forms!Shown
  BY CurrentShown DEF FormsInv
<1>5. QED  BY <1>1, <1>2, <1>3, <1>4 DEF FormsInv, LookupInv

\* What a retry, an edit and a save make of a form.
LEMMA RetriedForm ==
  ASSUME NEW f \in Forms!Form, NEW t \in Nat
  PROVE  LET g == [f EXCEPT !.retryable = FALSE, !.token = t] IN
         /\ g \in Forms!Form /\ g.token = t /\ g.init = f.init /\ g.busy = f.busy
         /\ g.itemId = f.itemId /\ g.stored = f.stored /\ g.saved = f.saved /\ g.dirty = f.dirty
         /\ g.raced = f.raced /\ g.content = f.content
  BY DEF Forms!Form

LEMMA EditedForm ==
  ASSUME NEW f \in Forms!Form, NEW n \in Nat
  PROVE  LET g == [Forms!MarkFormDirty(f) EXCEPT !.content = n, !.raced = f.busy] IN
         /\ g \in Forms!Form /\ g.token = f.token /\ g.init = f.init /\ g.busy = f.busy
         /\ g.itemId = f.itemId /\ g.stored = f.stored /\ g.raced = f.busy
         /\ g.saved = FALSE /\ g.dirty = TRUE /\ g.content = n
  BY DEF Forms!Form, Forms!MarkFormDirty

\* A retry's lookup replaces the one before it.
LEMMA RetryKeeps ==
  ASSUME FormsInv, FormsBound, NEW k \in Forms!Key, Forms!Retry(k)  PROVE FormsInv'
<1> DEFINE f == forms[k]
           g == [f EXCEPT !.retryable = FALSE, !.token = f.token + 1]
<1>0. PICK asked : asked = [key |-> k, work |-> cleared, token |-> f.token + 1, retry |-> TRUE]
  OBVIOUS
<1>1. /\ k \in Forms!Shown /\ f.token <= MaxRetry
      /\ forms' = [forms EXCEPT ![k].retryable = FALSE, ![k].token = f.token + 1]
      /\ lookups' = lookups \cup {asked}
      /\ UNCHANGED <<formView, keyed, cleared, saves, edits, created, lost>>
  BY <1>0 DEF Forms!Retry
<1>2. f \in Forms!Form /\ forms \in [Forms!Key -> Forms!Form \cup {None}]
  BY <1>1, ShownForm DEF FormsInv, FormTypes
<1>3. /\ f.token \in 1..(MaxRetry + 1) /\ f.token + 1 \in 1..(MaxRetry + 1)
      /\ f.content \in 0..edits /\ f.stored \in 0..edits /\ edits \in 0..MaxEdit
  BY <1>1 DEF FormsInv, FormTypes, FormsBound
<1>4. /\ g \in Forms!Form /\ g.token = f.token + 1 /\ g.init = f.init /\ g.busy = f.busy
      /\ g.itemId = f.itemId /\ g.stored = f.stored /\ g.saved = f.saved /\ g.dirty = f.dirty
      /\ g.raced = f.raced /\ g.content = f.content
  <2>1. f.token \in Nat
    BY <1>3
  <2>2. f.token + 1 \in Nat
    BY <2>1
  <2>3. QED  BY <1>2, <2>2, RetriedForm, Zenon
<1>5. forms' = [forms EXCEPT ![k] = g]
  BY <1>1, <1>2 DEF Forms!Form
<1>6. /\ Forms!Shown' = Forms!Shown /\ forms'[k] = g
      /\ \A j \in Forms!Key : j # k => forms'[j] = forms[j]
  BY <1>1, <1>4, <1>5, OneForm DEF FormsInv
<1>7. SaveInv' /\ MarkedInv' /\ CountInv'
  BY <1>1, <1>4, <1>5, MarksStay
<1>8. FormTypes'
  <2>1. asked \in Lookup
    BY <1>0, <1>1, <1>3 DEF Lookup, FormsInv, FormTypes, Forms!Shown
  <2>2. lookups' \subseteq Lookup' /\ saves' \subseteq Saving'
    BY <1>1, <2>1 DEF FormsInv, FormTypes, Lookup, Saving
  <2>3. created' \in [Forms!Key -> Nat] /\ lost' \in [Forms!Key -> Nat]
    BY <1>1 DEF FormsInv, FormTypes
  <2>4. edits' \in 0..MaxEdit /\ edits <= edits'
    BY <1>1, <1>3
  <2>5. /\ g.token \in 1..(MaxRetry + 1) /\ g.content \in 0..edits' /\ g.stored \in 0..edits'
        /\ UNCHANGED <<formView, keyed, cleared>>
    BY <1>1, <1>3, <1>4
  <2>6. QED  BY <1>1, <1>4, <1>5, <2>2, <2>3, <2>4, <2>5, TypesStay
<1>9. LookupInv'
  <2>1. ASSUME NEW m \in lookups, m.key # k  PROVE Forms!Current(m)' <=> Forms!Current(m)
    <3>1. m.key \in Forms!Key
      BY DEF FormsInv, FormTypes, Lookup
    <3>2. QED  BY <1>1, <1>6, <2>1, <3>1 DEF Forms!Current
  <2>2. asked.key = k /\ asked \in lookups' /\ Forms!Current(asked)'
    <3>1. forms'[k] # None
      BY <1>4, <1>6 DEF FormsBound
    <3>2. forms'[k].token = asked.token /\ asked.key = k /\ asked.work = cleared'
      BY <1>0, <1>1, <1>4, <1>6
    <3>3. QED  BY <1>1, <3>1, <3>2 DEF Forms!Current
  <2>3. ASSUME NEW j \in Forms!Shown', ~forms'[j].init
        PROVE  \E m \in lookups' : Forms!Current(m)' /\ m.key = j
    <3>1. CASE j = k
      BY <2>2, <3>1
    <3>2. CASE j # k
      <4>1. j \in Forms!Shown /\ forms'[j] = forms[j]
        BY <1>6, <3>2 DEF Forms!Shown
      <4>2. PICK m \in lookups : Forms!Current(m) /\ m.key = j
        BY <2>3, <4>1 DEF FormsInv, LookupInv
      <4>3. QED  BY <1>1, <2>1, <3>2, <4>2
    <3>3. QED  BY <3>1, <3>2
  <2>4. ASSUME NEW m \in lookups'
        PROVE  /\ m.retry <=> m.token # 1
               /\ Forms!Current(m)' /\ ~m.retry => ~forms'[m.key].init
    <3>1. CASE m = asked
      <4>1. asked.retry = TRUE /\ asked.token # 1
        BY <1>0, <1>3
      <4>2. QED  BY <3>1, <4>1
    <3>2. CASE m \in lookups /\ m.key # k
      <4>1. m.key \in Forms!Key
        BY <3>2 DEF FormsInv, FormTypes, Lookup
      <4>2. QED  BY <1>6, <2>1, <3>2, <4>1 DEF FormsInv, LookupInv
    <3>3. CASE m \in lookups /\ m.key = k
      <4>1. m.retry <=> m.token # 1
        BY <3>3 DEF FormsInv, LookupInv
      <4>2. Forms!Current(m)' => m.token = forms'[k].token
        BY <3>3 DEF Forms!Current
      <4>3. forms'[k].token # 1
        BY <1>3, <1>4, <1>6
      <4>4. QED  BY <4>1, <4>2, <4>3
    <3>4. QED  BY <1>1, <3>1, <3>2, <3>3
  <2>5. QED  BY <2>3, <2>4 DEF LookupInv
<1>10. QED  BY <1>7, <1>8, <1>9 DEF FormsInv

----------------------------------------------------------------------------
(* Forms: editing and saving. *)

LEMMA EditKeeps ==
  ASSUME FormsInv, FormsBound, NEW k \in Forms!Key, Forms!Edit(k)  PROVE FormsInv'
<1> DEFINE f == forms[k]
           g == [Forms!MarkFormDirty(f) EXCEPT !.content = edits + 1, !.raced = f.busy]
<1>1. /\ k \in Forms!Shown /\ f.init /\ edits < MaxEdit /\ edits' = edits + 1
      /\ forms' = [forms EXCEPT ![k] = g]
      /\ UNCHANGED <<formView, keyed, cleared, lookups, saves, created, lost>>
  BY DEF Forms!Edit
<1>2. f \in Forms!Form /\ edits \in Nat /\ MaxEdit \in Nat
  BY <1>1, ShownForm DEF FormsInv, FormTypes, FormsBound
<1>3. /\ g \in Forms!Form /\ g.token = f.token /\ g.init = f.init /\ g.busy = f.busy
      /\ g.itemId = f.itemId /\ g.stored = f.stored /\ g.raced = f.busy
      /\ g.saved = FALSE /\ g.dirty = TRUE /\ g.content = edits + 1
  <2>1. f.busy \in BOOLEAN /\ edits + 1 \in Nat
    BY <1>2 DEF Forms!Form
  <2>2. QED  BY <1>2, <2>1, EditedForm
<1>4. /\ Forms!Shown' = Forms!Shown /\ forms'[k] = g
      /\ \A j \in Forms!Shown : j # k => forms'[j] = forms[j]
  BY <1>1, <1>3, OneForm DEF FormsInv, Forms!Shown
<1>5. FormTypes'
  <2>1. lookups' \subseteq Lookup' /\ saves' \subseteq Saving'
    BY <1>1, <1>2 DEF FormsInv, FormTypes, Lookup, Saving
  <2>2. created' \in [Forms!Key -> Nat] /\ lost' \in [Forms!Key -> Nat]
    BY <1>1 DEF FormsInv, FormTypes
  <2>3. edits' \in 0..MaxEdit /\ edits <= edits' /\ UNCHANGED <<formView, keyed, cleared>>
    BY <1>1, <1>2
  <2>4. g.token \in 1..(MaxRetry + 1) /\ g.content \in 0..edits' /\ g.stored \in 0..edits'
    BY <1>1, <1>2, <1>3 DEF FormsInv, FormTypes
  <2>5. QED  BY <1>1, <1>3, <2>1, <2>2, <2>3, <2>4, TypesStay
<1>6. LookupInv'
  BY <1>1, <1>3, LookupsStay
<1>7. SaveInv'
  <2>1. ASSUME NEW j \in Forms!Shown, forms'[j].busy  PROVE \E s \in saves' : Present(s)' /\ s.key = j
    BY <1>1, <1>3, <1>4, <2>1 DEF FormsInv, SaveInv, Present
  <2>2. ASSUME NEW s \in saves, Present(s)
        PROVE  /\ s.key \in Forms!Shown /\ forms'[s.key].busy
               /\ forms'[s.key].content \in {0, s.content} \/ forms'[s.key].raced
               /\ s.create <=> s.key \in NoBarcode /\ ~forms'[s.key].itemId
    <3>1. CASE s.key = k
      BY <1>3, <1>4, <2>2, <3>1 DEF FormsInv, SaveInv
    <3>2. CASE s.key # k
      BY <1>4, <2>2, <3>2 DEF FormsInv, SaveInv
    <3>3. QED  BY <3>1, <3>2
  <2>3. QED  BY <1>1, <1>4, <2>1, <2>2 DEF FormsInv, SaveInv, Present
<1>8. MarkedInv'
  <2> SUFFICES ASSUME NEW j \in Forms!Shown
               PROVE  /\ ~forms'[j].init => forms'[j].content = 0
                      /\ forms'[j].saved \/ ~forms'[j].dirty =>
                            forms'[j].content \in {0, forms'[j].stored} \/ forms'[j].raced
    BY <1>4 DEF MarkedInv
  <2>1. CASE j = k
    BY <1>1, <1>3, <1>4, <2>1, ZenonT(60)
  <2>2. CASE j # k
    BY <1>4, <2>2 DEF FormsInv, MarkedInv
  <2>3. QED  BY <2>1, <2>2
<1>9. CountInv'
  BY <1>1, <1>3, <1>4 DEF FormsInv, CountInv, Present
<1>10. QED  BY <1>5, <1>6, <1>7, <1>8, <1>9 DEF FormsInv

LEMMA SaveKeeps ==
  ASSUME FormsInv, FormsBound, NEW k \in Forms!Key, Forms!Save(k)  PROVE FormsInv'
<1> DEFINE f == forms[k]
           g == [f EXCEPT !.busy = TRUE]
<1>0. PICK request : request = [key |-> k, work |-> cleared, content |-> f.content, done |-> FALSE,
                                create |-> k \in NoBarcode /\ ~f.itemId]
  OBVIOUS
<1>1. /\ k \in Forms!Shown /\ ~f.busy /\ f.content # 0
      /\ saves' = saves \cup {request}
      /\ UNCHANGED <<formView, keyed, cleared, lookups, edits, created, lost>>
  BY <1>0 DEF Forms!Save
<1>2. f \in Forms!Form /\ edits \in 0..MaxEdit /\ MaxEdit \in Nat
  BY <1>1, ShownForm DEF FormsInv, FormTypes, FormsBound
<1>3. /\ g \in Forms!Form /\ g.token = f.token /\ g.init = f.init /\ g.busy
      /\ g.itemId = f.itemId /\ g.stored = f.stored /\ g.raced = f.raced
      /\ g.saved = f.saved /\ g.dirty = f.dirty /\ g.content = f.content
  BY <1>2 DEF Forms!Form
<1>4. forms' = [forms EXCEPT ![k] = g]
  BY DEF Forms!Save
<1>5. /\ Forms!Shown' = Forms!Shown /\ forms'[k] = g
      /\ \A j \in Forms!Shown : j # k => forms'[j] = forms[j]
  BY <1>1, <1>3, <1>4, OneForm DEF FormsInv, Forms!Shown
<1>6. /\ f.token \in 1..(MaxRetry + 1) /\ f.content \in 1..edits /\ f.stored \in 0..edits
  BY <1>1, <1>2 DEF FormsInv, FormTypes
<1>7. FormTypes'
  <2>1. request \in Saving
    BY <1>0, <1>2, <1>6 DEF Saving, FormsInv, FormTypes
  <2>2. lookups' \subseteq Lookup' /\ saves' \subseteq Saving'
    BY <1>1, <2>1 DEF FormsInv, FormTypes, Lookup, Saving
  <2>3. created' \in [Forms!Key -> Nat] /\ lost' \in [Forms!Key -> Nat]
    BY <1>1 DEF FormsInv, FormTypes
  <2>4. edits' \in 0..MaxEdit /\ edits <= edits' /\ UNCHANGED <<formView, keyed, cleared>>
    BY <1>1, <1>2
  <2>5. g.token \in 1..(MaxRetry + 1) /\ g.content \in 0..edits' /\ g.stored \in 0..edits'
    BY <1>1, <1>2, <1>3, <1>6
  <2>6. QED  BY <1>1, <1>3, <1>4, <2>2, <2>3, <2>4, <2>5, TypesStay
<1>8. LookupInv'
  BY <1>1, <1>3, <1>4, LookupsStay
<1>9. SaveInv'
  <2>1. \A s \in saves : Present(s) => s.key \in Forms!Shown /\ s.key # k
    BY <1>1 DEF FormsInv, SaveInv
  <2>2. /\ request.key = k /\ Present(request)'
        /\ \A s \in saves : Present(s)' <=> Present(s)
    BY <1>0, <1>1 DEF Present
  <2>3. ASSUME NEW j \in Forms!Shown, forms'[j].busy  PROVE \E s \in saves' : Present(s)' /\ s.key = j
    <3>1. CASE j = k
      BY <1>1, <2>2, <3>1
    <3>2. CASE j # k
      BY <1>1, <1>5, <2>2, <2>3, <3>2 DEF FormsInv, SaveInv
    <3>3. QED  BY <3>1, <3>2
  <2>4. ASSUME NEW s \in saves', Present(s)'
        PROVE  /\ s.key \in Forms!Shown /\ forms'[s.key].busy
               /\ forms'[s.key].content \in {0, s.content} \/ forms'[s.key].raced
               /\ s.create <=> s.key \in NoBarcode /\ ~forms'[s.key].itemId
    <3>1. CASE s = request
      BY <1>0, <1>1, <1>3, <1>5, <3>1
    <3>2. CASE s \in saves
      BY <1>5, <2>1, <2>2, <2>4, <3>2 DEF FormsInv, SaveInv
    <3>3. QED  BY <1>1, <3>1, <3>2
  <2>5. ASSUME NEW s \in saves', NEW r \in saves', Present(s)', Present(r)', s.key = r.key  PROVE s = r
    <3>1. CASE s \in saves /\ r \in saves
      BY <2>2, <2>5, <3>1 DEF FormsInv, SaveInv
    <3>2. CASE s = request \/ r = request
      BY <1>1, <2>1, <2>2, <2>5, <3>2
    <3>3. QED  BY <1>1, <3>1, <3>2
  <2>6. QED  BY <1>5, <2>3, <2>4, <2>5 DEF SaveInv
<1>10. MarkedInv'
  <2> SUFFICES ASSUME NEW j \in Forms!Shown
               PROVE  /\ ~forms'[j].init => forms'[j].content = 0
                      /\ forms'[j].saved \/ ~forms'[j].dirty =>
                            forms'[j].content \in {0, forms'[j].stored} \/ forms'[j].raced
    BY <1>5 DEF MarkedInv
  <2>1. CASE j = k
    BY <1>1, <1>3, <1>5, <2>1 DEF FormsInv, MarkedInv
  <2>2. CASE j # k
    BY <1>5, <2>2 DEF FormsInv, MarkedInv
  <2>3. QED  BY <2>1, <2>2
<1>11. CountInv'
  <2>1. \A j \in Forms!Shown : forms'[j].itemId = forms[j].itemId
    BY <1>3, <1>5
  <2>2. QED  BY <1>1, <1>5, <2>1 DEF FormsInv, CountInv, Present
<1>12. QED  BY <1>7, <1>8, <1>9, <1>10, <1>11 DEF FormsInv


\* The request that the server has done takes the place of the one it had not.
LEMMA CommitKeeps ==
  ASSUME FormsInv, FormsBound, NEW s \in saves, Forms!Commit(s)  PROVE FormsInv'
<1>0. PICK t : t = [s EXCEPT !.done = TRUE]
  OBVIOUS
<1>1. /\ ~s.done /\ saves' = (saves \ {s}) \cup {t}
      /\ created' = IF s.create /\ s.work = cleared THEN [created EXCEPT ![s.key] = @ + 1] ELSE created
      /\ UNCHANGED <<formView, keyed, forms, cleared, lookups, edits, lost>>
  BY <1>0 DEF Forms!Commit
<1>2. s \in Saving /\ created \in [Forms!Key -> Nat] /\ lost \in [Forms!Key -> Nat]
  BY DEF FormsInv, FormTypes
<1>3. /\ t \in Saving /\ t.key = s.key /\ t.work = s.work /\ t.content = s.content
      /\ t.create = s.create /\ t.done = TRUE
  BY <1>0, <1>2 DEF Saving
<1>4. Forms!Shown' = Forms!Shown
  BY <1>1 DEF Forms!Shown
<1>5. created' \in [Forms!Key -> Nat]
  <2>1. s.key \in Forms!Key
    BY <1>2 DEF Saving
  <2>2. [created EXCEPT ![s.key] = @ + 1] \in [Forms!Key -> Nat]
    BY <1>2, <2>1
  <2>3. QED  BY <1>1, <1>2, <2>2
<1>6. FormTypes'
  <2>1. saves' \subseteq Saving' /\ lookups' \subseteq Lookup'
    BY <1>1, <1>3 DEF FormsInv, FormTypes, Lookup, Saving
  <2>2. QED  BY <1>1, <1>4, <1>5, <2>1 DEF FormsInv, FormTypes
<1>7. LookupInv' /\ MarkedInv'
  BY <1>1, <1>4 DEF FormsInv, LookupInv, MarkedInv, Forms!Current
<1>8. SaveInv'
  <2>1. \A r \in saves' : Present(r)' <=> Present(r)
    BY <1>1 DEF Present
  <2>2. ASSUME NEW j \in Forms!Shown, forms[j].busy  PROVE \E r \in saves' : Present(r)' /\ r.key = j
    <3>1. PICK r \in saves : Present(r) /\ r.key = j
      BY <2>2 DEF FormsInv, SaveInv
    <3>2. CASE r = s
      BY <1>1, <1>3, <3>1, <3>2 DEF Present
    <3>3. CASE r # s
      BY <1>1, <3>1, <3>3 DEF Present
    <3>4. QED  BY <3>2, <3>3
  <2>3. \A r \in saves' : \E q \in saves : /\ r.key = q.key /\ r.work = q.work /\ r.content = q.content
                                           /\ r.create = q.create /\ (r = q \/ (q = s /\ r = t))
    BY <1>1, <1>3
  <2>4. ASSUME NEW r \in saves', Present(r)
        PROVE  /\ r.key \in Forms!Shown /\ forms[r.key].busy
               /\ forms[r.key].content \in {0, r.content} \/ forms[r.key].raced
               /\ r.create <=> r.key \in NoBarcode /\ ~forms[r.key].itemId
    BY <2>3, <2>4 DEF FormsInv, SaveInv, Present
  <2>5. ASSUME NEW q \in saves', NEW r \in saves', Present(q), Present(r), q.key = r.key  PROVE q = r
    <3>1. CASE q = t /\ r = t
      BY <3>1
    <3>2. CASE q = t /\ r \in saves \ {s}
      BY <1>3, <2>5, <3>2 DEF FormsInv, SaveInv, Present
    <3>3. CASE q \in saves \ {s} /\ r = t
      BY <1>3, <2>5, <3>3 DEF FormsInv, SaveInv, Present
    <3>4. CASE q \in saves \ {s} /\ r \in saves \ {s}
      BY <2>5, <3>4 DEF FormsInv, SaveInv
    <3>5. QED  BY <1>1, <3>1, <3>2, <3>3, <3>4
  <2>6. QED  BY <1>1, <1>4, <2>1, <2>2, <2>4, <2>5 DEF SaveInv
<1>9. CountInv'
  <2> SUFFICES ASSUME NEW k \in NoBarcode
               PROVE  IF k \notin Forms!Shown THEN created'[k] = 0
                      ELSE \/ created'[k] <= lost[k]
                           \/ /\ created'[k] <= lost[k] + 1
                              /\ \/ forms[k].itemId
                                 \/ \E r \in saves' : Present(r) /\ r.key = k /\ r.create /\ r.done
    BY <1>1, <1>4 DEF CountInv, Present
  <2>0. k \in Forms!Key /\ created[k] \in Nat /\ lost[k] \in Nat
    BY <1>2 DEF Forms!Key
  <2>1. CASE s.create /\ Present(s) /\ s.key = k
    <3>1. k \in Forms!Shown /\ ~forms[k].itemId
      BY <2>1 DEF FormsInv, SaveInv
    <3>2. created[k] <= lost[k]
      BY <1>1, <2>1, <3>1 DEF FormsInv, CountInv, SaveInv
    <3>3. created'[k] = created[k] + 1
      BY <1>1, <1>2, <2>0, <2>1 DEF Present
    <3>4. created'[k] <= lost[k] + 1
      BY <2>0, <3>2, <3>3
    <3>5. t \in saves' /\ Present(t) /\ t.key = k /\ t.create /\ t.done
      BY <1>1, <1>3, <2>1 DEF Present
    <3>6. QED  BY <3>1, <3>4, <3>5
  <2>2. CASE ~(s.create /\ Present(s) /\ s.key = k)
    <3>1. created'[k] = created[k]
      BY <1>1, <1>2, <2>0, <2>2 DEF Present
    <3>2. \A r \in saves : r.done => r \in saves'
      BY <1>1
    <3>3. QED  BY <3>1, <3>2 DEF FormsInv, CountInv
  <2>3. QED  BY <2>1, <2>2
<1>10. QED  BY <1>6, <1>7, <1>8, <1>9 DEF FormsInv

\* A save that ends is the only one of its form.
LEMMA SaveEnds ==
  ASSUME FormsInv, FormsBound, NEW s \in saves, Present(s), NEW g \in Forms!Form,
         forms' = [forms EXCEPT ![s.key] = g], saves' = saves \ {s}, UNCHANGED cleared, ~g.busy
  PROVE  SaveInv'
<1>1. s.key \in Forms!Shown
  BY DEF FormsInv, SaveInv
<1>2. /\ Forms!Shown' = Forms!Shown /\ forms'[s.key] = g
      /\ \A j \in Forms!Shown : j # s.key => forms'[j] = forms[j]
  BY <1>1, OneForm DEF FormsInv, Forms!Shown
<1>3. \A r \in saves : Present(r) /\ r.key = s.key => r = s
  BY DEF FormsInv, SaveInv
<1>4. ASSUME NEW j \in Forms!Shown, forms'[j].busy  PROVE \E r \in saves' : Present(r) /\ r.key = j
  <2>1. j # s.key
    BY <1>2, <1>4
  <2>2. PICK r \in saves : Present(r) /\ r.key = j
    BY <1>2, <1>4, <2>1 DEF FormsInv, SaveInv
  <2>3. QED  BY <2>1, <2>2
<1>5. ASSUME NEW r \in saves', Present(r)
      PROVE  /\ r.key \in Forms!Shown /\ forms'[r.key].busy
             /\ forms'[r.key].content \in {0, r.content} \/ forms'[r.key].raced
             /\ r.create <=> r.key \in NoBarcode /\ ~forms'[r.key].itemId
  <2>1. r \in saves /\ r.key # s.key
    BY <1>3, <1>5
  <2>2. QED  BY <1>2, <1>5, <2>1 DEF FormsInv, SaveInv
<1>6. QED  BY <1>2, <1>4, <1>5 DEF FormsInv, SaveInv, Present

\* The answer to a save of earlier work.
LEMMA LateSaveKeeps ==
  ASSUME FormsInv, NEW s \in saves, ~Present(s), saves' = saves \ {s},
         UNCHANGED <<formView, keyed, forms, cleared, lookups, edits, created, lost>>
  PROVE  FormsInv'
<1>1. Forms!Shown' = Forms!Shown
  BY DEF Forms!Shown
<1>2. FormTypes'
  BY <1>1 DEF FormsInv, FormTypes, Lookup, Saving
<1>3. LookupInv' /\ MarkedInv'
  BY <1>1 DEF FormsInv, LookupInv, MarkedInv, Forms!Current
<1>4. \A r \in saves : Present(r) => r \in saves' /\ Present(r)'
  BY DEF Present
<1>5. SaveInv' /\ CountInv'
  BY <1>1, <1>4 DEF FormsInv, SaveInv, CountInv, Present
<1>6. QED  BY <1>2, <1>3, <1>5 DEF FormsInv

\* What the answer of a save leaves on the form.
LEMMA KeptForm ==
  ASSUME NEW f \in Forms!Form, NEW s, s.content \in Nat
  PROVE  LET g == Forms!Kept(s, f) IN
         /\ g \in Forms!Form /\ g.token = f.token /\ g.init = f.init /\ g.busy = FALSE
         /\ g.itemId = (s.key \in NoBarcode) /\ g.stored = s.content /\ g.content = f.content
         /\ g.raced = (f.raced /\ f.content # s.content) /\ g.saved = TRUE /\ g.dirty = FALSE
<1> DEFINE g == Forms!Kept(s, f)
<1>1. (f.raced /\ f.content # s.content) \in BOOLEAN /\ (s.key \in NoBarcode) \in BOOLEAN
  OBVIOUS
<1>2. PICK r \in BOOLEAN : r = (f.raced /\ f.content # s.content)
  BY <1>1
<1>3. PICK i \in BOOLEAN : i = (s.key \in NoBarcode)
  BY <1>1
<1>4. g = [f EXCEPT !.busy = FALSE, !.saved = TRUE, !.dirty = FALSE,
                    !.stored = s.content, !.raced = r, !.itemId = i]
  BY <1>2, <1>3, ZenonT(60) DEF Forms!Kept
<1> HIDE DEF g
<1>5. /\ g \in Forms!Form /\ g.token = f.token /\ g.init = f.init /\ g.busy = FALSE
      /\ g.itemId = i /\ g.stored = s.content /\ g.content = f.content
      /\ g.raced = r /\ g.saved = TRUE /\ g.dirty = FALSE
  BY <1>4 DEF Forms!Form
<1>6. QED  BY <1>2, <1>3, <1>5, ZenonT(60) DEF g

LEMMA NotKeptForm ==
  ASSUME NEW f \in Forms!Form
  PROVE  LET g == Forms!NotKept(f) IN
         /\ g \in Forms!Form /\ g.token = f.token /\ g.init = f.init /\ g.busy = FALSE
         /\ g.itemId = f.itemId /\ g.stored = f.stored /\ g.content = f.content
         /\ g.raced = f.raced /\ g.saved = f.saved /\ g.dirty = f.dirty
  BY DEF Forms!Form, Forms!NotKept


\* What was saved is stored, and what was typed meanwhile stays raced.
LEMMA SaveOkKeeps ==
  ASSUME FormsInv, FormsBound, NEW s \in saves, Forms!SaveOk(s)  PROVE FormsInv'
<1>1. CASE ~Present(s)
  BY <1>1, LateSaveKeeps DEF Forms!SaveOk, Present
<1>2. CASE Present(s)
  <2> DEFINE k == s.key
             f == forms[k]
             g == Forms!Kept(s, f)
  <2>1. /\ forms' = [forms EXCEPT ![k] = g] /\ saves' = saves \ {s} /\ s.done
        /\ UNCHANGED <<formView, keyed, cleared, lookups, edits, created, lost>>
    BY <1>2 DEF Forms!SaveOk, Present
  <2>2. /\ k \in Forms!Shown /\ f.busy
        /\ f.content \in {0, s.content} \/ f.raced
    BY <1>2 DEF FormsInv, SaveInv
  <2>3. f \in Forms!Form
    BY <2>2, ShownForm DEF FormsInv
  <2>4. s \in Saving /\ edits \in Nat /\ s.content \in 1..edits /\ s.content \in Nat
    <3>1. s \in Saving /\ edits \in Nat
      BY DEF FormsInv, FormTypes, FormsBound
    <3>2. QED  BY <3>1 DEF Saving
  <2>5. /\ g \in Forms!Form /\ g.token = f.token /\ g.init = f.init /\ g.busy = FALSE
        /\ g.itemId = (k \in NoBarcode) /\ g.stored = s.content /\ g.content = f.content
        /\ g.raced = (f.raced /\ f.content # s.content) /\ g.saved = TRUE /\ g.dirty = FALSE
    BY <2>3, <2>4, KeptForm, Zenon
  <2> HIDE DEF g
  <2>6. /\ Forms!Shown' = Forms!Shown /\ forms'[k] = g
        /\ \A j \in Forms!Shown : j # k => forms'[j] = forms[j]
    BY <2>1, <2>2, <2>5, OneForm DEF FormsInv, Forms!Shown
  <2>7. FormTypes'
    <3>1. lookups' \subseteq Lookup' /\ saves' \subseteq Saving'
      BY <2>1 DEF FormsInv, FormTypes, Lookup, Saving
    <3>2. created' \in [Forms!Key -> Nat] /\ lost' \in [Forms!Key -> Nat] /\ edits' \in 0..MaxEdit
      BY <2>1 DEF FormsInv, FormTypes
    <3>3. edits <= edits' /\ UNCHANGED <<formView, keyed, cleared>>
      BY <2>1, <2>4
    <3>4. g.token \in 1..(MaxRetry + 1) /\ g.content \in 0..edits' /\ g.stored \in 0..edits'
      BY <2>1, <2>2, <2>4, <2>5 DEF FormsInv, FormTypes
    <3>5. QED  BY <2>1, <2>2, <2>5, <3>1, <3>2, <3>3, <3>4, TypesStay
  <2>8. LookupInv'
    BY <2>1, <2>2, <2>5, LookupsStay
  <2>9. SaveInv'
    BY <1>2, <2>1, <2>5, SaveEnds
  <2>10. MarkedInv'
    <3> SUFFICES ASSUME NEW j \in Forms!Shown
                 PROVE  /\ ~forms'[j].init => forms'[j].content = 0
                        /\ forms'[j].saved \/ ~forms'[j].dirty =>
                              forms'[j].content \in {0, forms'[j].stored} \/ forms'[j].raced
      BY <2>6 DEF MarkedInv
    <3>1. CASE j = k
      BY <2>2, <2>5, <2>6, <3>1 DEF FormsInv, MarkedInv
    <3>2. CASE j # k
      BY <2>6, <3>2 DEF FormsInv, MarkedInv
    <3>3. QED  BY <3>1, <3>2
  <2>11. CountInv'
    <3> SUFFICES ASSUME NEW j \in NoBarcode
                 PROVE  IF j \notin Forms!Shown THEN created[j] = 0
                        ELSE \/ created[j] <= lost[j]
                             \/ /\ created[j] <= lost[j] + 1
                                /\ \/ forms'[j].itemId
                                   \/ \E r \in saves' : Present(r) /\ r.key = j /\ r.create /\ r.done
      BY <2>1, <2>6 DEF CountInv, Present
    <3>0. j \in Forms!Key /\ created[j] \in Nat /\ lost[j] \in Nat
      BY DEF FormsInv, FormTypes, Forms!Key
    <3>1. CASE j = k
      BY <2>2, <2>5, <2>6, <3>0, <3>1 DEF FormsInv, CountInv
    <3>2. CASE j # k
      BY <2>1, <2>6, <3>2 DEF FormsInv, CountInv
    <3>3. QED  BY <3>1, <3>2
  <2>12. QED  BY <2>7, <2>8, <2>9, <2>10, <2>11 DEF FormsInv
<1>3. QED  BY <1>1, <1>2

\* An answer that never came is a product more.
LEMMA SaveFailedKeeps ==
  ASSUME FormsInv, FormsBound, NEW s \in saves, Forms!SaveFailed(s)  PROVE FormsInv'
<1>1. CASE ~Present(s)
  BY <1>1, LateSaveKeeps DEF Forms!SaveFailed, Present
<1>2. CASE Present(s)
  <2> DEFINE k == s.key
             f == forms[k]
             g == Forms!NotKept(f)
  <2>1. /\ forms' = [forms EXCEPT ![k] = g] /\ saves' = saves \ {s}
        /\ lost' = IF s.create /\ s.done THEN [lost EXCEPT ![k] = @ + 1] ELSE lost
        /\ UNCHANGED <<formView, keyed, cleared, lookups, edits, created>>
    BY <1>2 DEF Forms!SaveFailed, Present
  <2>2. /\ k \in Forms!Shown /\ k \in Forms!Key
        /\ s.create <=> k \in NoBarcode /\ ~f.itemId
    BY <1>2 DEF FormsInv, SaveInv, Forms!Shown
  <2>3. f \in Forms!Form
    BY <2>2, ShownForm DEF FormsInv
  <2>4. /\ g \in Forms!Form /\ g.token = f.token /\ g.init = f.init /\ g.busy = FALSE
        /\ g.itemId = f.itemId /\ g.stored = f.stored /\ g.content = f.content
        /\ g.raced = f.raced /\ g.saved = f.saved /\ g.dirty = f.dirty
    BY <2>3, NotKeptForm, Zenon
  <2> HIDE DEF g
  <2>5. /\ Forms!Shown' = Forms!Shown /\ forms'[k] = g
        /\ \A j \in Forms!Shown : j # k => forms'[j] = forms[j]
    BY <2>1, <2>2, <2>4, OneForm DEF FormsInv, Forms!Shown
  <2>6. lost' \in [Forms!Key -> Nat] /\ created \in [Forms!Key -> Nat]
    <3>1. lost \in [Forms!Key -> Nat] /\ created \in [Forms!Key -> Nat]
      BY DEF FormsInv, FormTypes
    <3>2. [lost EXCEPT ![k] = @ + 1] \in [Forms!Key -> Nat]
      BY <2>2, <3>1
    <3>3. QED  BY <2>1, <3>1, <3>2
  <2>7. FormTypes'
    <3>1. lookups' \subseteq Lookup' /\ saves' \subseteq Saving'
      BY <2>1 DEF FormsInv, FormTypes, Lookup, Saving
    <3>2. created' \in [Forms!Key -> Nat] /\ edits' \in 0..MaxEdit /\ edits \in Nat
      BY <2>1, <2>6 DEF FormsInv, FormTypes, FormsBound
    <3>3. edits <= edits' /\ UNCHANGED <<formView, keyed, cleared>>
      BY <2>1, <3>2
    <3>4. g.token \in 1..(MaxRetry + 1) /\ g.content \in 0..edits' /\ g.stored \in 0..edits'
      BY <2>1, <2>2, <2>4 DEF FormsInv, FormTypes
    <3>5. QED  BY <2>1, <2>2, <2>4, <2>6, <3>1, <3>2, <3>3, <3>4, TypesStay
  <2>8. LookupInv'
    BY <2>1, <2>2, <2>4, LookupsStay
  <2>9. SaveInv'
    BY <1>2, <2>1, <2>4, SaveEnds
  <2>10. MarkedInv'
    <3> SUFFICES ASSUME NEW j \in Forms!Shown
                 PROVE  /\ ~forms'[j].init => forms'[j].content = 0
                        /\ forms'[j].saved \/ ~forms'[j].dirty =>
                              forms'[j].content \in {0, forms'[j].stored} \/ forms'[j].raced
      BY <2>5 DEF MarkedInv
    <3>1. CASE j = k
      BY <2>2, <2>4, <2>5, <3>1 DEF FormsInv, MarkedInv
    <3>2. CASE j # k
      BY <2>5, <3>2 DEF FormsInv, MarkedInv
    <3>3. QED  BY <3>1, <3>2
  <2>11. CountInv'
    <3> SUFFICES ASSUME NEW j \in NoBarcode
                 PROVE  IF j \notin Forms!Shown THEN created[j] = 0
                        ELSE \/ created[j] <= lost'[j]
                             \/ /\ created[j] <= lost'[j] + 1
                                /\ \/ forms'[j].itemId
                                   \/ \E r \in saves' : Present(r) /\ r.key = j /\ r.create /\ r.done
      BY <2>1, <2>5 DEF CountInv, Present
    <3>0. j \in Forms!Key /\ created[j] \in Nat /\ lost[j] \in Nat /\ lost \in [Forms!Key -> Nat]
      BY DEF FormsInv, FormTypes, Forms!Key
    <3>1. CASE j = k /\ s.create /\ s.done
      <4>1. lost'[j] = lost[j] + 1
        BY <2>1, <3>0, <3>1
      <4>2. created[j] <= lost[j] + 1
        BY <2>2, <3>0, <3>1 DEF FormsInv, CountInv
      <4>3. QED  BY <2>2, <3>1, <4>1, <4>2
    <3>2. CASE j = k /\ ~(s.create /\ s.done)
      <4>1. lost' = lost /\ forms'[j].itemId = forms[j].itemId
        BY <2>1, <2>4, <2>5, <3>2
      <4>2. \A r \in saves : Present(r) /\ r.key = j => ~(r.create /\ r.done)
        BY <1>2, <3>2 DEF FormsInv, SaveInv
      <4>3. QED  BY <2>2, <3>2, <4>1, <4>2 DEF FormsInv, CountInv
    <3>3. CASE j # k
      <4>1. lost'[j] = lost[j]
        BY <2>1, <3>0, <3>3
      <4>2. \A r \in saves : r.key = j => r \in saves'
        BY <2>1, <3>3
      <4>3. QED  BY <2>5, <3>3, <4>1, <4>2 DEF FormsInv, CountInv
    <3>4. QED  BY <3>1, <3>2, <3>3
  <2>12. QED  BY <2>7, <2>8, <2>9, <2>10, <2>11 DEF FormsInv
<1>3. QED  BY <1>1, <1>2

\* Nothing that was asked for before concerns the work that begins.
LEMMA StartOverKeeps ==
  ASSUME FormsInv, FormsBound, Forms!StartOver  PROVE FormsInv'
<1>1. /\ cleared < MaxStartOver /\ cleared' = cleared + 1 /\ keyed' = {} /\ formView' = "scan"
      /\ forms' = [k \in Forms!Key |-> None] /\ UNCHANGED <<lookups, saves, edits>>
      /\ created' = [k \in Forms!Key |-> 0] /\ lost' = [k \in Forms!Key |-> 0]
  BY DEF Forms!StartOver
<1>2. cleared \in Nat /\ cleared' \in 0..MaxStartOver
  BY <1>1 DEF FormsInv, FormTypes, FormsBound
<1>3. Forms!Shown' = {}
  <2>1. Forms!Shown' = {k \in Forms!Key : forms'[k] # None}
    BY DEF Forms!Shown
  <2>2. QED  BY <1>1, <2>1
<1>4. lookups' \subseteq Lookup' /\ saves' \subseteq Saving'
  BY <1>1, <1>2 DEF FormsInv, FormTypes, Lookup, Saving
<1>5. FormTypes'
  <2>1. keyed' \subseteq Forms!Key /\ IsFiniteSet(keyed')
    BY <1>1, FS_EmptySet
  <2>2. forms' \in [Forms!Key -> Forms!Form \cup {None}]
    BY <1>1
  <2>3. created' \in [Forms!Key -> Nat] /\ lost' \in [Forms!Key -> Nat]
    BY <1>1
  <2>4. formView' \in {"scan", "details"} /\ formView' # "details" /\ edits' \in 0..MaxEdit
    BY <1>1 DEF FormsInv, FormTypes
  <2>5. QED  BY <1>2, <1>3, <1>4, <2>1, <2>2, <2>3, <2>4 DEF FormTypes
<1>6. \A s \in saves : s.work \in 0..cleared
  BY DEF FormsInv, FormTypes, Saving
<1>7. \A l \in lookups : l.work \in 0..cleared
  BY DEF FormsInv, FormTypes, Lookup
<1>8. LookupInv'
  <2>1. \A l \in lookups : ~Forms!Current(l)'
    BY <1>1, <1>2, <1>7 DEF Forms!Current
  <2>2. QED  BY <1>1, <1>3, <2>1 DEF FormsInv, LookupInv
<1>9. SaveInv'
  <2>1. \A s \in saves : ~Present(s)'
    BY <1>1, <1>2, <1>6 DEF Present
  <2>2. QED  BY <1>1, <1>3, <2>1 DEF SaveInv
<1>10. MarkedInv' /\ CountInv'
  BY <1>1, <1>3 DEF MarkedInv, CountInv, Forms!Key
<1>11. QED  BY <1>5, <1>8, <1>9, <1>10 DEF FormsInv

LEMMA FormsStutter ==
  ASSUME FormsInv, UNCHANGED formsVars  PROVE FormsInv'
<1>1. /\ Forms!Shown' = Forms!Shown
      /\ UNCHANGED <<formView, keyed, forms, cleared, lookups, saves, edits, created, lost>>
  BY DEF Forms!Shown, formsVars
<1>2. FormTypes'
  BY <1>1 DEF FormsInv, FormTypes, Lookup, Saving
<1>3. LookupInv' /\ SaveInv' /\ MarkedInv' /\ CountInv'
  BY <1>1 DEF FormsInv, LookupInv, SaveInv, MarkedInv, CountInv, Present, Forms!Current
<1>4. QED  BY <1>2, <1>3 DEF FormsInv


\* The forms keep the invariant.
LEMMA FormsKeep ==
  ASSUME FormsBound  PROVE Forms!Spec => []FormsInv
<1>1. FormsInv /\ [Forms!Next]_Forms!vars => FormsInv'
  <2> SUFFICES ASSUME FormsInv, [Forms!Next]_Forms!vars  PROVE FormsInv'
    OBVIOUS
  <2>1. CASE UNCHANGED Forms!vars
    BY <2>1, FormsStutter DEF Forms!vars, formsVars
  <2>2. CASE Forms!Review \/ Forms!StartOver
    BY <2>2, ReviewKeeps, StartOverKeeps
  <2>3. CASE \E k \in Forms!Key : \/ Forms!Scanned(k) \/ Forms!Entered(k) \/ Forms!Retry(k)
                                  \/ Forms!Edit(k) \/ Forms!Save(k)
    BY <2>3, ScannedKeeps, EnteredKeeps, RetryKeeps, EditKeeps, SaveKeeps
  <2>4. CASE \E l \in lookups : Forms!LookupOk(l) \/ Forms!LookupFailed(l)
    BY <2>4, LookupOkKeeps, LookupFailedKeeps
  <2>5. CASE \E s \in saves : Forms!Commit(s) \/ Forms!SaveOk(s) \/ Forms!SaveFailed(s)
    BY <2>5, CommitKeeps, SaveOkKeeps, SaveFailedKeeps
  <2>6. QED  BY <2>1, <2>2, <2>3, <2>4, <2>5 DEF Forms!Next
<1>2. QED  BY <1>1, FormsStart, PTL DEF Forms!Spec

\* A composed behaviour is one of the forms, and of the camera.
LEMMA FormsBounded == FormsBound
  BY ScanningAssumption DEF Forms!FormsAssumption, FormsBound

LEMMA PartIsForms == PartSpec => Forms!Spec
<1>1. PartInit => Forms!Init
  BY DEF PartInit
<1>2. [PartNext]_<<part, vars, formsVars, deviceVars>> => [Forms!Next]_Forms!vars
  BY DEF PartNext, formsVars, Forms!vars
<1>3. QED  BY <1>1, <1>2, PTL DEF PartSpec, Forms!Spec

LEMMA PartIsCamera == PartSpec => Spec
<1>1. PartInit => Init
  BY DEF PartInit
<1>2. [PartNext]_<<part, vars, formsVars, deviceVars>> => [Next]_vars
  BY DEF PartNext
<1>3. QED  BY <1>1, <1>2, PTL DEF PartSpec, Spec

----------------------------------------------------------------------------
(* Theorems. *)

\* If the page lets its work be thrown away without a question, all of it is
\* stored, but for what was typed while its form was being saved.
THEOREM NothingThrownAway == PartSpec => []WarnsUnlessRaced
<1>1. FormsInv => WarnsUnlessRaced
  <2> SUFFICES ASSUME FormsInv, ~Forms!HasUnsavedWork
               PROVE  /\ Forms!Shown = keyed
                      /\ \A k \in Forms!Shown : Forms!Unsaved(k) => forms[k].raced
    BY DEF WarnsUnlessRaced, Forms!WarnsUnlessRaced
  <2>1. Forms!Shown = keyed
    <3>1. IsFiniteSet(keyed) /\ Forms!Shown \in SUBSET keyed
      BY DEF FormsInv, FormTypes
    <3>2. /\ IsFiniteSet(Forms!Shown) /\ Cardinality(Forms!Shown) <= Cardinality(keyed)
          /\ Cardinality(keyed) = Cardinality(Forms!Shown) => keyed = Forms!Shown
      BY <3>1, FS_Subset
    <3>3. Cardinality(keyed) \in Nat /\ Cardinality(Forms!Shown) \in Nat
      BY <3>1, <3>2, FS_CardinalityType
    <3>4. ~(Cardinality(keyed) > Cardinality(Forms!Shown))
      BY SameCount DEF Forms!HasUnsavedWork
    <3>5. QED  BY <3>2, <3>3, <3>4
  <2>2. \A k \in Forms!Shown : Forms!Unsaved(k) => forms[k].raced
    BY DEF Forms!HasUnsavedWork, Forms!Unsaved, FormsInv, MarkedInv
  <2>3. QED  BY <2>1, <2>2
<1>2. QED  BY <1>1, FormsBounded, PartIsForms, FormsKeep, PTL

\* However often a product without a barcode is saved, it is created once per
\* answer that got lost.
THEOREM CreatedOnce == PartSpec => []UnbarcodedOnce
<1>1. FormsInv => UnbarcodedOnce
  <2> SUFFICES ASSUME FormsInv, NEW k \in NoBarcode  PROVE created[k] <= 1 + lost[k]
    BY DEF UnbarcodedOnce, Forms!UnbarcodedOnce
  <2>1. created[k] \in Nat /\ lost[k] \in Nat
    BY DEF FormsInv, FormTypes, Forms!Key
  <2>2. QED  BY <2>1 DEF FormsInv, CountInv
<1>2. QED  BY <1>1, FormsBounded, PartIsForms, FormsKeep, PTL

\* An edit that is not stored, of a form that shows it.
LEMMA UnsavedIsDirty ==
  ASSUME FormsInv, NEW k \in Forms!Shown, Forms!Unsaved(k), ~Forms!Overtaken(k)
  PROVE  forms[k].init /\ forms[k].dirty /\ forms[k].content # 0
  BY DEF FormsInv, MarkedInv, Forms!Unsaved, Forms!Overtaken

\* The step, which leaves what the user typed.
Keeps(k) == cleared' = cleared /\ Forms!Unsaved(k) /\ ~Forms!Overtaken(k) => forms'[k].content # 0

LEMMA AnswersKeepEdits ==
  ASSUME FormsInv, NEW l \in lookups, Forms!LookupOk(l) \/ Forms!LookupFailed(l),
         NEW k \in Forms!Shown
  PROVE  Keeps(k)
<1> SUFFICES ASSUME Forms!Unsaved(k), ~Forms!Overtaken(k)  PROVE forms'[k].content # 0
  BY DEF Keeps
<1>1. forms[k].init /\ forms[k].dirty /\ forms[k].content # 0
  BY UnsavedIsDirty
<1>2. k \in Forms!Key /\ forms[k] \in Forms!Form /\ forms \in [Forms!Key -> Forms!Form \cup {None}]
  BY ShownForm DEF FormsInv, FormTypes
<1>3. CASE ~Forms!Current(l) \/ l.key # k
  BY <1>1, <1>2, <1>3 DEF Forms!LookupOk, Forms!LookupFailed
<1>4. CASE Forms!Current(l) /\ l.key = k /\ Forms!LookupOk(l)
  <2>1. l.retry
    BY <1>1, <1>4 DEF FormsInv, LookupInv
  <2>2. forms'[k] = Forms!Populated(forms[k], TRUE)
    BY <1>1, <1>2, <1>4, <2>1 DEF Forms!LookupOk, Forms!Preserve
  <2>3. QED  BY <1>1, <1>2, <2>2 DEF Forms!Populated, Forms!Form
<1>5. CASE Forms!Current(l) /\ l.key = k /\ Forms!LookupFailed(l)
  <2>1. forms'[k] = [forms[k] EXCEPT !.retryable = TRUE]
    BY <1>1, <1>2, <1>5 DEF Forms!LookupFailed
  <2>2. QED  BY <1>1, <1>2, <2>1 DEF Forms!Form
<1>6. QED  BY <1>3, <1>4, <1>5


\* Mapping a form that is not the one at hand, or one whose content stays.
LEMMA SavesKeepEdits ==
  ASSUME FormsInv, NEW s \in saves, Forms!SaveOk(s) \/ Forms!SaveFailed(s), NEW k \in Forms!Shown
  PROVE  Keeps(k)
<1> SUFFICES ASSUME Forms!Unsaved(k), ~Forms!Overtaken(k)  PROVE forms'[k].content # 0
  BY DEF Keeps
<1>1. forms[k].content # 0
  BY UnsavedIsDirty
<1>2. k \in Forms!Key /\ forms[k] \in Forms!Form /\ forms \in [Forms!Key -> Forms!Form \cup {None}]
  BY ShownForm DEF FormsInv, FormTypes
<1>3. CASE ~Present(s) \/ s.key # k
  BY <1>1, <1>2, <1>3 DEF Forms!SaveOk, Forms!SaveFailed, Present
<1>4. CASE Present(s) /\ s.key = k /\ Forms!SaveOk(s)
  <2>1. forms'[k] = Forms!Kept(s, forms[k])
    BY <1>2, <1>4 DEF Forms!SaveOk, Present
  <2>2. Forms!Kept(s, forms[k]).content = forms[k].content
    BY <1>2 DEF Forms!Kept, Forms!Form
  <2>3. QED  BY <1>1, <2>1, <2>2
<1>5. CASE Present(s) /\ s.key = k /\ Forms!SaveFailed(s)
  <2>1. forms'[k] = Forms!NotKept(forms[k])
    BY <1>2, <1>5 DEF Forms!SaveFailed, Present
  <2>2. Forms!NotKept(forms[k]).content = forms[k].content
    BY <1>2 DEF Forms!NotKept, Forms!Form
  <2>3. QED  BY <1>1, <2>1, <2>2
<1>6. QED  BY <1>3, <1>4, <1>5

LEMMA PageKeepsEdits ==
  ASSUME FormsInv, NEW k \in Forms!Shown, NEW j \in Forms!Key,
         \/ Forms!Scanned(j) \/ Forms!Entered(j) \/ Forms!Retry(j) \/ Forms!Edit(j) \/ Forms!Save(j)
         \/ Forms!Review
  PROVE  Keeps(k)
<1> SUFFICES ASSUME Forms!Unsaved(k), ~Forms!Overtaken(k)  PROVE forms'[k].content # 0
  BY DEF Keeps
<1>1. forms[k].content # 0
  BY UnsavedIsDirty
<1>2. k \in Forms!Key /\ forms[k] \in Forms!Form /\ forms \in [Forms!Key -> Forms!Form \cup {None}]
  BY ShownForm DEF FormsInv, FormTypes
<1>3. CASE Forms!Scanned(j)
  BY <1>1, <1>3 DEF Forms!Scanned
<1>4. CASE Forms!Review \/ Forms!Entered(j)
  <2>1. PICK cs : Forms!ShowDetailsView(cs)
    BY <1>4 DEF Forms!Review, Forms!Entered
  <2>2. forms'[k] = forms[k]
    BY <1>2, <2>1 DEF Forms!ShowDetailsView
  <2>3. QED  BY <1>1, <2>2
<1>5. CASE Forms!Retry(j)
  <2>1. forms' = [forms EXCEPT ![j].retryable = FALSE, ![j].token = forms[j].token + 1]
    BY <1>5 DEF Forms!Retry
  <2>2. forms'[k].content = forms[k].content
    BY <1>2, <2>1 DEF Forms!Form
  <2>3. QED  BY <1>1, <2>2
<1>6. CASE Forms!Edit(j)
  <2>1. CASE j = k
    <3>1. forms'[k] = [Forms!MarkFormDirty(forms[k]) EXCEPT !.content = edits + 1, !.raced = forms[k].busy]
      BY <1>2, <1>6, <2>1 DEF Forms!Edit
    <3>2. forms'[k].content = edits + 1
      BY <1>2, <3>1 DEF Forms!MarkFormDirty, Forms!Form
    <3>3. edits + 1 # 0
      BY DEF FormsInv, FormTypes
    <3>4. QED  BY <3>2, <3>3
  <2>2. CASE j # k
    BY <1>1, <1>2, <1>6, <2>2 DEF Forms!Edit
  <2>3. QED  BY <2>1, <2>2
<1>7. CASE Forms!Save(j)
  <2>1. forms' = [forms EXCEPT ![j].busy = TRUE]
    BY <1>7 DEF Forms!Save
  <2>2. forms'[k].content = forms[k].content
    BY <1>2, <2>1 DEF Forms!Form
  <2>3. QED  BY <1>1, <2>2
<1>8. QED  BY <1>3, <1>4, <1>5, <1>6, <1>7

\* The answer of a lookup, first or retried, never replaces what the user
\* typed before or meanwhile and has not stored, but for what was typed during a
\* save that has succeeded since.
THEOREM LookupsKeepEdits == PartSpec => EditsKept
<1>1. FormsInv /\ [Forms!Next]_Forms!vars => [\A k \in Forms!Shown : Keeps(k)]_Forms!vars
  <2> SUFFICES ASSUME FormsInv, Forms!Next, NEW k \in Forms!Shown  PROVE Keeps(k)
    OBVIOUS
  <2>1. CASE Forms!Review
    BY <2>1, PageKeepsEdits, ShownForm DEF FormsInv
  <2>2. CASE Forms!StartOver
    <3>1. cleared' # cleared
      BY <2>2 DEF Forms!StartOver, FormsInv, FormTypes
    <3>2. QED  BY <3>1 DEF Keeps
  <2>3. CASE \E j \in Forms!Key : \/ Forms!Scanned(j) \/ Forms!Entered(j) \/ Forms!Retry(j)
                                  \/ Forms!Edit(j) \/ Forms!Save(j)
    BY <2>3, PageKeepsEdits
  <2>4. CASE \E l \in lookups : Forms!LookupOk(l) \/ Forms!LookupFailed(l)
    BY <2>4, AnswersKeepEdits
  <2>5. CASE \E s \in saves : Forms!SaveOk(s) \/ Forms!SaveFailed(s)
    BY <2>5, SavesKeepEdits
  <2>6. CASE \E s \in saves : Forms!Commit(s)
    <3>1. forms' = forms
      BY <2>6 DEF Forms!Commit
    <3>2. QED  BY <3>1, UnsavedIsDirty DEF Keeps
  <2>7. QED  BY <2>1, <2>2, <2>3, <2>4, <2>5, <2>6 DEF Forms!Next
<1>2. Forms!EditsKept <=> [][\A k \in Forms!Shown : Keeps(k)]_Forms!vars
  BY DEF Forms!EditsKept, Keeps
<1>3. QED  BY <1>1, <1>2, FormsBounded, PartIsForms, FormsKeep, PTL DEF EditsKept, Forms!Spec

\* Whatever was stopped, left or started again while startCamera waited, the
\* camera runs for the present session only and its button comes back.
THEOREM PageGivesCameraBack == PartSpec => []CameraGivenBack
<1>1. CameraAssumption
  BY ScanningAssumption
<1>2. QED  BY <1>1, PartIsCamera, CameraComesBack, PTL

\* Nothing that was scanned for work that was thrown away turns up later.
THEOREM PageCapturesOfNow == PartSpec => []NothingFromBefore
<1>1. CameraAssumption
  BY ScanningAssumption
<1>2. QED  BY <1>1, PartIsCamera, CapturesAreOfNow, PTL

\* The types of the variables; a save button is off exactly while one save of
\* its form is under way, and no form waits for a lookup that is not there.
THEOREM PartTypeCorrect == PartSpec => []PartTypeOK
<1>1. FormsInv => Forms!TypeOK
  <2> SUFFICES ASSUME FormsInv  PROVE Forms!TypeOK
    OBVIOUS
  <2>1. ASSUME NEW k \in Forms!Shown
        PROVE  Forms!Cardinality({s \in saves : s.key = k /\ s.work = cleared})
                  = IF forms[k].busy THEN 1 ELSE 0
    <3> DEFINE mine == {s \in saves : s.key = k /\ s.work = cleared}
    <3>1. CASE forms[k].busy
      <4>1. PICK s \in saves : Present(s) /\ s.key = k
        BY <3>1 DEF FormsInv, SaveInv
      <4>2. \A r \in saves : Present(r) /\ r.key = k => r = s
        BY <4>1 DEF FormsInv, SaveInv
      <4>3. mine = {s}
        BY <4>1, <4>2 DEF Present
      <4>4. QED  BY <3>1, <4>3, SameCount, FS_Singleton
    <3>2. CASE ~forms[k].busy
      <4>1. mine = {}
        BY <3>2 DEF FormsInv, SaveInv, Present
      <4>2. QED  BY <3>2, <4>1, SameCount, FS_EmptySet
    <3>3. QED  BY <3>1, <3>2
  <2>2. ASSUME NEW k \in Forms!Shown
        PROVE  /\ forms[k] \in Forms!Form
               /\ forms[k].token \in 1..(MaxRetry + 1)
               /\ {forms[k].content, forms[k].stored} \subseteq 0..edits
               /\ forms[k].init \/ \E l \in lookups : Forms!Current(l) /\ l.key = k
    BY ShownForm DEF FormsInv, FormTypes, LookupInv
  <2>3. QED  BY <2>1, <2>2 DEF Forms!TypeOK, FormsInv, FormTypes, Lookup, Saving
<1>2. DeviceInv => Devices!TypeOK
  BY DEF DeviceInv, DeviceTypes, Readiness, Devices!TypeOK
<1>3. CameraAssumption /\ DeviceBound
  BY ScanningAssumption DEF Devices!DevicesAssumption, DeviceBound
<1>4. QED  BY <1>1, <1>2, <1>3, FormsBounded, PartIsForms, FormsKeep, PartIsDevices, DevicesKeep,
              PartIsCamera, TypeCorrect, PTL DEF PartTypeOK
=============================================================================
