---------------------------- MODULE Relay_proofs ----------------------------
(***************************************************************************)
(* Theorems about Relay for any set of clients, names, connections and     *)
(* calls, and any number of lost links and crashes.                        *)
(*                                                                         *)
(* First what the two ends know of their connections.  Then that Relay     *)
(* implements the calls of Rpc: the proof follows the one copy of a        *)
(* request from the caller's connection over the relay to the callee,      *)
(* where the handler it starts makes the only answers there are.           *)
(***************************************************************************)
EXTENDS Relay, SequenceTheorems, TLAPS

\* A frame taken off a channel leaves a channel of frames.
LEMMA TakeType ==
  ASSUME NEW F, NEW s \in Seq(F), s # <<>>
  PROVE  Head(s) \in F /\ Tail(s) \in Seq(F)
  OBVIOUS

\* What a send leaves on the wire is typed as before.
LEMMA SendType ==
  ASSUME TypeOK, NEW c \in Client, ws[c] \in Conn, NEW f \in Outgoing, Send(c, f)
  PROVE  up' \in [Conn -> Seq(Outgoing)] /\ link' \in [Conn -> LinkState]
<1>1. Append(up[ws[c]], f) \in Seq(Outgoing)
  BY DEF TypeOK
<1>2. QED  BY <1>1 DEF TypeOK, Send, LinkState

\* Cut keeps a prefix of each channel.
LEMMA PrefixType ==
  ASSUME NEW F, NEW s \in Seq(F), NEW n \in 0 .. Len(s)
  PROVE  SubSeq(s, 1, n) \in Seq(F)
<1>1. \A i \in 1 .. n : s[i] \in F
  OBVIOUS
<1>2. QED  BY <1>1, SubSeqProperties

LEMMA FrameTypes ==
  /\ Pong \in Outgoing /\ Ping \in Incoming
  /\ \A i \in Id, to \in Name : Req(i, to) \in Outgoing
  /\ \A i \in Id, to \in Name, ok \in BOOLEAN : Resp(i, to, ok) \in Outgoing
  BY DEF Outgoing, Incoming, Message, Ping, Pong, Req, Resp

\* The relay stamps the sender's name on what it forwards.
LEMMA StampType ==
  ASSUME NEW m \in Outgoing, m # Pong, NEW n \in Name
  PROVE  [m EXCEPT !.from = n] \in Message(Name)
  BY DEF Outgoing, Message

LEMMA KindTypes ==
  ASSUME NEW m \in Incoming
  PROVE  /\ m.kind = "resp" => m.response_to \in Id /\ m.ok \in BOOLEAN
         /\ m.kind = "req" => m.id \in Id /\ m.from \in Name
  BY DEF Incoming, Message, Ping

LEMMA InitType == Init => TypeOK /\ SocketInv
  BY RelayAssumption DEF Init, TypeOK, SocketInv, Outcome, LinkState, Online

-----------------------------------------------------------------------------
(* Types *)

LEMMA ClientType ==
  ASSUME TypeOK, SocketInv, NEW c \in Client, ClientStep(c)
  PROVE  TypeOK'
<1> USE RelayAssumption
<1>1. CASE Dial(c)
  <2>1. PICK k \in Free :
          /\ ws' = [ws EXCEPT ![c] = k]
          /\ link' = [link EXCEPT ![k] = "syn"]
          /\ name' = [name EXCEPT ![k] = Role[c]]
          /\ up' = [up EXCEPT ![k] = <<>>]
          /\ down' = [down EXCEPT ![k] = <<>>]
    BY <1>1 DEF Dial
  <2>2. k \in Conn /\ Role[c] \in Name
    BY DEF Free
  <2>3. /\ ws' \in [Client -> Conn \cup {NoConn}]
        /\ link' \in [Conn -> LinkState]
        /\ name' \in [Conn -> Name \cup {NoName}]
        /\ up' \in [Conn -> Seq(Outgoing)]
        /\ down' \in [Conn -> Seq(Incoming)]
    BY <2>1, <2>2 DEF TypeOK, LinkState
  <2>4. readyState' \in [Client -> {"off", "connecting", "open", "closed"}]
    BY <1>1 DEF Dial, TypeOK
  <2>5. QED  BY <1>1, <2>3, <2>4 DEF Dial, TypeOK, callVars, workVars, boundVars
<1>2. CASE Open(c)
  BY <1>2 DEF Open, TypeOK, callVars, serverVars, netVars, workVars, boundVars
<1>3. CASE CloseEvent(c)
  BY <1>3 DEF CloseEvent, TypeOK, callVars, serverVars, workVars, boundVars
<1>4. CASE Crash(c)
  <2>1. link' \in [Conn -> LinkState]
    BY <1>4 DEF Crash, TypeOK, LinkState
  <2>2. down' \in [Conn -> Seq(Incoming)]
    BY <1>4 DEF Crash, TypeOK
  <2>3. promise' \in [Id -> Outcome]
    BY <1>4 DEF Crash, TypeOK, Outcome
  <2>4. QED
    BY <1>4, <2>1, <2>2, <2>3 DEF Crash, TypeOK, serverVars
<1>5. CASE AnswerPing(c)
  <2>1. ws[c] \in Conn
    BY <1>5 DEF AnswerPing, Arrives, SocketInv
  <2>2. Tail(down[ws[c]]) \in Seq(Incoming)
    BY <1>5, <2>1, TakeType DEF AnswerPing, Arrives, TypeOK
  <2>3. Send(c, Pong)  BY <1>5 DEF AnswerPing
  <2>4. up' \in [Conn -> Seq(Outgoing)] /\ link' \in [Conn -> LinkState]
    BY <2>1, <2>3, SendType, FrameTypes
  <2>5. QED
    BY <1>5, <2>1, <2>2, <2>4
       DEF AnswerPing, TypeOK, socketVars, callVars, serverVars, workVars, boundVars
<1>6. CASE Response(c)
  <2>1. ws[c] \in Conn
    BY <1>6 DEF Response, Arrives, SocketInv
  <2>2. Tail(down[ws[c]]) \in Seq(Incoming)
    BY <1>6, <2>1, TakeType DEF Response, Arrives, TypeOK
  <2>3. promise' \in [Id -> Outcome]
    BY <1>6 DEF Response, TypeOK, Outcome, Answer
  <2>4. pending' \in [Client -> SUBSET Id]
    BY <1>6 DEF Response, TypeOK
  <2>5. QED
    BY <1>6, <2>1, <2>2, <2>3, <2>4
       DEF Response, TypeOK, socketVars, serverVars, workVars, boundVars
<1>7. CASE Dispatch(c)
  <2> DEFINE m == Head(down[ws[c]])
  <2>1. ws[c] \in Conn
    BY <1>7 DEF Dispatch, Arrives, SocketInv
  <2>2. m \in Incoming /\ Tail(down[ws[c]]) \in Seq(Incoming)
    BY <1>7, <2>1, TakeType DEF Dispatch, Arrives, TypeOK
  <2>3. m.id \in Id /\ m.from \in Name
    BY <1>7, <2>2, KindTypes DEF Dispatch, Arrives
  <2>4. serving' \in [Client -> SUBSET [id : Id, from : Name]]
    BY <1>7, <2>3 DEF Dispatch, TypeOK
  <2>5. served' \in [Id -> Nat]
    BY <1>7, <2>3 DEF Dispatch, TypeOK
  <2>6. QED
    BY <1>7, <2>1, <2>2, <2>4, <2>5
       DEF Dispatch, TypeOK, socketVars, callVars, serverVars, boundVars
<1>8. ASSUME NEW h \in serving[c], HandlerDone(c, h)  PROVE TypeOK'
  <2>1. h.id \in Id /\ h.from \in Name
    BY DEF TypeOK
  <2>2. up' \in [Conn -> Seq(Outgoing)] /\ link' \in [Conn -> LinkState]
    <3>1. CASE UNCHANGED <<up, link>>
      BY <3>1 DEF TypeOK
    <3>2. ASSUME Online(c), NEW ok \in BOOLEAN, Send(c, Resp(h.id, h.from, ok))
          PROVE  up' \in [Conn -> Seq(Outgoing)] /\ link' \in [Conn -> LinkState]
      BY <2>1, <3>2, SendType, FrameTypes DEF SocketInv
    <3>3. QED  BY <1>8, <3>1, <3>2 DEF HandlerDone
  <2>3. serving' \in [Client -> SUBSET [id : Id, from : Name]]
    BY <1>8 DEF HandlerDone, TypeOK
  <2>4. QED
    BY <1>8, <2>2, <2>3 DEF HandlerDone, TypeOK, socketVars, callVars, serverVars, boundVars
<1>9. QED
  BY <1>1, <1>2, <1>3, <1>4, <1>5, <1>6, <1>7, <1>8 DEF ClientStep

LEMMA CallType ==
  ASSUME TypeOK, SocketInv, NEW i \in Id, Request(i) \/ RequestTimeout(i)
  PROVE  TypeOK'
<1> DEFINE c == Call[i].by
<1>1. c \in Client /\ Call[i].to \in Name
  BY RelayAssumption
<1>2. CASE Request(i)
  <2>1. up' \in [Conn -> Seq(Outgoing)] /\ link' \in [Conn -> LinkState]
    <3>1. CASE Online(c)
      <4>1. ws[c] \in Conn
        BY <1>1, <3>1 DEF SocketInv
      <4>2. Send(c, Req(i, Call[i].to))
        BY <1>2, <3>1 DEF Request
      <4>3. QED  BY <1>1, <4>1, <4>2, SendType, FrameTypes
    <3>2. CASE ~ Online(c)
      BY <1>2, <3>2 DEF Request, TypeOK
    <3>3. QED  BY <3>1, <3>2
  <2>2. pending' \in [Client -> SUBSET Id] /\ promise' \in [Id -> Outcome]
    BY <1>1, <1>2 DEF Request, TypeOK, Outcome
  <2>3. QED
    BY <1>2, <2>1, <2>2
       DEF Request, TypeOK, socketVars, serverVars, workVars, boundVars
<1>3. CASE RequestTimeout(i)
  BY <1>1, <1>3
     DEF RequestTimeout, TypeOK, Outcome, socketVars, serverVars, netVars, workVars, boundVars
<1>4. QED  BY <1>2, <1>3

LEMMA RelayType ==
  ASSUME TypeOK, SocketInv, RelayStep
  PROVE  TypeOK'
<1>1. CASE PingAll
  <2>1. up' \in [Conn -> Seq(Outgoing)]
    BY <1>1 DEF PingAll, Dead, Terminated, TypeOK
  <2>2. down' \in [Conn -> Seq(Incoming)]
    <3>1. \A k \in Conn : Append(down[k], Ping) \in Seq(Incoming)
      BY FrameTypes DEF TypeOK
    <3>2. QED  BY <1>1, <3>1 DEF PingAll, Dead, Terminated, TypeOK
  <2>3. link' \in [Conn -> LinkState] /\ isAlive' \in [Conn -> BOOLEAN]
    BY <1>1 DEF PingAll, Dead, Terminated, TypeOK, LinkState
  <2>4. QED
    BY <1>1, <2>1, <2>2, <2>3
       DEF PingAll, Dead, Terminated, TypeOK, socketVars, callVars, workVars, boundVars
<1>2. ASSUME NEW k \in Conn, HandleMessage(k)  PROVE TypeOK'
  <2> DEFINE m == [Head(up[k]) EXCEPT !.from = name[k]]
  <2>1. Head(up[k]) \in Outgoing /\ Tail(up[k]) \in Seq(Outgoing)
    BY <1>2, TakeType DEF HandleMessage, TypeOK
  <2>2. m \in Incoming
    BY <1>2, <2>1, StampType DEF HandleMessage, SocketInv, Incoming
  <2>3. \A j \in Conn : Append(down[j], m) \in Seq(Incoming)
    BY <2>2 DEF TypeOK
  <2>4. Forward(m) \in [Conn -> Seq(Incoming)]
    BY <2>3 DEF Forward, TypeOK
  <2>5. QED
    BY <1>2, <2>1, <2>4
       DEF HandleMessage, TypeOK, socketVars, callVars, serverVars, workVars, boundVars
<1>3. ASSUME NEW k \in Conn, HandlePong(k)  PROVE TypeOK'
  <2>1. Tail(up[k]) \in Seq(Outgoing)
    BY <1>3, TakeType DEF HandlePong, TypeOK
  <2>2. QED
    BY <1>3, <2>1 DEF HandlePong, TypeOK, socketVars, callVars, workVars, boundVars
<1>4. ASSUME NEW k \in Conn, Accept(k) \/ Conflict(k) \/ HandleClose(k)
      PROVE  TypeOK'
  BY <1>4
     DEF Accept, Conflict, HandleClose, TypeOK, LinkState,
         socketVars, callVars, serverVars, netVars, workVars, boundVars
<1>5. QED  BY <1>1, <1>2, <1>3, <1>4 DEF RelayStep

LEMMA CutType ==
  ASSUME TypeOK, NEW k \in Conn, Cut(k)
  PROVE  TypeOK'
<1>1. PICK n \in 0 .. Len(up[k]) : up' = [up EXCEPT ![k] = SubSeq(@, 1, n)]
  BY DEF Cut
<1>2. PICK l \in 0 .. Len(down[k]) : down' = [down EXCEPT ![k] = SubSeq(@, 1, l)]
  BY DEF Cut
<1>3. up' \in [Conn -> Seq(Outgoing)] /\ down' \in [Conn -> Seq(Incoming)]
  BY <1>1, <1>2, PrefixType DEF TypeOK
<1>4. QED
  BY <1>3 DEF Cut, TypeOK, LinkState, socketVars, callVars, serverVars, workVars

\* The type invariant of the relay and its sockets is preserved by every step.
LEMMA TypeStep == TypeOK /\ SocketInv /\ [Next]_vars => TypeOK'
<1> SUFFICES ASSUME TypeOK, SocketInv, [Next]_vars  PROVE TypeOK'
  OBVIOUS
<1>1. CASE UNCHANGED vars
  BY <1>1 DEF TypeOK, vars, socketVars, callVars, serverVars, netVars, workVars, boundVars
<1>2. CASE Next
  BY <1>2, ClientType, CallType, RelayType, CutType DEF Next, CallStep
<1>3. QED  BY <1>1, <1>2

-----------------------------------------------------------------------------
(* How the two ends of the connections fit together *)

\* A dialled connection was free: no other client holds it and the relay does
\* not know it.
LEMMA DialSocket ==
  ASSUME TypeOK, SocketInv, UniqueNames, NEW c \in Client, Dial(c)
  PROVE  SocketInv' /\ UniqueNames'
<1>1. PICK k \in Free :
        /\ ws' = [ws EXCEPT ![c] = k]
        /\ link' = [link EXCEPT ![k] = "syn"]
        /\ name' = [name EXCEPT ![k] = Role[c]]
  BY DEF Dial
<1>2. k \in Conn /\ k \notin clients /\ \A d \in Client : ws[d] # k
  BY DEF Free
<1>3. clients' = clients /\ \A d \in Client : Online(d)' => Online(d)
  BY DEF Dial, Online, TypeOK
<1>4. \A d \in Client : ws'[d] = IF d = c THEN k ELSE ws[d]
  BY <1>1 DEF TypeOK
<1>5. \A j \in Conn : j # k => name'[j] = name[j] /\ link'[j] = link[j]
  BY <1>1 DEF TypeOK
<1>6. name'[k] = Role[c] /\ link'[k] = "syn"
  BY <1>1, <1>2 DEF TypeOK
<1>7. SocketInv'
  <2>1. \A d \in Client : Online(d)' => ws'[d] \in Conn
    BY <1>2, <1>3, <1>4 DEF SocketInv
  <2>2. \A d, e \in Client : ws'[d] = ws'[e] /\ ws'[d] # NoConn => d = e
    BY <1>2, <1>4 DEF SocketInv
  <2>3. \A d \in Client : ws'[d] # NoConn => name'[ws'[d]] = Role[d]
    <3> SUFFICES ASSUME NEW d \in Client, ws'[d] # NoConn
                 PROVE  name'[ws'[d]] = Role[d]
      OBVIOUS
    <3>1. CASE d = c
      BY <1>4, <1>6, <3>1
    <3>2. CASE d # c
      <4>1. ws'[d] = ws[d] /\ ws[d] # k /\ ws[d] \in Conn
        BY <1>2, <1>4, <3>2 DEF TypeOK
      <4>2. QED  BY <1>5, <4>1 DEF SocketInv
    <3>3. QED  BY <3>1, <3>2
  <2>4. \A j \in Conn : link'[j] = "up" => j \in clients'
    BY <1>3, <1>5, <1>6 DEF SocketInv
  <2>5. \A j \in Conn : link'[j] = "syn" => j \notin clients'
    BY <1>2, <1>3, <1>5 DEF SocketInv
  <2>6. \A j \in Conn : j \in clients' \/ link'[j] = "syn" => name'[j] \in Name
    BY <1>3, <1>5, <1>6, RelayAssumption DEF SocketInv
  <2>7. QED  BY <2>1, <2>2, <2>3, <2>4, <2>5, <2>6 DEF SocketInv
<1>8. UniqueNames'
  <2>1. \A j \in clients : name'[j] = name[j]
    BY <1>2, <1>5 DEF TypeOK
  <2>2. QED  BY <1>3, <2>1 DEF UniqueNames
<1>9. QED  BY <1>7, <1>8

\* A step that leaves sockets, names and the relay's list alone, and makes no
\* link come up.
LEMMA QuietSocket ==
  ASSUME TypeOK, SocketInv, UniqueNames,
         UNCHANGED <<socketVars, clients, name>>,
         link' \in [Conn -> LinkState],
         \A k \in Conn : link'[k] \in {"up", "syn"} => link'[k] = link[k]
  PROVE  SocketInv' /\ UniqueNames'
<1>1. ws' = ws /\ readyState' = readyState /\ clients' = clients /\ name' = name
  BY DEF socketVars
<1>2. \A k \in clients : k \in Conn
  BY DEF TypeOK
<1>3. QED
  BY <1>1, <1>2 DEF SocketInv, UniqueNames, Online

\* A send can only turn a cut link into a lost one.
LEMMA SendLink ==
  ASSUME TypeOK, NEW c \in Client, ws[c] \in Conn, NEW f, Send(c, f)
  PROVE  /\ link' \in [Conn -> LinkState]
         /\ \A k \in Conn : link'[k] \in {"up", "syn"} => link'[k] = link[k]
  BY DEF Send, TypeOK, LinkState

LEMMA ClientSocket ==
  ASSUME TypeOK, SocketInv, UniqueNames, NEW c \in Client, ClientStep(c)
  PROVE  SocketInv' /\ UniqueNames'
<1>1. CASE Dial(c)
  BY <1>1, DialSocket
<1>2. CASE Open(c)
  BY <1>2 DEF Open, SocketInv, UniqueNames, TypeOK, Online, serverVars, netVars
<1>3. CASE CloseEvent(c)
  BY <1>3 DEF CloseEvent, SocketInv, UniqueNames, TypeOK, Online, serverVars
<1>4. CASE Crash(c)
  <2>1. \A d \in Client : ws'[d] = IF d = c THEN NoConn ELSE ws[d]
    BY <1>4 DEF Crash, TypeOK
  <2>2. \A d \in Client : Online(d)' => d # c /\ Online(d)
    BY <1>4 DEF Crash, TypeOK, Online
  <2>3. \A k \in Conn : /\ link'[k] \in {"up", "syn"} => link'[k] = link[k]
    BY <1>4 DEF Crash
  <2>4. name' = name /\ clients' = clients
    BY <1>4 DEF Crash, serverVars
  <2>5. \A k \in clients : k \in Conn
    BY DEF TypeOK
  <2>6. QED
    BY <2>1, <2>2, <2>3, <2>4, <2>5 DEF SocketInv, UniqueNames
<1>5. CASE AnswerPing(c)
  <2>1. ws[c] \in Conn
    BY <1>5 DEF AnswerPing, Arrives, SocketInv
  <2>2. QED
    BY <1>5, <2>1, SendLink, QuietSocket DEF AnswerPing, serverVars
<1>6. CASE Response(c) \/ Dispatch(c)
  BY <1>6, QuietSocket DEF Response, Dispatch, serverVars, TypeOK
<1>7. ASSUME NEW h \in serving[c], HandlerDone(c, h)
      PROVE  SocketInv' /\ UniqueNames'
  <2>1. UNCHANGED <<socketVars, clients, name>>
    BY <1>7 DEF HandlerDone, serverVars
  <2>2. CASE UNCHANGED <<up, link>>
    BY <2>1, <2>2, QuietSocket DEF TypeOK
  <2>3. ASSUME Online(c), NEW ok \in BOOLEAN, Send(c, Resp(h.id, h.from, ok))
        PROVE  SocketInv' /\ UniqueNames'
    <3>1. ws[c] \in Conn
      BY <2>3 DEF SocketInv
    <3>2. QED  BY <2>1, <2>3, <3>1, SendLink, QuietSocket
  <2>4. QED  BY <1>7, <2>2, <2>3 DEF HandlerDone
<1>8. QED
  BY <1>1, <1>2, <1>3, <1>4, <1>5, <1>6, <1>7 DEF ClientStep

LEMMA CallSocket ==
  ASSUME TypeOK, SocketInv, UniqueNames, NEW i \in Id,
         Request(i) \/ RequestTimeout(i)
  PROVE  SocketInv' /\ UniqueNames'
<1> DEFINE c == Call[i].by
<1>1. c \in Client
  BY RelayAssumption
<1>2. UNCHANGED <<socketVars, clients, name>>
  BY DEF Request, RequestTimeout, serverVars
<1>3. CASE Request(i) /\ Online(c)
  <2>1. ws[c] \in Conn
    BY <1>1, <1>3 DEF SocketInv
  <2>2. Send(c, Req(i, Call[i].to))
    BY <1>3 DEF Request
  <2>3. QED  BY <1>1, <1>2, <2>1, <2>2, SendLink, QuietSocket
<1>4. CASE RequestTimeout(i) \/ (Request(i) /\ ~ Online(c))
  <2>1. link' = link
    BY <1>4 DEF Request, RequestTimeout, netVars
  <2>2. QED  BY <1>2, <2>1, QuietSocket DEF TypeOK
<1>5. QED  BY <1>3, <1>4

LEMMA RelaySocket ==
  ASSUME TypeOK, SocketInv, UniqueNames, RelayStep
  PROVE  SocketInv' /\ UniqueNames'
<1>1. CASE PingAll
  <2>1. clients' \subseteq clients /\ name' = name /\ UNCHANGED socketVars
    BY <1>1 DEF PingAll, Dead, Terminated
  <2>2. \A k \in Conn :
          /\ link'[k] = "up" => k \in clients'
          /\ link'[k] = "syn" => link[k] = "syn"
    BY <1>1 DEF PingAll, Dead, Terminated, SocketInv, TypeOK
  <2>3. ws' = ws /\ readyState' = readyState
    BY <2>1 DEF socketVars
  <2>4. SocketInv'
    BY <2>1, <2>2, <2>3 DEF SocketInv, TypeOK, Online
  <2>5. UniqueNames'
    BY <2>1 DEF UniqueNames
  <2>6. QED  BY <2>4, <2>5
<1>2. ASSUME NEW k \in Conn, HandleMessage(k) \/ HandlePong(k) \/ Conflict(k)
      PROVE  SocketInv' /\ UniqueNames'
  <2>1. UNCHANGED <<socketVars, clients, name>>
    BY <1>2 DEF HandleMessage, HandlePong, Conflict, serverVars
  <2>2. /\ link' \in [Conn -> LinkState]
        /\ \A j \in Conn : link'[j] \in {"up", "syn"} => link'[j] = link[j]
    BY <1>2 DEF HandleMessage, HandlePong, Conflict, TypeOK, LinkState
  <2>3. QED  BY <2>1, <2>2, QuietSocket
<1>3. ASSUME NEW k \in Conn, Accept(k)
      PROVE  SocketInv' /\ UniqueNames'
  <2>1. name[k] \in Name
    BY <1>3 DEF Accept, Taken, SocketInv
  <2>2. /\ clients' = clients \cup {k}
        /\ name' = name /\ ws' = ws /\ readyState' = readyState
        /\ \A j \in Conn : link'[j] = IF j = k THEN "up" ELSE link[j]
        /\ \A j \in clients : name[j] # name[k]
    BY <1>3 DEF Accept, Taken, TypeOK, socketVars
  <2>3. SocketInv'
    BY <2>1, <2>2 DEF SocketInv, Online
  <2>4. UniqueNames'
    BY <2>2 DEF UniqueNames
  <2>5. QED  BY <2>3, <2>4
<1>4. ASSUME NEW k \in Conn, HandleClose(k)
      PROVE  SocketInv' /\ UniqueNames'
  BY <1>4 DEF HandleClose, SocketInv, UniqueNames, TypeOK, Online, socketVars, netVars
<1>5. QED  BY <1>1, <1>2, <1>3, <1>4 DEF RelayStep

LEMMA CutSocket ==
  ASSUME TypeOK, SocketInv, UniqueNames, NEW k \in Conn, Cut(k)
  PROVE  SocketInv' /\ UniqueNames'
<1>1. /\ link' \in [Conn -> LinkState]
      /\ \A j \in Conn : link'[j] \in {"up", "syn"} => link'[j] = link[j]
  BY DEF Cut, TypeOK, LinkState
<1>2. QED  BY <1>1, QuietSocket DEF Cut, serverVars

\* The two ends' views keep fitting together, and names stay unique.
LEMMA SocketStep == TypeOK /\ SocketInv /\ UniqueNames /\ [Next]_vars => SocketInv' /\ UniqueNames'
<1> SUFFICES ASSUME TypeOK, SocketInv, UniqueNames, [Next]_vars
             PROVE  SocketInv' /\ UniqueNames'
  OBVIOUS
<1>1. CASE UNCHANGED vars
  BY <1>1, QuietSocket DEF vars, serverVars, netVars, TypeOK
<1>2. CASE Next
  BY <1>2, ClientSocket, CallSocket, RelaySocket, CutSocket DEF Next, CallStep
<1>3. QED  BY <1>1, <1>2

-----------------------------------------------------------------------------
(* Promises *)

LEMMA PromiseStep == TypeOK /\ NoForgottenPromise /\ [Next]_vars => NoForgottenPromise'
<1> SUFFICES ASSUME TypeOK, NoForgottenPromise, [Next]_vars
             PROVE  NoForgottenPromise'
  OBVIOUS
<1> USE RelayAssumption
<1>0. \A d \in Client : \A j \in pending[d] :
        j \in Id /\ Call[j].by = d /\ promise[j] \in {"waiting", "threw"}
  BY DEF NoForgottenPromise, TypeOK
<1>1. CASE UNCHANGED callVars
  BY <1>1 DEF NoForgottenPromise, callVars
<1>2. ASSUME NEW c \in Client, Crash(c)  PROVE NoForgottenPromise'
  <2>1. /\ \A d \in Client : pending'[d] = IF d = c THEN {} ELSE pending[d]
        /\ \A i \in Id : promise'[i] = IF Call[i].by = c /\ promise[i] = "waiting"
                                         THEN "abandoned" ELSE promise[i]
    BY <1>2 DEF Crash, TypeOK
  <2>2. \A d \in Client : \A i \in pending[d] : i \in Id
    BY DEF TypeOK
  <2>3. QED  BY <2>1, <2>2 DEF NoForgottenPromise
<1>3. ASSUME NEW c \in Client, Response(c)  PROVE NoForgottenPromise'
  <2> DEFINE m == Head(down[ws[c]])
             i == m.response_to
             r == IF m.ok THEN "resolved" ELSE "refused"
  <2>1. /\ pending' = [pending EXCEPT ![c] = @ \ {i}]
        /\ promise' = [promise EXCEPT ![i] =
                         IF i \in pending[c] /\ @ = "waiting" THEN r ELSE @]
    BY <1>3 DEF Response
  <2>2. \A d \in Client : pending'[d] = IF d = c THEN pending[d] \ {i} ELSE pending[d]
    BY <2>1 DEF TypeOK
  <2>3. \A j \in Id : promise'[j] = IF j = i /\ i \in pending[c] /\ promise[j] = "waiting"
                                     THEN r ELSE promise[j]
    BY <2>1 DEF TypeOK
  <2>4. r # "waiting"
    OBVIOUS
  <2> HIDE DEF r, i, m
  <2>5. \A j \in Id : promise'[j] = "waiting" => j \in pending'[Call[j].by]
    BY <2>2, <2>3, <2>4 DEF NoForgottenPromise
  <2>6. \A d \in Client : \A j \in pending'[d] :
          Call[j].by = d /\ promise'[j] \in {"waiting", "threw"}
    <3> SUFFICES ASSUME NEW d \in Client, NEW j \in pending'[d]
                 PROVE  Call[j].by = d /\ promise'[j] \in {"waiting", "threw"}
      OBVIOUS
    <3>1. j \in pending[d] /\ (d = c => j # i)
      BY <2>2
    <3>2. j \in Id /\ Call[j].by = d /\ promise[j] \in {"waiting", "threw"}
      BY <1>0, <3>1
    <3>3. ~ (j = i /\ i \in pending[c])
      BY <1>0, <3>1, <3>2
    <3>4. QED  BY <2>3, <3>2, <3>3
  <2>7. QED  BY <2>5, <2>6 DEF NoForgottenPromise
<1>4. ASSUME NEW i \in Id, Request(i)  PROVE NoForgottenPromise'
  <2> DEFINE c == Call[i].by
             r == IF readyState[c] = "connecting" THEN "threw" ELSE "waiting"
  <2>1. /\ \A d \in Client : pending'[d] = IF d = c THEN pending[d] \cup {i} ELSE pending[d]
        /\ \A j \in Id : promise'[j] = IF j = i THEN r ELSE promise[j]
    BY <1>4 DEF Request, TypeOK
  <2>2. promise[i] = "unsent" /\ r \in {"waiting", "threw"} /\ c \in Client
    BY <1>4 DEF Request
  <2> HIDE DEF r
  <2>3. \A j \in Id : promise'[j] = "waiting" => j \in pending'[Call[j].by]
    <3> SUFFICES ASSUME NEW j \in Id, promise'[j] = "waiting"
                 PROVE  j \in pending'[Call[j].by]
      OBVIOUS
    <3>1. CASE j = i
      BY <2>1, <2>2, <3>1
    <3>2. CASE j # i
      <4>1. promise[j] = "waiting" /\ Call[j].by \in Client
        BY <2>1, <3>2
      <4>2. j \in pending[Call[j].by]
        BY <4>1 DEF NoForgottenPromise
      <4>3. QED  BY <2>1, <4>1, <4>2
    <3>3. QED  BY <3>1, <3>2
  <2>4. \A d \in Client : \A j \in pending'[d] :
          Call[j].by = d /\ promise'[j] \in {"waiting", "threw"}
    <3> SUFFICES ASSUME NEW d \in Client, NEW j \in pending'[d]
                 PROVE  Call[j].by = d /\ promise'[j] \in {"waiting", "threw"}
      OBVIOUS
    <3>1. CASE j \in pending[d]
      <4>1. j \in Id /\ Call[j].by = d /\ promise[j] \in {"waiting", "threw"}
        BY <1>0, <3>1
      <4>2. QED  BY <2>1, <2>2, <4>1
    <3>2. CASE j \notin pending[d]
      <4>1. d = c /\ j = i
        BY <2>1, <3>2
      <4>2. QED  BY <2>1, <2>2, <4>1
    <3>3. QED  BY <3>1, <3>2
  <2>5. QED  BY <2>3, <2>4 DEF NoForgottenPromise
<1>5. ASSUME NEW i \in Id, RequestTimeout(i)  PROVE NoForgottenPromise'
  <2> DEFINE c == Call[i].by
  <2>1. /\ \A d \in Client : pending'[d] = IF d = c THEN pending[d] \ {i} ELSE pending[d]
        /\ \A j \in Id : promise'[j] = IF j = i /\ promise[j] = "waiting"
                                         THEN "timedout" ELSE promise[j]
    BY <1>5 DEF RequestTimeout, TypeOK
  <2>2. \A j \in Id : promise'[j] = "waiting" => j \in pending'[Call[j].by]
    <3> SUFFICES ASSUME NEW j \in Id, promise'[j] = "waiting"
                 PROVE  j \in pending'[Call[j].by]
      OBVIOUS
    <3>1. j # i /\ promise[j] = "waiting" /\ Call[j].by \in Client
      BY <2>1
    <3>2. j \in pending[Call[j].by]
      BY <3>1 DEF NoForgottenPromise
    <3>3. QED  BY <2>1, <3>1, <3>2
  <2>3. \A d \in Client : \A j \in pending'[d] :
          Call[j].by = d /\ promise'[j] \in {"waiting", "threw"}
    <3> SUFFICES ASSUME NEW d \in Client, NEW j \in pending'[d]
                 PROVE  Call[j].by = d /\ promise'[j] \in {"waiting", "threw"}
      OBVIOUS
    <3>1. j \in pending[d] /\ (d = c => j # i)
      BY <2>1
    <3>2. j \in Id /\ Call[j].by = d /\ promise[j] \in {"waiting", "threw"}
      BY <1>0, <3>1
    <3>3. QED  BY <2>1, <3>1, <3>2
  <2>4. QED  BY <2>2, <2>3 DEF NoForgottenPromise
<1>6. QED
  <2>1. CASE UNCHANGED vars
    BY <1>1, <2>1 DEF vars
  <2>2. CASE Next
    <3>1. ASSUME NEW c \in Client, ClientStep(c)  PROVE NoForgottenPromise'
      BY <1>1, <1>2, <1>3, <3>1
         DEF ClientStep, Dial, Open, CloseEvent, AnswerPing, Dispatch, HandlerDone
    <3>2. CASE RelayStep
      BY <1>1, <3>2
         DEF RelayStep, PingAll, Accept, Conflict, HandleMessage, HandlePong, HandleClose
    <3>3. CASE CallStep
      BY <1>4, <1>5, <3>3 DEF CallStep
    <3>4. ASSUME NEW k \in Conn, Cut(k)  PROVE NoForgottenPromise'
      BY <1>1, <3>4 DEF Cut
    <3>5. QED  BY <2>2, <3>1, <3>2, <3>3, <3>4 DEF Next
  <2>3. QED  BY <2>1, <2>2

-----------------------------------------------------------------------------
\* The inductive invariant holds in every reachable state.
THEOREM Invariance == Spec => []IInv
<1>1. Init => IInv
  <2>1. Init => UniqueNames /\ NoForgottenPromise
    BY DEF Init, UniqueNames, NoForgottenPromise
  <2>2. QED  BY <2>1, InitType DEF IInv
<1>2. IInv /\ [Next]_vars => IInv'
  BY TypeStep, SocketStep, PromiseStep DEF IInv
<1>3. QED  BY <1>1, <1>2, PTL DEF Spec

\* Frames, promises and connection tables keep their types.
THEOREM TypeCorrect == Spec => []TypeOK
<1>1. IInv => TypeOK
  BY DEF IInv
<1>2. QED  BY <1>1, Invariance, PTL

\* No two live connections of the relay ever hold the same name, however many
\* handshakes race and however many connections are half open.
THEOREM NamesStayUnique == Spec => []UniqueNames
<1>1. IInv => UniqueNames
  BY DEF IInv
<1>2. QED  BY <1>1, Invariance, PTL

\* A client with an open socket on a working link is registered under its role.
THEOREM OpenIsRegistered == Spec => []OpenMeansRegistered
<1>1. IInv => OpenMeansRegistered
  BY RelayAssumption DEF IInv, SocketInv, OpenMeansRegistered
<1>2. QED  BY <1>1, Invariance, PTL

\* Every waiting promise has its timer, and only at the process that asked.
THEOREM PromisesAreKept == Spec => []NoForgottenPromise
<1>1. IInv => NoForgottenPromise
  BY DEF IInv
<1>2. QED  BY <1>1, Invariance, PTL

-----------------------------------------------------------------------------
(* What the operations on a channel do to the requests in it *)

\* A channel with no request the other had not, and none twice.
Thinned(t, s) ==
  /\ Once(s) => Once(t)
  /\ \A i \in Id : Carries(t, i) => Carries(s, i)

LEMMA EmptyThins ==
  ASSUME NEW s  PROVE Thinned(<<>>, s)
  BY DEF Thinned, Once, Carries

LEMMA SameThins ==
  ASSUME NEW s  PROVE Thinned(s, s)
  BY DEF Thinned

LEMMA TailThins ==
  ASSUME NEW F, NEW s \in Seq(F), s # <<>>
  PROVE  Thinned(Tail(s), s)
<1>1. \A n \in DOMAIN Tail(s) : n + 1 \in DOMAIN s /\ Tail(s)[n] = s[n + 1] /\ n \in Nat
  OBVIOUS
<1>2. Once(s) => Once(Tail(s))
  BY <1>1 DEF Once
<1>3. \A i \in Id : Carries(Tail(s), i) => Carries(s, i)
  BY <1>1 DEF Carries
<1>4. QED  BY <1>2, <1>3 DEF Thinned

LEMMA PrefixThins ==
  ASSUME NEW F, NEW s \in Seq(F), NEW l \in 0 .. Len(s)
  PROVE  Thinned(SubSeq(s, 1, l), s)
<1>1. \A n \in DOMAIN SubSeq(s, 1, l) : n \in DOMAIN s /\ SubSeq(s, 1, l)[n] = s[n]
  OBVIOUS
<1>2. Once(s) => Once(SubSeq(s, 1, l))
  BY <1>1 DEF Once
<1>3. \A i \in Id : Carries(SubSeq(s, 1, l), i) => Carries(s, i)
  BY <1>1 DEF Carries
<1>4. QED  BY <1>2, <1>3 DEF Thinned

\* A ping, a pong or an answer at the end of a channel is no request.
LEMMA AppendThins ==
  ASSUME NEW F, NEW s \in Seq(F), NEW f \in F, f.kind # "req"
  PROVE  Thinned(Append(s, f), s)
<1>1. \A n \in DOMAIN Append(s, f) :
        Append(s, f)[n].kind = "req" => n \in DOMAIN s /\ Append(s, f)[n] = s[n]
  OBVIOUS
<1>2. Once(s) => Once(Append(s, f))
  BY <1>1 DEF Once
<1>3. \A i \in Id : Carries(Append(s, f), i) => Carries(s, i)
  BY <1>1 DEF Carries
<1>4. QED  BY <1>2, <1>3 DEF Thinned

LEMMA AppendType ==
  ASSUME NEW F, NEW s \in Seq(F), NEW f \in F
  PROVE  Append(s, f) \in Seq(F)
  OBVIOUS

\* A request at the end of a channel that had no copy of it.
LEMMA AppendRequest ==
  ASSUME NEW F, NEW s \in Seq(F), NEW f \in F, f.kind = "req"
  PROVE  /\ Once(s) /\ ~ Carries(s, f.id) => Once(Append(s, f))
         /\ \A i \in Id : Carries(Append(s, f), i) => Carries(s, i) \/ i = f.id
<1>1. /\ DOMAIN Append(s, f) = DOMAIN s \cup {Len(s) + 1}
      /\ Append(s, f)[Len(s) + 1] = f
      /\ \A n \in DOMAIN s : Append(s, f)[n] = s[n]
  OBVIOUS
<1>2. Once(s) /\ ~ Carries(s, f.id) => Once(Append(s, f))
  BY <1>1 DEF Once, Carries
<1>3. \A i \in Id : Carries(Append(s, f), i) => Carries(s, i) \/ i = f.id
  BY <1>1 DEF Carries
<1>4. QED  BY <1>2, <1>3

\* The first frame, taken off, leaves no copy of itself.
LEMMA TakeRequest ==
  ASSUME NEW F, NEW s \in Seq(F), s # <<>>, Once(s), Head(s).kind = "req"
  PROVE  Carries(s, Head(s).id) /\ ~ Carries(Tail(s), Head(s).id)
<1>1. 1 \in DOMAIN s /\ s[1] = Head(s)
  OBVIOUS
<1>2. \A n \in DOMAIN Tail(s) :
        n + 1 \in DOMAIN s /\ Tail(s)[n] = s[n + 1] /\ n \in Nat /\ n + 1 # 1
  OBVIOUS
<1>3. Carries(s, Head(s).id)
  BY <1>1 DEF Carries
<1>4. ~ Carries(Tail(s), Head(s).id)
  BY <1>1, <1>2 DEF Once, Carries
<1>5. QED  BY <1>3, <1>4

-----------------------------------------------------------------------------
(* Steps that put no request on the wire and start no handler *)

UpCalm == \A k \in Conn : up'[k] \in Seq(Sent(k)) /\ Thinned(up'[k], up[k])
DownCalm == \A k \in Conn : down'[k] \in Seq(Relayed(k)) /\ Thinned(down'[k], down[k])
\* A connection is dialled under another name only with empty channels.
NamesCalm == \A k \in Conn : name'[k] = name[k] \/ (up'[k] = <<>> /\ down'[k] = <<>>)
Invocations == \A i \in Id : Invoked(i) => Invoked(i)'
WorkCalm ==
  /\ served' = served
  /\ Invocations
  /\ \A c \in Client : serving'[c] \subseteq serving[c]

\* Answers stay answers: frames that were right are right after a step that
\* only adds handlers.
LEMMA FramesStay ==
  ASSUME TypeOK, NamesCalm,
         \A i \in Id : served[i] # 0 => served'[i] # 0,
         \A k \in Conn : up'[k] \in Seq(Sent(k)) /\ down'[k] \in Seq(Relayed(k))
  PROVE  FramesRight'
<1> SUFFICES ASSUME NEW k \in Conn
             PROVE  up'[k] \in Seq(Sent(k)') /\ down'[k] \in Seq(Relayed(k)')
  BY DEF FramesRight
<1>1. CASE up'[k] = <<>> /\ down'[k] = <<>>
  BY <1>1
<1>2. CASE name'[k] = name[k]
  <2>1. Sent(k) \subseteq Sent(k)'
    BY <1>2 DEF Sent, Outgoing, Message, Pong
  <2>2. Relayed(k) \subseteq Relayed(k)'
    BY <1>2 DEF Relayed, Incoming, Message, Ping
  <2>3. \A S, T : S \subseteq T => \A s \in Seq(S) : s \in Seq(T)
    OBVIOUS
  <2> HIDE DEF Sent, Relayed
  <2>4. QED  BY <2>1, <2>2, <2>3
<1>3. QED  BY <1>1, <1>2 DEF NamesCalm

LEMMA CalmStep ==
  ASSUME TypeOK, RpcInv, UpCalm, DownCalm, NamesCalm, WorkCalm
  PROVE  RpcInv'
<1>1. FramesRight'
  BY FramesStay DEF UpCalm, DownCalm, WorkCalm
<1>2. /\ \A k \in Conn : Once(up[k]) /\ Once(down[k])
      /\ \A k \in Conn : Thinned(up'[k], up[k]) /\ Thinned(down'[k], down[k])
  BY DEF RpcInv, OneCopy, UpCalm, DownCalm
<1>3. \A k \in Conn : Once(up'[k]) /\ Once(down'[k])
  BY <1>2 DEF Thinned
<1>4. \A i \in Id : \A k \in Conn :
        /\ Carries(up'[k], i) => Carries(up[k], i)
        /\ Carries(down'[k], i) => Carries(down[k], i)
  BY <1>2 DEF Thinned
<1>5. \A i \in Id : \A j, k \in Conn :
        /\ Carries(up'[j], i) /\ Carries(up'[k], i) => j = k
        /\ Carries(down'[j], i) /\ Carries(down'[k], i) => j = k
        /\ ~ (Carries(up'[j], i) /\ Carries(down'[k], i))
  BY <1>4 DEF RpcInv, OneCopy
<1>6. \A i \in Id : \A k \in Conn :
        Carries(up'[k], i) \/ Carries(down'[k], i) => served'[i] = 0 /\ Invoked(i)'
  BY <1>4 DEF RpcInv, OneCopy, WorkCalm, Invocations
<1>7. WorkRight'
  BY DEF RpcInv, WorkRight, WorkCalm, Invocations
<1>8. OneCopy'
  BY <1>3, <1>5, <1>6 DEF OneCopy, Once, Carries
<1>9. QED  BY <1>1, <1>7, <1>8 DEF RpcInv

\* Channels that are left alone, or emptied.
LEMMA UpSame ==
  ASSUME FramesRight, \A k \in Conn : up'[k] = up[k] \/ up'[k] = <<>>
  PROVE  UpCalm
<1>1. \A S : <<>> \in Seq(S)
  OBVIOUS
<1>2. QED  BY <1>1, SameThins, EmptyThins DEF FramesRight, UpCalm

LEMMA DownSame ==
  ASSUME FramesRight, \A k \in Conn : down'[k] = down[k] \/ down'[k] = <<>>
  PROVE  DownCalm
<1>1. \A S : <<>> \in Seq(S)
  OBVIOUS
<1>2. QED  BY <1>1, SameThins, EmptyThins DEF FramesRight, DownCalm

\* The first frame of one channel is taken.
LEMMA DownTail ==
  ASSUME TypeOK, FramesRight, NEW k \in Conn, down[k] # <<>>,
         down' = [down EXCEPT ![k] = Tail(@)]
  PROVE  DownCalm
<1>1. \A j \in Conn : down'[j] = IF j = k THEN Tail(down[j]) ELSE down[j]
  BY DEF TypeOK
<1>2. Tail(down[k]) \in Seq(Relayed(k)) /\ Thinned(Tail(down[k]), down[k])
  BY TakeType, TailThins DEF FramesRight
<1>3. QED  BY <1>1, <1>2, SameThins DEF FramesRight, DownCalm

LEMMA UpTail ==
  ASSUME TypeOK, FramesRight, NEW k \in Conn, up[k] # <<>>,
         up' = [up EXCEPT ![k] = Tail(@)]
  PROVE  UpCalm
<1>1. \A j \in Conn : up'[j] = IF j = k THEN Tail(up[j]) ELSE up[j]
  BY DEF TypeOK
<1>2. Tail(up[k]) \in Seq(Sent(k)) /\ Thinned(Tail(up[k]), up[k])
  BY TakeType, TailThins DEF FramesRight
<1>3. QED  BY <1>1, <1>2, SameThins DEF FramesRight, UpCalm

\* A frame that is no request is sent.
LEMMA SendCalm ==
  ASSUME TypeOK, FramesRight, NEW c \in Client, ws[c] \in Conn,
         NEW f \in Sent(ws[c]), f.kind # "req", Send(c, f)
  PROVE  UpCalm
<1> DEFINE w == ws[c]
<1>1. \A j \in Conn : up'[j] = up[j] \/ (j = w /\ up'[j] = Append(up[j], f))
  BY DEF Send, TypeOK
<1>2. Append(up[w], f) \in Seq(Sent(w)) /\ Thinned(Append(up[w], f), up[w])
  BY AppendThins DEF FramesRight
<1>3. QED  BY <1>1, <1>2, SameThins DEF FramesRight, UpCalm

-----------------------------------------------------------------------------
(* The client's steps *)

LEMMA ClientCalm ==
  ASSUME TypeOK, SocketInv, RpcInv, NEW c \in Client, ClientStep(c), ~ Dispatch(c)
  PROVE  RpcInv'
<1> FramesRight /\ WorkRight
  BY DEF RpcInv
<1>1. CASE Dial(c)
  <2>1. PICK k \in Free :
          /\ name' = [name EXCEPT ![k] = Role[c]]
          /\ up' = [up EXCEPT ![k] = <<>>]
          /\ down' = [down EXCEPT ![k] = <<>>]
    BY <1>1 DEF Dial
  <2>2. UpCalm /\ DownCalm
    BY <2>1, UpSame, DownSame DEF TypeOK
  <2>3. NamesCalm
    BY <2>1 DEF TypeOK, NamesCalm
  <2>4. WorkCalm
    BY <1>1 DEF Dial, callVars, workVars, WorkCalm, Invocations, Invoked
  <2>5. QED  BY <2>2, <2>3, <2>4, CalmStep
<1>2. CASE Open(c)
  <2>1. UpCalm /\ DownCalm
    BY <1>2, UpSame, DownSame DEF Open, netVars
  <2>2. NamesCalm /\ WorkCalm
    BY <1>2 DEF Open, serverVars, callVars, workVars, NamesCalm, WorkCalm, Invocations, Invoked
  <2>3. QED  BY <2>1, <2>2, CalmStep
<1>3. CASE CloseEvent(c)
  <2>1. UpCalm /\ DownCalm
    BY <1>3, UpSame, DownSame DEF CloseEvent, TypeOK
  <2>2. NamesCalm /\ WorkCalm
    BY <1>3 DEF CloseEvent, serverVars, callVars, workVars, NamesCalm, WorkCalm, Invocations, Invoked
  <2>3. QED  BY <2>1, <2>2, CalmStep
<1>4. CASE Crash(c)
  <2>1. UpCalm /\ DownCalm
    BY <1>4, UpSame, DownSame DEF Crash, TypeOK
  <2>2. Invocations
    BY <1>4 DEF Crash, Invocations, Invoked
  <2>3. NamesCalm /\ WorkCalm
    BY <1>4, <2>2 DEF Crash, TypeOK, serverVars, NamesCalm, WorkCalm
  <2>4. QED  BY <2>1, <2>3, CalmStep
<1>5. CASE AnswerPing(c)
  <2>1. ws[c] \in Conn
    BY <1>5 DEF AnswerPing, Arrives, SocketInv
  <2>2. Pong \in Sent(ws[c]) /\ Pong.kind # "req"
    BY FrameTypes DEF Sent, Pong
  <2>3. UpCalm
    BY <1>5, <2>1, <2>2, SendCalm DEF AnswerPing
  <2>4. DownCalm
    BY <1>5, <2>1, DownTail DEF AnswerPing, Arrives
  <2>5. NamesCalm /\ WorkCalm
    BY <1>5 DEF AnswerPing, serverVars, callVars, workVars, NamesCalm, WorkCalm, Invocations, Invoked
  <2>6. QED  BY <2>3, <2>4, <2>5, CalmStep
<1>6. CASE Response(c)
  <2>1. ws[c] \in Conn
    BY <1>6 DEF Response, Arrives, SocketInv
  <2>2. DownCalm
    BY <1>6, <2>1, DownTail DEF Response, Arrives
  <2>3. UpCalm
    BY <1>6, UpSame DEF Response
  <2>4. Invocations
    BY <1>6 DEF Response, TypeOK, Invocations, Invoked
  <2>5. NamesCalm /\ WorkCalm
    BY <1>6, <2>4 DEF Response, serverVars, workVars, NamesCalm, WorkCalm
  <2>6. QED  BY <2>2, <2>3, <2>5, CalmStep
<1>7. ASSUME NEW h \in serving[c], HandlerDone(c, h)  PROVE RpcInv'
  <2>1. h.id \in Id /\ h.from \in Name /\ served[h.id] # 0
    BY DEF TypeOK, WorkRight
  <2>2. UpCalm
    <3>1. CASE UNCHANGED <<up, link>>
      BY <3>1, UpSame
    <3>2. ASSUME Online(c), NEW ok \in BOOLEAN, Send(c, Resp(h.id, h.from, ok))
          PROVE  UpCalm
      <4>1. ws[c] \in Conn
        BY <3>2 DEF SocketInv
      <4>2. Resp(h.id, h.from, ok) \in Sent(ws[c]) /\ Resp(h.id, h.from, ok).kind # "req"
        BY <2>1, FrameTypes DEF Sent, Resp
      <4>3. QED  BY <3>2, <4>1, <4>2, SendCalm
    <3>3. QED  BY <1>7, <3>1, <3>2 DEF HandlerDone
  <2>3. DownCalm
    BY <1>7, DownSame DEF HandlerDone
  <2>4. \A d \in Client : serving'[d] \subseteq serving[d]
    BY <1>7 DEF HandlerDone, TypeOK
  <2>5. NamesCalm /\ WorkCalm
    BY <1>7, <2>4 DEF HandlerDone, serverVars, callVars, NamesCalm, WorkCalm, Invocations, Invoked
  <2>6. QED  BY <2>2, <2>3, <2>5, CalmStep
<1>8. QED
  BY <1>1, <1>2, <1>3, <1>4, <1>5, <1>6, <1>7 DEF ClientStep

\* The handler starts with the one copy of the request, which is gone with it.
LEMMA DispatchServes ==
  ASSUME TypeOK, SocketInv, RpcInv, NEW c \in Client, Dispatch(c)
  PROVE  /\ RpcInv'
         /\ \E i \in Id : /\ Invoked(i) /\ served[i] = 0
                          /\ served' = [served EXCEPT ![i] = 1]
                          /\ promise' = promise
<1> FramesRight /\ OneCopy /\ WorkRight
  BY DEF RpcInv
<1> DEFINE w == ws[c]
           m == Head(down[w])
           i == m.id
<1>1. w \in Conn /\ down[w] # <<>> /\ m.kind = "req"
  BY DEF Dispatch, Arrives, SocketInv
<1>2. m \in Relayed(w)
  BY <1>1, TakeType DEF FramesRight
<1>3. m \in Incoming /\ i \in Id /\ m.from = Role[Call[i].by] /\ Role[c] = Call[i].to
  <2>1. m \in Incoming
    BY <1>2 DEF Relayed
  <2>2. i \in Id
    BY <1>1, <2>1, KindTypes
  <2>3. m.from = Role[Call[i].by] /\ name[w] = Call[i].to
    BY <1>1, <1>2 DEF Relayed
  <2>4. name[w] = Role[c]
    BY <1>1, RelayAssumption DEF SocketInv, Dispatch, Arrives, TypeOK
  <2>5. QED  BY <2>1, <2>2, <2>3, <2>4
<1>4. Carries(down[w], i) /\ ~ Carries(Tail(down[w]), i)
  BY <1>1, TakeRequest DEF FramesRight, OneCopy
<1>5. served[i] = 0 /\ Invoked(i)
  BY <1>1, <1>3, <1>4 DEF OneCopy
<1>6. /\ down' = [down EXCEPT ![w] = Tail(@)]
      /\ served' = [served EXCEPT ![i] = 1]
      /\ serving' = [serving EXCEPT ![c] = @ \cup {[id |-> i, from |-> m.from]}]
      /\ promise' = promise /\ up' = up /\ name' = name
  BY <1>3, <1>5 DEF Dispatch, TypeOK, callVars, serverVars
<1> HIDE DEF m, i
<1>7. UpCalm /\ DownCalm
  BY <1>1, <1>6, UpSame, DownTail
<1>8. FramesRight'
  <2>1. \A j \in Id : served[j] # 0 => served'[j] # 0
    BY <1>3, <1>6 DEF TypeOK
  <2>2. NamesCalm
    BY <1>6 DEF NamesCalm
  <2>3. QED  BY <1>7, <2>1, <2>2, FramesStay DEF UpCalm, DownCalm
<1>9. OneCopy'
  <2>1. \A k \in Conn : Once(up'[k]) /\ Once(down'[k])
    BY <1>7 DEF OneCopy, UpCalm, DownCalm, Thinned
  <2>2. \A j \in Id : \A k \in Conn :
          /\ Carries(up'[k], j) => Carries(up[k], j)
          /\ Carries(down'[k], j) => Carries(down[k], j)
    BY <1>7 DEF UpCalm, DownCalm, Thinned
  <2>3. \A j \in Id : \A k, l \in Conn :
          /\ Carries(up'[k], j) /\ Carries(up'[l], j) => k = l
          /\ Carries(down'[k], j) /\ Carries(down'[l], j) => k = l
          /\ ~ (Carries(up'[k], j) /\ Carries(down'[l], j))
    BY <2>2 DEF OneCopy
  <2>4. \A k \in Conn : ~ Carries(up'[k], i) /\ ~ Carries(down'[k], i)
    <3> SUFFICES ASSUME NEW k \in Conn  PROVE ~ Carries(up'[k], i) /\ ~ Carries(down'[k], i)
      OBVIOUS
    <3>1. ~ Carries(up'[k], i)
      BY <1>1, <1>3, <1>4, <2>2 DEF OneCopy
    <3>2. CASE k = w
      BY <1>1, <1>4, <1>6, <3>1, <3>2 DEF TypeOK
    <3>3. CASE k # w
      BY <1>1, <1>3, <1>4, <2>2, <3>1, <3>3 DEF OneCopy
    <3>4. QED  BY <3>2, <3>3
  <2>5. \A j \in Id : j # i => served'[j] = served[j]
    BY <1>6 DEF TypeOK
  <2>6. \A j \in Id : \A k \in Conn :
          Carries(up'[k], j) \/ Carries(down'[k], j) => served'[j] = 0 /\ Invoked(j)'
    <3> SUFFICES ASSUME NEW j \in Id, NEW k \in Conn, Carries(up'[k], j) \/ Carries(down'[k], j)
                 PROVE  served'[j] = 0 /\ Invoked(j)'
      OBVIOUS
    <3>1. j # i
      BY <2>4
    <3>2. served[j] = 0 /\ Invoked(j)
      BY <2>2 DEF OneCopy
    <3>3. QED  BY <1>6, <2>5, <3>1, <3>2 DEF Invoked
  <2>7. QED  BY <2>1, <2>3, <2>6 DEF OneCopy, Carries, Once
<1>10. WorkRight'
  <2>1. \A j \in Id : served'[j] = IF j = i THEN 1 ELSE served[j]
    BY <1>3, <1>6 DEF TypeOK
  <2>2. \A j \in Id : served'[j] # 0 => served'[j] = 1 /\ Invoked(j)'
    BY <1>5, <1>6, <2>1 DEF WorkRight, Invoked
  <2>3. \A d \in Client : \A h \in serving'[d] :
          \/ h \in serving[d] /\ h.id \in Id
          \/ d = c /\ h = [id |-> i, from |-> m.from]
    BY <1>6 DEF TypeOK
  <2>4. \A d \in Client : \A h \in serving'[d] :
          served'[h.id] # 0 /\ h.from = Role[Call[h.id].by] /\ Role[d] = Call[h.id].to
    <3> SUFFICES ASSUME NEW d \in Client, NEW h \in serving'[d]
                 PROVE  served'[h.id] # 0 /\ h.from = Role[Call[h.id].by] /\ Role[d] = Call[h.id].to
      OBVIOUS
    <3>1. CASE h \in serving[d] /\ h.id \in Id
      BY <2>1, <3>1 DEF WorkRight
    <3>2. CASE d = c /\ h = [id |-> i, from |-> m.from]
      BY <1>3, <2>1, <3>2
    <3>3. QED  BY <2>3, <3>1, <3>2
  <2>5. QED  BY <2>2, <2>4 DEF WorkRight
<1>11. RpcInv'
  BY <1>8, <1>9, <1>10 DEF RpcInv
<1>12. QED  BY <1>3, <1>5, <1>6, <1>11

-----------------------------------------------------------------------------
(* The caller's steps *)

\* The one copy of a request is put on the wire, when nothing of it was.
LEMMA RequestSends ==
  ASSUME TypeOK, SocketInv, RpcInv, NEW i \in Id, Request(i)
  PROVE  RpcInv'
<1> FramesRight /\ OneCopy /\ WorkRight
  BY DEF RpcInv
<1> DEFINE c == Call[i].by
           w == ws[c]
           f == Req(i, Call[i].to)
<1>1. c \in Client /\ Call[i].to \in Name
  BY RelayAssumption
<1>2. /\ promise[i] = "unsent" /\ served[i] = 0 /\ ~ Invoked(i)
      /\ \A k \in Conn : ~ Carries(up[k], i) /\ ~ Carries(down[k], i)
  BY DEF Request, OneCopy, WorkRight, Invoked
<1>3. /\ served' = served /\ serving' = serving /\ down' = down /\ name' = name
      /\ \A j \in Id : j # i => promise'[j] = promise[j]
  BY DEF Request, TypeOK, workVars, serverVars
<1>4. Invocations
  BY <1>2, <1>3 DEF Invocations, Invoked
<1>5. DownCalm /\ NamesCalm
  BY <1>3, DownSame DEF NamesCalm
<1>6. CASE UNCHANGED up
  <2>1. UpCalm
    BY <1>6, UpSame
  <2>2. WorkCalm
    BY <1>3, <1>4 DEF WorkCalm
  <2>3. QED  BY <1>5, <2>1, <2>2, CalmStep
<1>7. CASE Online(c) /\ Send(c, f) /\ ~ UNCHANGED up
  <2>1. w \in Conn /\ name[w] = Role[c]
    BY <1>1, <1>7, RelayAssumption DEF SocketInv, TypeOK
  <2>2. \A k \in Conn : up'[k] = IF k = w THEN Append(up[k], f) ELSE up[k]
    BY <1>7, <2>1 DEF Send, TypeOK
  <2>3. f \in Sent(w) /\ f.kind = "req" /\ f.id = i
    BY <1>1, <2>1, FrameTypes DEF Sent, Req
  <2> HIDE DEF f
  <2>4. Invoked(i)'
    BY <1>7 DEF Request, TypeOK, Invoked, Online
  <2>5. FramesRight'
    <3>1. \A k \in Conn : up'[k] \in Seq(Sent(k)) /\ down'[k] \in Seq(Relayed(k))
      <4>1. up[w] \in Seq(Sent(w))
        BY <2>1 DEF FramesRight
      <4>2. Append(up[w], f) \in Seq(Sent(w))
        BY <2>3, <4>1, AppendType
      <4>3. QED  BY <1>5, <2>2, <4>2 DEF FramesRight, DownCalm
    <3>2. QED  BY <1>3, <1>5, <3>1, FramesStay
  <2>6. /\ Once(up'[w])
        /\ \A j \in Id : Carries(up'[w], j) => Carries(up[w], j) \/ j = i
    BY <1>2, <2>1, <2>2, <2>3, AppendRequest DEF FramesRight, OneCopy
  <2>7. \A j \in Id : \A k \in Conn :
          Carries(up'[k], j) => Carries(up[k], j) \/ (j = i /\ k = w)
    BY <2>2, <2>6
  <2>8. OneCopy'
    <3>1. \A k \in Conn : Once(up'[k]) /\ Once(down'[k])
      BY <1>3, <2>2, <2>6 DEF OneCopy
    <3>2. \A j \in Id : \A k, l \in Conn :
            /\ Carries(up'[k], j) /\ Carries(up'[l], j) => k = l
            /\ Carries(down'[k], j) /\ Carries(down'[l], j) => k = l
            /\ ~ (Carries(up'[k], j) /\ Carries(down'[l], j))
      BY <1>2, <1>3, <2>7 DEF OneCopy
    <3>3. \A j \in Id : \A k \in Conn :
            Carries(up'[k], j) \/ Carries(down'[k], j) => served'[j] = 0 /\ Invoked(j)'
      <4> SUFFICES ASSUME NEW j \in Id, NEW k \in Conn,
                          Carries(up'[k], j) \/ Carries(down'[k], j)
                   PROVE  served'[j] = 0 /\ Invoked(j)'
        OBVIOUS
      <4>1. CASE j = i
        BY <1>2, <1>3, <2>4, <4>1
      <4>2. CASE j # i
        BY <1>3, <1>4, <2>7, <4>2 DEF OneCopy, Invocations
      <4>3. QED  BY <4>1, <4>2
    <3>4. QED  BY <3>1, <3>2, <3>3 DEF OneCopy, Carries, Once
  <2>9. WorkRight'
    BY <1>3, <1>4 DEF WorkRight, Invocations
  <2>10. QED  BY <2>5, <2>8, <2>9 DEF RpcInv
<1>8. QED  BY <1>6, <1>7 DEF Request

LEMMA TimeoutCalm ==
  ASSUME TypeOK, RpcInv, NEW i \in Id, RequestTimeout(i)
  PROVE  RpcInv'
<1>1. UpCalm /\ DownCalm
  BY UpSame, DownSame DEF RequestTimeout, netVars, RpcInv
<1>2. Invocations
  BY DEF RequestTimeout, TypeOK, Invocations, Invoked
<1>3. NamesCalm /\ WorkCalm
  BY <1>2 DEF RequestTimeout, serverVars, workVars, NamesCalm, WorkCalm
<1>4. QED  BY <1>1, <1>3, CalmStep

-----------------------------------------------------------------------------
(* The relay's steps *)

\* Names are unique, so a request the relay forwards is copied once at most.
LEMMA ForwardMoves ==
  ASSUME TypeOK, SocketInv, UniqueNames, RpcInv, NEW k \in Conn, HandleMessage(k)
  PROVE  RpcInv'
<1> FramesRight /\ OneCopy /\ WorkRight
  BY DEF RpcInv
<1> DEFINE f == Head(up[k])
           m == [f EXCEPT !.from = name[k]]
           To(j) == j \in clients /\ name[j] = m.to /\ link[j] = "up"
<1>1. up[k] # <<>> /\ k \in clients /\ f # Pong
  BY DEF HandleMessage
<1>2. f \in Sent(k) /\ f \in Outgoing
  <2>1. f \in Sent(k)
    BY <1>1, TakeType DEF FramesRight
  <2>2. QED  BY <2>1 DEF Sent
<1>3. /\ m \in Incoming /\ m.kind = f.kind /\ m.from = name[k] /\ m.to = f.to
      /\ f.kind \in {"req", "resp"}
      /\ f.kind = "req" => m.id = f.id /\ f.id \in Id
      /\ f.kind = "resp" => m.response_to = f.response_to
  <2>1. name[k] \in Name
    BY <1>1 DEF SocketInv
  <2>2. m \in Message(Name)
    BY <1>1, <1>2, <2>1, StampType
  <2>3. f \in Message({NoName})
    BY <1>1, <1>2 DEF Outgoing
  <2>4. QED  BY <2>1, <2>2, <2>3 DEF Incoming, Message
<1>4. UpCalm
  BY <1>1, UpTail DEF HandleMessage
<1>5. \A j \in Conn : down'[j] = IF To(j) THEN Append(down[j], m) ELSE down[j]
  BY DEF HandleMessage, Forward
<1>6. \A j \in Conn : To(j) => m \in Relayed(j)
  BY <1>2, <1>3 DEF Sent, Relayed
<1>7. /\ served' = served /\ serving' = serving /\ promise' = promise /\ name' = name
      /\ NamesCalm /\ WorkCalm
  BY DEF HandleMessage, serverVars, callVars, workVars, NamesCalm, WorkCalm, Invocations, Invoked
<1>8. \A j, l \in Conn : To(j) /\ To(l) => j = l
  BY DEF UniqueNames
<1>9. up'[k] = Tail(up[k])
  BY DEF HandleMessage, TypeOK
<1> HIDE DEF f, m, To
<1>10. \A j \in Conn : down'[j] \in Seq(Relayed(j))
  <2>1. \A j \in Conn : To(j) => Append(down[j], m) \in Seq(Relayed(j))
    BY <1>6, AppendType DEF FramesRight
  <2>2. QED  BY <1>5, <2>1 DEF FramesRight
<1>11. CASE f.kind = "resp"
  <2>1. DownCalm
    <3> SUFFICES ASSUME NEW j \in Conn  PROVE Thinned(down'[j], down[j])
      BY <1>10 DEF DownCalm
    <3>1. CASE To(j)
      BY <1>3, <1>5, <1>6, <1>11, <3>1, AppendThins DEF FramesRight
    <3>2. CASE ~ To(j)
      BY <1>5, <3>2, SameThins
    <3>3. QED  BY <3>1, <3>2
  <2>2. QED  BY <1>4, <1>7, <2>1, CalmStep
<1>12. CASE f.kind = "req"
  <2> DEFINE i == f.id
  <2>1. Carries(up[k], i) /\ ~ Carries(Tail(up[k]), i) /\ i \in Id
    BY <1>1, <1>3, <1>12, TakeRequest DEF FramesRight, OneCopy, f
  <2>2. /\ served[i] = 0 /\ Invoked(i)
        /\ \A j \in Conn : ~ Carries(down[j], i) /\ ~ Carries(up'[j], i)
    <3>1. served[i] = 0 /\ Invoked(i) /\ \A j \in Conn : ~ Carries(down[j], i)
      BY <2>1 DEF OneCopy
    <3>2. \A j \in Conn : ~ Carries(up'[j], i)
      BY <1>4, <1>9, <2>1 DEF OneCopy, UpCalm, Thinned
    <3>3. QED  BY <3>1, <3>2
  <2> HIDE DEF i
  <2>3. \A j \in Conn :
          /\ Once(down'[j])
          /\ \A l \in Id : Carries(down'[j], l) => Carries(down[j], l) \/ (l = i /\ To(j))
    <3> SUFFICES ASSUME NEW j \in Conn
                 PROVE  /\ Once(down'[j])
                        /\ \A l \in Id : Carries(down'[j], l) =>
                              Carries(down[j], l) \/ (l = i /\ To(j))
      OBVIOUS
    <3>1. CASE To(j)
      <4>1. m \in Relayed(j) /\ m.kind = "req" /\ m.id = i /\ down[j] \in Seq(Relayed(j))
        BY <1>3, <1>6, <1>12, <3>1 DEF FramesRight, i
      <4>2. Once(down[j]) /\ ~ Carries(down[j], m.id)
        BY <2>2, <4>1 DEF OneCopy
      <4>3. QED  BY <1>5, <3>1, <4>1, <4>2, AppendRequest
    <3>2. CASE ~ To(j)
      BY <1>5, <3>2 DEF OneCopy
    <3>3. QED  BY <3>1, <3>2
  <2>4. \A j \in Conn : Once(up'[j]) /\ \A l \in Id : Carries(up'[j], l) => Carries(up[j], l)
    BY <1>4 DEF OneCopy, UpCalm, Thinned
  <2>5. OneCopy'
    <3>1. \A l \in Id : \A j, n \in Conn :
            /\ Carries(up'[j], l) /\ Carries(up'[n], l) => j = n
            /\ Carries(down'[j], l) /\ Carries(down'[n], l) => j = n
            /\ ~ (Carries(up'[j], l) /\ Carries(down'[n], l))
      BY <1>8, <2>2, <2>3, <2>4 DEF OneCopy
    <3>2. \A l \in Id : \A j \in Conn :
            Carries(up'[j], l) \/ Carries(down'[j], l) => served'[l] = 0 /\ Invoked(l)'
      BY <1>7, <2>2, <2>3, <2>4 DEF OneCopy, Invoked
    <3>3. QED  BY <2>3, <2>4, <3>1, <3>2 DEF OneCopy, Carries, Once
  <2>6. FramesRight'
    BY <1>4, <1>7, <1>10, FramesStay DEF UpCalm
  <2>7. WorkRight'
    BY <1>7 DEF WorkRight, Invoked
  <2>8. QED  BY <2>5, <2>6, <2>7 DEF RpcInv
<1>13. QED  BY <1>3, <1>11, <1>12

LEMMA RelayCalm ==
  ASSUME TypeOK, SocketInv, UniqueNames, RpcInv, RelayStep
  PROVE  RpcInv'
<1> FramesRight
  BY DEF RpcInv
<1>1. CASE PingAll
  <2>1. UpCalm
    BY <1>1, UpSame DEF PingAll
  <2>2. DownCalm
    <3>1. \A k \in Conn : down'[k] = Append(down[k], Ping) \/ down'[k] = down[k]
      BY <1>1 DEF PingAll
    <3>2. \A k \in Conn : Ping \in Relayed(k) /\ Ping.kind # "req"
      BY FrameTypes DEF Relayed, Ping
    <3>3. \A k \in Conn : /\ Append(down[k], Ping) \in Seq(Relayed(k))
                          /\ Thinned(Append(down[k], Ping), down[k])
      BY <3>2, AppendThins DEF FramesRight
    <3>4. QED  BY <3>1, <3>3, SameThins DEF FramesRight, DownCalm
  <2>3. NamesCalm /\ WorkCalm
    BY <1>1 DEF PingAll, callVars, workVars, NamesCalm, WorkCalm, Invocations, Invoked
  <2>4. QED  BY <2>1, <2>2, <2>3, CalmStep
<1>2. ASSUME NEW k \in Conn, HandlePong(k)  PROVE RpcInv'
  <2>1. UpCalm /\ DownCalm
    BY <1>2, UpTail, DownSame DEF HandlePong
  <2>2. NamesCalm /\ WorkCalm
    BY <1>2 DEF HandlePong, callVars, workVars, NamesCalm, WorkCalm, Invocations, Invoked
  <2>3. QED  BY <2>1, <2>2, CalmStep
<1>3. ASSUME NEW k \in Conn, Accept(k) \/ Conflict(k) \/ HandleClose(k)
      PROVE  RpcInv'
  <2>1. UpCalm /\ DownCalm
    BY <1>3, UpSame, DownSame DEF Accept, Conflict, HandleClose, netVars
  <2>2. NamesCalm /\ WorkCalm
    BY <1>3 DEF Accept, Conflict, HandleClose, serverVars, callVars, workVars,
                NamesCalm, WorkCalm, Invocations, Invoked
  <2>3. QED  BY <2>1, <2>2, CalmStep
<1>4. QED  BY <1>1, <1>2, <1>3, ForwardMoves DEF RelayStep

LEMMA CutCalm ==
  ASSUME TypeOK, RpcInv, NEW k \in Conn, Cut(k)
  PROVE  RpcInv'
<1> FramesRight
  BY DEF RpcInv
<1>1. PICK n \in 0 .. Len(up[k]) : up' = [up EXCEPT ![k] = SubSeq(@, 1, n)]
  BY DEF Cut
<1>2. PICK l \in 0 .. Len(down[k]) : down' = [down EXCEPT ![k] = SubSeq(@, 1, l)]
  BY DEF Cut
<1>3. /\ SubSeq(up[k], 1, n) \in Seq(Sent(k)) /\ Thinned(SubSeq(up[k], 1, n), up[k])
      /\ SubSeq(down[k], 1, l) \in Seq(Relayed(k)) /\ Thinned(SubSeq(down[k], 1, l), down[k])
  BY PrefixType, PrefixThins DEF FramesRight
<1>4. \A j \in Conn : /\ up'[j] = IF j = k THEN SubSeq(up[k], 1, n) ELSE up[j]
                      /\ down'[j] = IF j = k THEN SubSeq(down[k], 1, l) ELSE down[j]
  BY <1>1, <1>2 DEF TypeOK
<1>5. UpCalm /\ DownCalm
  BY <1>3, <1>4, SameThins DEF FramesRight, UpCalm, DownCalm
<1>6. NamesCalm /\ WorkCalm
  BY DEF Cut, serverVars, callVars, workVars, NamesCalm, WorkCalm, Invocations, Invoked
<1>7. QED  BY <1>5, <1>6, CalmStep

-----------------------------------------------------------------------------
(* The invariant, and the calls of Rpc *)

LEMMA RpcInit == Init => RpcInv
<1> SUFFICES ASSUME Init  PROVE RpcInv
  OBVIOUS
<1>1. \A k \in Conn : up[k] = <<>> /\ down[k] = <<>>
  BY DEF Init
<1>2. \A S : <<>> \in Seq(S)
  OBVIOUS
<1>3. FramesRight
  BY <1>1, <1>2 DEF FramesRight
<1>4. OneCopy
  BY <1>1 DEF OneCopy, Once, Carries
<1>5. WorkRight
  BY DEF Init, WorkRight
<1>6. QED  BY <1>3, <1>4, <1>5 DEF RpcInv

LEMMA RpcStep == TypeOK /\ SocketInv /\ UniqueNames /\ RpcInv /\ [Next]_vars => RpcInv'
<1> SUFFICES ASSUME TypeOK, SocketInv, UniqueNames, RpcInv, [Next]_vars  PROVE RpcInv'
  OBVIOUS
<1>1. CASE UNCHANGED vars
  <2>1. UpCalm /\ DownCalm
    BY <1>1, UpSame, DownSame DEF vars, netVars, RpcInv
  <2>2. NamesCalm /\ WorkCalm
    BY <1>1 DEF vars, serverVars, callVars, workVars, NamesCalm, WorkCalm, Invocations, Invoked
  <2>3. QED  BY <2>1, <2>2, CalmStep
<1>2. CASE Next
  <2>1. ASSUME NEW c \in Client, ClientStep(c)  PROVE RpcInv'
    BY <2>1, ClientCalm, DispatchServes
  <2>2. CASE CallStep
    BY <2>2, RequestSends, TimeoutCalm DEF CallStep
  <2>3. CASE RelayStep
    BY <2>3, RelayCalm
  <2>4. ASSUME NEW k \in Conn, Cut(k)  PROVE RpcInv'
    BY <2>4, CutCalm
  <2>5. QED  BY <1>2, <2>1, <2>2, <2>3, <2>4 DEF Next
<1>3. QED  BY <1>1, <1>2

LEMMA InitRefines == Init => Abstract!Init
  BY DEF Init, Abstract!Init

LEMMA StepRefines ==
  TypeOK /\ SocketInv /\ NoForgottenPromise /\ RpcInv /\ [Next]_vars
    => [Abstract!Next]_(Abstract!vars)
<1> SUFFICES ASSUME TypeOK, SocketInv, NoForgottenPromise, RpcInv, [Next]_vars
             PROVE  [Abstract!Next]_(Abstract!vars)
  OBVIOUS
<1>1. ASSUME UNCHANGED <<promise, served>>  PROVE UNCHANGED Abstract!vars
  BY <1>1 DEF Abstract!vars
<1>2. ASSUME NEW c \in Client, Crash(c)  PROVE Abstract!Abandon
  <2> DEFINE S == {i \in Id : Call[i].by = c /\ promise[i] = "waiting"}
  <2>1. S \in SUBSET {i \in Id : promise[i] = "waiting"}
    OBVIOUS
  <2>2. promise' = [i \in Id |-> IF i \in S THEN "abandoned" ELSE promise[i]]
    BY <1>2 DEF Crash
  <2>3. QED  BY <1>2, <2>1, <2>2 DEF Crash, Abstract!Abandon
<1>3. ASSUME NEW c \in Client, Dispatch(c)  PROVE \E i \in Id : Abstract!Serve(i)
  <2>1. PICK i \in Id : /\ Invoked(i) /\ served[i] = 0
                        /\ served' = [served EXCEPT ![i] = 1]
                        /\ promise' = promise
    BY <1>3, DispatchServes
  <2>2. Abstract!Serve(i)
    BY <2>1 DEF Invoked, Abstract!Serve
  <2>3. QED  BY <2>2
<1>4. ASSUME NEW c \in Client, Response(c)
      PROVE  (\E i \in Id : Abstract!Settle(i)) \/ UNCHANGED Abstract!vars
  <2> DEFINE m == Head(down[ws[c]])
             i == m.response_to
             r == IF m.ok THEN "resolved" ELSE "refused"
  <2>1. ws[c] \in Conn /\ down[ws[c]] # <<>> /\ m.kind = "resp"
    BY <1>4 DEF Response, Arrives, SocketInv
  <2>2. m \in Relayed(ws[c])
    BY <2>1, TakeType DEF RpcInv, FramesRight
  <2>3. i \in Id /\ served[i] = 1
    <3>1. i \in Id /\ served[i] # 0
      BY <2>1, <2>2, KindTypes DEF Relayed
    <3>2. QED  BY <3>1 DEF RpcInv, WorkRight
  <2>4. /\ served' = served /\ r \in Abstract!Answer
        /\ promise' = [promise EXCEPT ![i] = IF i \in pending[c] /\ @ = "waiting" THEN r ELSE @]
    BY <1>4 DEF Response, workVars, Abstract!Answer
  <2> HIDE DEF m, i, r
  <2>5. CASE i \in pending[c] /\ promise[i] = "waiting"
    BY <2>3, <2>4, <2>5 DEF TypeOK, Abstract!Settle
  <2>6. CASE ~ (i \in pending[c] /\ promise[i] = "waiting")
    BY <1>1, <2>3, <2>4, <2>6 DEF TypeOK
  <2>7. QED  BY <2>3, <2>5, <2>6
<1>5. ASSUME NEW i \in Id, Request(i)  PROVE Abstract!Invoke(i)
  BY <1>5 DEF Request, workVars, Abstract!Invoke
<1>6. ASSUME NEW i \in Id, RequestTimeout(i)
      PROVE  Abstract!Settle(i) \/ UNCHANGED Abstract!vars
  <2>1. /\ served' = served
        /\ promise' = [promise EXCEPT ![i] = IF @ = "waiting" THEN "timedout" ELSE @]
    BY <1>6 DEF RequestTimeout, workVars
  <2>2. CASE promise[i] = "waiting"
    BY <2>1, <2>2 DEF TypeOK, Abstract!Settle
  <2>3. CASE promise[i] # "waiting"
    BY <1>1, <2>1, <2>3 DEF TypeOK
  <2>4. QED  BY <2>2, <2>3
<1>7. CASE UNCHANGED vars
  BY <1>1, <1>7 DEF vars, callVars, workVars
<1>8. CASE Next
  <2>1. ASSUME NEW c \in Client, ClientStep(c)
        PROVE  Abstract!Next \/ UNCHANGED Abstract!vars
    BY <1>1, <1>2, <1>3, <1>4, <2>1
       DEF ClientStep, Dial, Open, CloseEvent, AnswerPing, HandlerDone,
           callVars, workVars, Abstract!Next
  <2>2. CASE RelayStep
    BY <1>1, <2>2
       DEF RelayStep, PingAll, Accept, Conflict, HandleMessage, HandlePong, HandleClose,
           callVars, workVars
  <2>3. CASE CallStep
    BY <1>5, <1>6, <2>3 DEF CallStep, Abstract!Next
  <2>4. ASSUME NEW k \in Conn, Cut(k)  PROVE UNCHANGED Abstract!vars
    BY <1>1, <2>4 DEF Cut, callVars, workVars
  <2>5. QED  BY <1>8, <2>1, <2>2, <2>3, <2>4 DEF Next
<1>9. QED  BY <1>7, <1>8

-----------------------------------------------------------------------------
(* Theorems *)

\* Whatever is lost, cut or restarted: what is on the wire is one copy at most
\* of each request, on its way from the role that made it to the role it is
\* for, and answers to requests that were served.
THEOREM WireInvariance == Spec => []RpcInv
<1>1. IInv => TypeOK /\ SocketInv /\ UniqueNames
  BY DEF IInv
<1>2. QED  BY <1>1, RpcInit, RpcStep, Invariance, PTL DEF Spec

\* A handler runs at most once for a request, and what it is told of the sender
\* is the role that asked: the relay stamps header.from and never copies a
\* request to two connections.
THEOREM HandlersServeRightly == Spec => []ServedRightly
<1>1. TypeOK /\ RpcInv => ServedRightly
  <2> SUFFICES ASSUME TypeOK, RpcInv  PROVE ServedRightly
    OBVIOUS
  <2>1. \A i \in Id : served[i] = 0 \/ served[i] = 1
    BY DEF RpcInv, WorkRight
  <2>2. \A i \in Id : served[i] <= 1
    BY <2>1
  <2>3. QED  BY <2>2 DEF RpcInv, WorkRight, ServedRightly
<1>2. QED  BY <1>1, TypeCorrect, WireInvariance, PTL

\* ReconnectingSocket.request over the relay does what Rpc.tla promises of a
\* call: a handler at most once, settled once, an answer only from a handler
\* that ran for this very call.
THEOREM ImplementsRpc == Spec => RefinesRpc
<1>1. IInv => TypeOK /\ SocketInv /\ NoForgottenPromise
  BY DEF IInv
<1>2. QED
  BY <1>1, InitRefines, StepRefines, Invariance, WireInvariance, PTL
     DEF Spec, RefinesRpc, Abstract!Spec
=============================================================================
