------------------------------- MODULE Relay -------------------------------
(***************************************************************************)
(* The relay (lib/relay-server/relay-server.js) and the sockets that every *)
(* chezbob process dials it with (lib/reconnecting-socket): the name a     *)
(* connection holds at the relay, the heartbeat that reaps dead ones, the  *)
(* client's endless redialling, and the request/response calls on top.     *)
(*                                                                         *)
(* A connection has two ends that do not learn of each other's end at the  *)
(* same time.  link[k] is what joins them:                                 *)
(*   "syn"  the upgrade request is on its way to the relay                 *)
(*   "up"   accepted, and frames travel both ways                          *)
(*   "cut"  nothing travels any more and neither end has been told         *)
(*   "lost" cut, and the client has sent since: its TCP will give up       *)
(*   "fin"  the relay ended it (409 or terminate) and the client's close   *)
(*          event is on its way                                            *)
(*   "bye"  the client's process ended and its FIN is on its way           *)
(* "cut" is a lost network or a host that died: only the heartbeat (at the *)
(* relay) or TCP (at the client) ever finds out.                           *)
(***************************************************************************)
EXTENDS Naturals, Sequences

CONSTANTS
  Client,      \* processes that hold a ReconnectingSocket
  Name,        \* role names: the path of the websocket URL
  Role,        \* Role[c], the name client c dials with
  Conn,        \* connections; one is dialled again once both ends forgot it
  Id,          \* message ids of requests: uuids, so each is used once
  Call,        \* Call[i]: which client makes request i and to which name
  NoConn,
  NoName,
  MaxCuts,     \* bound: links the network loses
  MaxCrashes   \* bound: processes that end (crash, restart, page reload)

ASSUME RelayAssumption ==
  /\ Role \in [Client -> Name]
  /\ Call \in [Id -> [by : Client, to : Name]]
  /\ NoConn \notin Conn
  /\ NoName \notin Name
  /\ MaxCuts \in Nat
  /\ MaxCrashes \in Nat

VARIABLES
  ws,          \* ws[c]: the websocket under the ReconnectingSocket of c
  readyState,  \* "off" before the first connect resolves, then as in the DOM
  pending,     \* pending[c]: the ids in #pending, each with a running timer
  promise,     \* promise[i]: what the promise of request i has come to
  clients,     \* wss.clients
  name,        \* name[k]: the path k was dialled with, its ws.name
  isAlive,     \* isAlive[k]: a pong has come since the last ping
  link,        \* link[k]: see above
  up, down,    \* frames travelling to the relay and to the client
  serving,     \* serving[c]: requests whose handler runs at c
  served,      \* served[i]: how many times a handler was started for i
  cuts, crashes

socketVars == <<ws, readyState>>
callVars   == <<pending, promise>>
serverVars == <<clients, name, isAlive>>
netVars    == <<link, up, down>>
workVars   == <<serving, served>>
boundVars  == <<cuts, crashes>>
vars == <<socketVars, callVars, serverVars, netVars, workVars, boundVars>>

Ping == [kind |-> "ping"]
Pong == [kind |-> "pong"]
Req(i, to) == [kind |-> "req", id |-> i, to |-> to, from |-> NoName]
Resp(i, to, ok) ==
  [kind |-> "resp", response_to |-> i, to |-> to, from |-> NoName, ok |-> ok]

Message(From) ==
  [kind : {"req"}, id : Id, to : Name, from : From]
    \cup [kind : {"resp"}, response_to : Id, to : Name, from : From, ok : BOOLEAN]
Outgoing == Message({NoName}) \cup {Pong}   \* what a client sends
Incoming == Message(Name) \cup {Ping}       \* what a client is sent

LinkState == {"syn", "up", "cut", "lost", "fin", "bye"}

Answer == {"resolved", "refused"}
Outcome == Answer \cup {"unsent", "waiting", "timedout", "threw", "abandoned"}

TypeOK ==
  /\ ws \in [Client -> Conn \cup {NoConn}]
  /\ readyState \in [Client -> {"off", "connecting", "open", "closed"}]
  /\ pending \in [Client -> SUBSET Id]
  /\ promise \in [Id -> Outcome]
  /\ clients \subseteq Conn
  /\ name \in [Conn -> Name \cup {NoName}]
  /\ isAlive \in [Conn -> BOOLEAN]
  /\ link \in [Conn -> LinkState]
  /\ up \in [Conn -> Seq(Outgoing)]
  /\ down \in [Conn -> Seq(Incoming)]
  /\ serving \in [Client -> SUBSET [id : Id, from : Name]]
  /\ served \in [Id -> Nat]
  /\ cuts \in Nat
  /\ crashes \in Nat

Init ==
  /\ ws = [c \in Client |-> NoConn]
  /\ readyState = [c \in Client |-> "off"]
  /\ pending = [c \in Client |-> {}]
  /\ promise = [i \in Id |-> "unsent"]
  /\ clients = {}
  /\ name = [k \in Conn |-> NoName]
  /\ isAlive = [k \in Conn |-> FALSE]
  /\ link = [k \in Conn |-> "fin"]
  /\ up = [k \in Conn |-> <<>>]
  /\ down = [k \in Conn |-> <<>>]
  /\ serving = [c \in Client |-> {}]
  /\ served = [i \in Id |-> 0]
  /\ cuts = 0
  /\ crashes = 0

\* Connections neither end holds.
Free == {k \in Conn : k \notin clients /\ \A c \in Client : ws[c] # k}

Online(c) == readyState[c] = "open"

\* ws.send of an open socket.  Frames travel only while the link is up; one
\* put on a cut link is never acknowledged.
Send(c, frame) ==
  LET k == ws[c] IN
  /\ up' = IF link[k] = "up" THEN [up EXCEPT ![k] = Append(@, frame)] ELSE up
  /\ link' = IF link[k] = "cut" THEN [link EXCEPT ![k] = "lost"] ELSE link

-----------------------------------------------------------------------------
(* The client's socket *)

\* `connect` makes a new WebSocket: at the start, and a second after a close.
Dial(c) ==
  /\ ws[c] = NoConn
  /\ \E k \in Free :
       /\ ws' = [ws EXCEPT ![c] = k]
       /\ link' = [link EXCEPT ![k] = "syn"]
       /\ name' = [name EXCEPT ![k] = Role[c]]
       /\ up' = [up EXCEPT ![k] = <<>>]
       /\ down' = [down EXCEPT ![k] = <<>>]
  /\ readyState' = [readyState EXCEPT
                      ![c] = IF @ = "off" THEN "off" ELSE "connecting"]
  /\ UNCHANGED <<callVars, clients, isAlive, workVars, boundVars>>

\* The 101 answer: the "open" event.  The first one resolves `connect`.
Open(c) ==
  /\ ws[c] # NoConn
  /\ ~ Online(c)
  /\ link[ws[c]] = "up"
  /\ readyState' = [readyState EXCEPT ![c] = "open"]
  /\ UNCHANGED <<ws, callVars, serverVars, netVars, workVars, boundVars>>

\* The "close" event: a refused handshake, the relay's FIN, or TCP giving up
\* on a cut link.  The callback sets a timer that dials again.
CloseEvent(c) ==
  /\ ws[c] # NoConn
  /\ link[ws[c]] \in {"fin", "cut", "lost"}
  /\ ws' = [ws EXCEPT ![c] = NoConn]
  /\ readyState' = [readyState EXCEPT ![c] = IF @ = "off" THEN "off" ELSE "closed"]
  /\ down' = [down EXCEPT ![ws[c]] = <<>>]
  /\ UNCHANGED <<callVars, serverVars, link, up, workVars, boundVars>>

\* The process ends and starts over; its FIN arrives ("bye") or its host is
\* gone ("cut").  What it awaited and what it was serving is forgotten.
Crash(c) ==
  /\ crashes < MaxCrashes
  /\ readyState[c] # "off"
  /\ crashes' = crashes + 1
  /\ \E end \in {"bye", "cut"} :
       link' = [k \in Conn |-> IF k # ws[c] THEN link[k]
                               ELSE IF link[k] = "up" THEN end
                               ELSE IF link[k] = "syn" THEN "cut" ELSE link[k]]
  /\ ws' = [ws EXCEPT ![c] = NoConn]
  /\ readyState' = [readyState EXCEPT ![c] = "off"]
  /\ down' = [k \in Conn |-> IF k = ws[c] THEN <<>> ELSE down[k]]
  /\ pending' = [pending EXCEPT ![c] = {}]
  /\ promise' = [i \in Id |-> IF Call[i].by = c /\ promise[i] = "waiting"
                                THEN "abandoned" ELSE promise[i]]
  /\ serving' = [serving EXCEPT ![c] = {}]
  /\ UNCHANGED <<serverVars, up, served, cuts>>

\* request(): the timer starts and the id is pending before the send, which
\* throws while connecting, is dropped silently while closed, and else puts
\* the message on the link.  The process runs only after its first open.
Request(i) ==
  LET c == Call[i].by IN
  /\ readyState[c] # "off"
  /\ promise[i] = "unsent"
  /\ pending' = [pending EXCEPT ![c] = @ \cup {i}]
  /\ promise' = [promise EXCEPT ![i] =
       IF readyState[c] = "connecting" THEN "threw" ELSE "waiting"]
  /\ IF Online(c) THEN Send(c, Req(i, Call[i].to))
                  ELSE UNCHANGED <<up, link>>
  /\ UNCHANGED <<socketVars, serverVars, down, workVars, boundVars>>

\* Mutants of RequestTimeout: the promise is forgotten; the request is sent
\* again.
TimeoutForgets(i) ==
  /\ i \in pending[Call[i].by]
  /\ pending' = [pending EXCEPT ![Call[i].by] = @ \ {i}]
  /\ UNCHANGED <<promise, socketVars, serverVars, netVars, workVars, boundVars>>
TimeoutRetries(i) ==
  /\ i \in pending[Call[i].by]
  /\ Online(Call[i].by)
  /\ Send(Call[i].by, Req(i, Call[i].to))
  /\ UNCHANGED <<socketVars, callVars, serverVars, down, workVars, boundVars>>

\* The REQUEST_TIMEOUT timer; rejecting a settled promise does nothing.
RequestTimeout(i) ==
  LET c == Call[i].by IN
  /\ i \in pending[c]
  /\ pending' = [pending EXCEPT ![c] = @ \ {i}]
  /\ promise' = [promise EXCEPT ![i] = IF @ = "waiting" THEN "timedout" ELSE @]
  /\ UNCHANGED <<socketVars, serverVars, netVars, workVars, boundVars>>

\* The next frame for client c, once the socket is open.
Arrives(c, kind) ==
  /\ Online(c)
  /\ down[ws[c]] # <<>>
  /\ Head(down[ws[c]]).kind = kind

\* The websocket library answers a ping by itself.
AnswerPing(c) ==
  /\ Arrives(c, "ping")
  /\ down' = [down EXCEPT ![ws[c]] = Tail(@)]
  /\ Send(c, Pong)
  /\ UNCHANGED <<socketVars, callVars, serverVars, workVars, boundVars>>

\* A message with response_to settles the promise pending under that id; one
\* nobody waits for any more is only logged.
Response(c) ==
  /\ Arrives(c, "resp")
  /\ LET m == Head(down[ws[c]])
         i == m.response_to
         r == IF m.ok THEN "resolved" ELSE "refused"
     IN  /\ pending' = [pending EXCEPT ![c] = @ \ {i}]
         /\ promise' = [promise EXCEPT ![i] =
              IF i \in pending[c] /\ @ = "waiting" THEN r ELSE @]
  /\ down' = [down EXCEPT ![ws[c]] = Tail(@)]
  /\ UNCHANGED <<socketVars, serverVars, link, up, workVars, boundVars>>

\* Any other message is dispatched to the handler of its type, which runs
\* asynchronously from here on.
Dispatch(c) ==
  /\ Arrives(c, "req")
  /\ LET m == Head(down[ws[c]])
     IN  /\ serving' = [serving EXCEPT ![c] =
                          @ \cup {[id |-> m.id, from |-> m.from]}]
         /\ served' = [served EXCEPT ![m.id] = @ + 1]
  /\ down' = [down EXCEPT ![ws[c]] = Tail(@)]
  /\ UNCHANGED <<socketVars, callVars, serverVars, link, up, boundVars>>

\* handle(): the callback returned a response (ok), threw (internal_error),
\* or returned nothing, and then no answer is ever sent.  The answer goes out
\* on whatever socket the client has by now.
HandlerDone(c, h) ==
  /\ h \in serving[c]
  /\ serving' = [serving EXCEPT ![c] = @ \ {h}]
  /\ \/ /\ Online(c)
        /\ \E ok \in BOOLEAN : Send(c, Resp(h.id, h.from, ok))
     \/ UNCHANGED <<up, link>>
  /\ UNCHANGED <<socketVars, callVars, serverVars, down, served, boundVars>>

-----------------------------------------------------------------------------
(* The relay *)

\* Mutant of Taken: the name of a client that has not answered is free.
TakenByLiving(k) == \E j \in clients : name[j] = name[k] /\ isAlive[j]

\* A client of that name is connected, alive or not.
Taken(k) == \E j \in clients : name[j] = name[k]

\* handleUpgrade: the name check and the registration are one synchronous step.
Accept(k) ==
  /\ link[k] = "syn"
  /\ ~ Taken(k)
  /\ clients' = clients \cup {k}
  /\ isAlive' = [isAlive EXCEPT ![k] = TRUE]
  /\ link' = [link EXCEPT ![k] = "up"]
  /\ UNCHANGED <<socketVars, callVars, name, up, down, workVars, boundVars>>

\* handleUpgrade, name taken: 409 Conflict and the socket is destroyed.
Conflict(k) ==
  /\ link[k] = "syn"
  /\ Taken(k)
  /\ link' = [link EXCEPT ![k] = "fin"]
  /\ UNCHANGED <<socketVars, callVars, serverVars, up, down, workVars, boundVars>>

\* Mutant of Forward: to everybody.
Broadcast(m) ==
  [k \in Conn |-> IF k \in clients /\ link[k] = "up" THEN Append(down[k], m) ELSE down[k]]

\* A copy of message m for every connected client of that name.
Forward(m) ==
  [k \in Conn |-> IF k \in clients /\ name[k] = m.to /\ link[k] = "up"
                    THEN Append(down[k], m) ELSE down[k]]

\* #handleMessage: the relay, not the sender, fills in header.from.
HandleMessage(k) ==
  /\ k \in clients
  /\ up[k] # <<>>
  /\ Head(up[k]) # Pong
  /\ up' = [up EXCEPT ![k] = Tail(@)]
  /\ down' = Forward([Head(up[k]) EXCEPT !.from = name[k]])
  /\ UNCHANGED <<socketVars, callVars, serverVars, link, workVars, boundVars>>

HandlePong(k) ==
  /\ k \in clients
  /\ up[k] # <<>>
  /\ Head(up[k]) = Pong
  /\ up' = [up EXCEPT ![k] = Tail(@)]
  /\ isAlive' = [isAlive EXCEPT ![k] = TRUE]
  /\ UNCHANGED <<socketVars, callVars, clients, name, link, down, workVars, boundVars>>

\* Mutant of Dead: the heartbeat only pings.
NoneDead == {}

\* Connections that have not answered the last ping.
Dead == {k \in clients : ~ isAlive[k]}

\* Mutant of Terminated: only taken out of wss.clients.
NotTerminated(D) == link

\* terminate() of those in D: the client is told, if the link works.
Terminated(D) == [k \in Conn |-> IF k \in D /\ link[k] = "up" THEN "fin" ELSE link[k]]

\* #pingAll, every HEARTBEAT_INTERVAL: terminate the dead connections, ping the
\* others.
PingAll ==
  /\ clients # {}
  /\ clients' = clients \ Dead
  /\ isAlive' = [k \in Conn |-> IF k \in clients THEN FALSE ELSE isAlive[k]]
  /\ link' = Terminated(Dead)
  /\ up' = [k \in Conn |-> IF k \in Dead THEN <<>> ELSE up[k]]
  /\ down' = [k \in Conn |-> IF k \in clients \ Dead /\ link[k] = "up"
                               THEN Append(down[k], Ping) ELSE down[k]]
  /\ UNCHANGED <<socketVars, callVars, name, workVars, boundVars>>

\* The client's FIN, after everything it had sent: the ws library takes the
\* connection out of wss.clients.
HandleClose(k) ==
  /\ k \in clients
  /\ link[k] = "bye"
  /\ up[k] = <<>>
  /\ clients' = clients \ {k}
  /\ UNCHANGED <<socketVars, callVars, name, isAlive, netVars, workVars, boundVars>>

\* The network loses a connection: of what is in flight each end still gets
\* the first few frames.
Cut(k) ==
  /\ cuts < MaxCuts
  /\ link[k] \in {"syn", "up"}
  /\ cuts' = cuts + 1
  /\ link' = [link EXCEPT ![k] = "cut"]
  /\ \E n \in 0 .. Len(up[k]) : up' = [up EXCEPT ![k] = SubSeq(@, 1, n)]
  /\ \E n \in 0 .. Len(down[k]) : down' = [down EXCEPT ![k] = SubSeq(@, 1, n)]
  /\ UNCHANGED <<socketVars, callVars, serverVars, workVars, crashes>>

-----------------------------------------------------------------------------
ClientStep(c) ==
  \/ Dial(c) \/ Open(c) \/ CloseEvent(c) \/ Crash(c)
  \/ AnswerPing(c) \/ Response(c) \/ Dispatch(c)
  \/ \E h \in serving[c] : HandlerDone(c, h)

RelayStep ==
  \/ PingAll
  \/ \E k \in Conn : \/ Accept(k) \/ Conflict(k) \/ HandleMessage(k)
                     \/ HandlePong(k) \/ HandleClose(k)

CallStep == \E i \in Id : Request(i) \/ RequestTimeout(i)

Next ==
  \/ \E c \in Client : ClientStep(c)
  \/ RelayStep
  \/ CallStep
  \/ \E k \in Conn : Cut(k)

Spec == Init /\ [][Next]_vars

(***************************************************************************)
(* Fairness.  The relay's event loop and its interval run, timers fire,    *)
(* a process goes on dialling.  A close event comes for certain when the   *)
(* relay ended the connection, while a handshake is open, or once the      *)
(* client has sent on the dead link; on one that was cut in silence        *)
(* nothing in the code ever finds out, so there is no fairness there.      *)
(* Open is strongly fair: a handshake takes far less than the two          *)
(* heartbeats after which the relay gives up.                              *)
(***************************************************************************)
CloseIsDue(c) == CloseEvent(c) /\ (~ Online(c) \/ link[ws[c]] # "cut")

Fairness ==
  /\ WF_vars(PingAll)
  /\ \A k \in Conn : WF_vars(Accept(k) \/ Conflict(k)) /\ WF_vars(HandleClose(k))
  /\ \A k \in Conn : WF_vars(HandleMessage(k) \/ HandlePong(k))
  /\ \A c \in Client : WF_vars(Dial(c)) /\ SF_vars(Open(c)) /\ WF_vars(CloseIsDue(c))
  /\ \A i \in Id : WF_vars(RequestTimeout(i))

LiveSpec == Spec /\ Fairness

-----------------------------------------------------------------------------
(* Properties *)

\* How the two ends' views of the connections fit together.  A client owns its
\* connection alone and dialled it with its role; a link that works joins a
\* connection the relay has accepted.
SocketInv ==
  /\ \A c \in Client : Online(c) => ws[c] \in Conn
  /\ \A c, d \in Client : ws[c] = ws[d] /\ ws[c] # NoConn => c = d
  /\ \A c \in Client : ws[c] # NoConn => name[ws[c]] = Role[c]
  /\ \A k \in Conn : link[k] = "up" => k \in clients
  /\ \A k \in Conn : link[k] = "syn" => k \notin clients
  /\ \A k \in Conn : k \in clients \/ link[k] = "syn" => name[k] \in Name

\* handleUpgrade: two live connections never hold the same name, so a message
\* sent to a name has one recipient at most.
UniqueNames ==
  \A j, k \in clients : name[j] = name[k] => j = k

\* A client whose socket is open over a working link is registered at the
\* relay under its own role: nothing the relay does (heartbeat, conflicts)
\* forgets a connection without its client being told.
OpenMeansRegistered ==
  \A c \in Client :
    Online(c) /\ link[ws[c]] = "up" => ws[c] \in clients /\ name[ws[c]] = Role[c]

\* #pending holds the id of every promise still waiting, so an answer or the
\* timer is always there to settle it, across any number of reconnects; an id
\* is pending only at the process that made the request.
NoForgottenPromise ==
  /\ \A i \in Id : promise[i] = "waiting" => i \in pending[Call[i].by]
  /\ \A c \in Client : \A i \in pending[c] :
       Call[i].by = c /\ promise[i] \in {"waiting", "threw"}

\* The inductive invariant of the proofs.
IInv == TypeOK /\ SocketInv /\ UniqueNames /\ NoForgottenPromise

\* A handler runs at most once for a request, though the relay sends it to
\* every connection of the name and the caller may have given up on it; and it
\* is told the role that asked, since the relay stamps every message with the
\* name of the connection it came in on, so that its answer finds the way.
ServedRightly ==
  /\ \A i \in Id : served[i] <= 1
  /\ \A c \in Client : \A h \in serving[c] :
       h.from = Role[Call[h.id].by] /\ Role[c] = Call[h.id].to

\* What the proofs of ServedRightly and RefinesRpc need: where a request and
\* its answer can be.  A request on the wire is on the caller's connection or
\* on one of the callee's, an answer exists only once a handler ran, ...
Sent(k) ==
  {f \in Outgoing :
     /\ f.kind = "req" => f.to = Call[f.id].to /\ name[k] = Role[Call[f.id].by]
     /\ f.kind = "resp" => served[f.response_to] # 0}
Relayed(k) ==
  {f \in Incoming :
     /\ f.kind = "req" => f.from = Role[Call[f.id].by] /\ name[k] = Call[f.id].to
     /\ f.kind = "resp" => served[f.response_to] # 0}
FramesRight ==
  \A k \in Conn : up[k] \in Seq(Sent(k)) /\ down[k] \in Seq(Relayed(k))

\* ... and there is one copy of a request at most, gone once it is served.
Carries(s, i) == \E n \in DOMAIN s : s[n].kind = "req" /\ s[n].id = i
Once(s) ==
  \A m, n \in DOMAIN s :
    s[m].kind = "req" /\ s[n].kind = "req" /\ s[m].id = s[n].id => m = n
Invoked(i) == promise[i] \notin {"unsent", "threw"}
OneCopy ==
  /\ \A k \in Conn : Once(up[k]) /\ Once(down[k])
  /\ \A i \in Id : \A j, k \in Conn :
       /\ Carries(up[j], i) /\ Carries(up[k], i) => j = k
       /\ Carries(down[j], i) /\ Carries(down[k], i) => j = k
       /\ ~ (Carries(up[j], i) /\ Carries(down[k], i))
  /\ \A i \in Id : \A k \in Conn :
       Carries(up[k], i) \/ Carries(down[k], i) => served[i] = 0 /\ Invoked(i)
WorkRight ==
  /\ \A i \in Id : served[i] # 0 => served[i] = 1 /\ Invoked(i)
  /\ \A c \in Client : \A h \in serving[c] :
       served[h.id] # 0 /\ h.from = Role[Call[h.id].by] /\ Role[c] = Call[h.id].to
RpcInv == FramesRight /\ OneCopy /\ WorkRight

\* Seen from the code that awaits request(), the relay, its heartbeat, crashes
\* and lost links together implement the calls of Rpc.tla.
Abstract == INSTANCE Rpc
RefinesRpc == Abstract!Spec

\* Every request is settled: by an answer, an exception or its timer.
EverySettles == \A i \in Id : promise[i] = "waiting" ~> promise[i] # "waiting"

\* A client that has lost its connection gets one again, even while the relay
\* still answers 409 because of its own dead predecessor.
Reconnects == \A c \in Client : ~ Online(c) ~> Online(c)

\* "If it disconnects later, it will auto-reconnect" (the comment on connect):
\* a client whose connection the relay no longer has gets a new one.
AutoReconnects ==
  \A c \in Client : (Online(c) /\ ws[c] \notin clients)
                    ~> (Online(c) /\ ws[c] \in clients)
=============================================================================
