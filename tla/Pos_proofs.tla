----------------------------- MODULE Pos_proofs -----------------------------
(***************************************************************************)
(* Theorems about Pos for any number of users, items, cards and operations *)
(* of the page, in any order.                                              *)
(*                                                                         *)
(* The argument.  A session is a user object; the modes and the tasks of   *)
(* the session carry it, and an object is written with a user only by the  *)
(* task that makes it, which is over from then on.  So every mode and task *)
(* keeps meaning the user it meant (Views), a request names him            *)
(* (Requests), and an array holds purchases of one user only (Arrays).     *)
(* At the end, the refinement of Till: an order is what a task has asked   *)
(* for, and each step of page or service is one of Till, or a stutter.     *)
(***************************************************************************)
EXTENDS Pos, TLAPS

Awaits(t) == task[t].at \in Call
Money == {"purchase", "deposit"}

\* A mode or a task means a user object that is made, and in a session a user.
Means(cls, o) ==
  /\ o # 0 => task[o].at = "over"
  /\ cls \in SignedInClass => o # 0 /\ userObj[o].id \in User

Views ==
  /\ Means(mode.cls, mode.user)
  /\ \A t \in Task : Awaits(t) => Means(task[t].cls, task[t].user)

\* Which class of mode starts which operation.
Kinds ==
  \A t \in Task : Awaits(t) =>
    /\ task[t].at \in {"purchase", "deposit", "card", "password", "history"} => task[t].cls \in SignedInClass
    /\ task[t].how = "menu" => task[t].cls = "ManualPurchase" /\ task[t].at \in {"info", "purchase"}
    /\ task[t].at = "info" /\ task[t].cls \in SignedInClass => task[t].cls \in Shopping
    /\ task[t].at = "login" => task[t].cls = "ManualLogin"
    /\ task[t].at = "purchase" => task[t].cls \in Shopping

\* The request of a task, and what the service answers to it.
Requests ==
  \A t \in Task :
    /\ Awaits(t) => req[t].call = task[t].at /\ req[t].at # "none"
    /\ Awaits(t) /\ task[t].cls \in SignedInClass => req[t].asked = userObj[task[t].user].id
    /\ task[t].at = "free" => req[t].at = "none"
    /\ req[t].at # "none" /\ req[t].call \in Money => req[t].user = req[t].asked /\ req[t].user \in User
    /\ req[t].at = "read" => req[t].call \in Money
    /\ req[t].at = "answered" => Awaits(t)
    /\ req[t].at = "answered" /\ req[t].call \in Money => req[t].reply = "ok"
    /\ req[t].at = "answered" /\ req[t].reply = "user" => req[t].id \in User
    /\ req[t].at = "answered" /\ req[t].call = "purchase" =>
         tx[t].user = req[t].user /\ tx[t].cents = -Price

\* The purchases on array a were charged to the user of object o, and will not
\* be served again.
Holds(a, o) ==
  \A x \in array[a] :
    /\ tx[x].user = userObj[o].id /\ tx[x].cents = -Price

Arrays ==
  /\ array[0] = {}
  /\ \A a \in Array : \A x \in array[a] : task[x].at = "over" /\ req[x].at = "none"
  /\ \A t \in Task : task[t].at # "over" => array[t] = {}
  /\ mode.cls \in {"Purchases", "ManualPurchase"} <=> mode.array # 0
  /\ mode.array \in Task => task[mode.array].at = "over"
  /\ mode.array # 0 => Holds(mode.array, mode.user)
  /\ \A t \in Task : Awaits(t) =>
       /\ task[t].cls \in {"Purchases", "ManualPurchase"} => task[t].array # 0
       /\ task[t].cls = "LoggedIn" /\ task[t].at = "purchase" => task[t].array = t
       /\ task[t].array \in Task /\ task[t].array # t => task[task[t].array].at = "over"
       /\ task[t].array # 0 =>
            /\ task[t].cls \in Shopping
            /\ Holds(task[t].array, task[t].user)
            /\ mode.array = task[t].array => mode.user = task[t].user
            /\ \A s \in Task : Awaits(s) /\ task[s].array = task[t].array => task[s].user = task[t].user

\* While calls come one after the other and are answered, the only one in
\* flight belongs to the session on the screen, and the user object of the
\* session is exact until the money of the call has moved.
Exact ==
  ~overlap =>
    /\ \A s, t \in InFlight : s = t
    /\ \A t \in InFlight : Awaits(t)
    /\ \A t \in InFlight : SignedIn => task[t].cls \in SignedInClass /\ mode.user = task[t].user
    /\ SignedIn /\ (\A t \in InFlight : ~ (req[t].at = "answered" /\ req[t].call \in Money))
         => userObj[mode.user].balance = balance[userObj[mode.user].id]
    /\ \A t \in InFlight :
         /\ task[t].cls \in SignedInClass =>
              IF req[t].at = "answered" /\ req[t].call \in Money
                THEN req[t].balance = balance[userObj[task[t].user].id]
                ELSE userObj[task[t].user].balance = balance[userObj[task[t].user].id]
         /\ req[t].at = "read" => req[t].balance = balance[req[t].user]
         /\ req[t].at = "answered" /\ req[t].reply = "user" => req[t].balance = balance[req[t].id]

IInv == TypeOK /\ Views /\ Kinds /\ Requests /\ Arrays /\ Exact /\ ChargedWhoAsked

-----------------------------------------------------------------------------
(* Types *)

LEMMA Constants ==
  /\ MaxTask \in Nat /\ SpareArrays \in Nat
  /\ SessionTicks \in Nat /\ SessionTicks >= 1
  /\ Price \in Int /\ Bill \in Int /\ -Price \in Int
  /\ Nobody \notin User
BY PosAssumption

LEMMA Sets ==
  /\ Task \subseteq UserObj /\ Task \subseteq Array /\ 0 \in UserObj /\ 0 \in Array /\ 0 \notin Task
  /\ \A o \in UserObj : o # 0 => o \in Task
  /\ 0 \in 0 .. SessionTicks /\ SessionTicks \in 0 .. SessionTicks
BY Constants DEF Task, UserObj, Array

LEMMA NewModeType ==
  ASSUME NEW cls \in Class, NEW o \in UserObj, NEW a \in Array
  PROVE  /\ NewMode(cls, o, a) \in ModeType
         /\ NewMode(cls, o, a).cls = cls
         /\ NewMode(cls, o, a).user = o
         /\ NewMode(cls, o, a).array = a
<1> DEFINE left == IF cls \in Session THEN SessionTicks ELSE 0
<1>1. left \in 0 .. SessionTicks
  BY Sets
<1> HIDE DEF left
<1>2. NewMode(cls, o, a) = [cls |-> cls, user |-> o, array |-> a, error |-> FALSE, left |-> left]
  BY DEF NewMode, left
<1>3. QED  BY <1>1, <1>2 DEF ModeType

LEMMA EndedType ==
  Ended \in TaskType /\ Ended.at = "over"
<1>1. FreeTask \in TaskType
  BY Sets DEF FreeTask, TaskType, Class, Barcode
<1>2. QED  BY <1>1 DEF Ended, TaskType

LEMMA NoReqType ==
  /\ NoReq \in ReqType
  /\ NoReq.at = "none" /\ NoReq.call = "none" /\ NoReq.reply = "none"
BY DEF NoReq, ReqType, Barcode

LEMMA InitInvariant == Init => IInv
<1> SUFFICES ASSUME Init PROVE IInv
  OBVIOUS
<1>1. mode \in ModeType /\ mode.cls = "Default" /\ mode.user = 0 /\ mode.array = 0
  BY NewModeType, Sets DEF Init, Class
<1>2. /\ task \in [Task -> TaskType]
      /\ \A t \in Task : task[t].at = "free" /\ ~Awaits(t)
  BY Sets DEF Init, FreeTask, TaskType, Class, Barcode, Awaits, Call
<1>3. /\ req \in [Task -> ReqType]
      /\ \A t \in Task : req[t].at = "none"
  BY NoReqType DEF Init
<1>4. TypeOK
  <2>1. userObj \in [Task -> ObjType]
    BY DEF Init, ObjType
  <2>2. tx \in [Task -> Transaction]
    BY DEF Init, Transaction
  <2>3. /\ array \in [Array -> SUBSET Task] /\ balance \in [User -> Int]
        /\ cards \in [Card -> User \cup {Nobody}] /\ idle \in 0 .. SessionTicks
    BY Sets DEF Init
  <2>4. overlap \in BOOLEAN
    BY DEF Init
  <2>5. QED  BY <1>1, <1>2, <1>3, <2>1, <2>2, <2>3, <2>4 DEF TypeOK
<1>5. mode.cls \notin SignedInClass /\ mode.cls \notin {"Purchases", "ManualPurchase"}
  BY <1>1 DEF SignedInClass, Shopping, Account
<1>6. Views /\ Kinds
  BY <1>1, <1>2, <1>5 DEF Views, Means, Kinds
<1>7. Requests
  BY <1>2, <1>3 DEF Requests
<1>8. Arrays
  BY <1>1, <1>2, <1>5, Sets DEF Init, Arrays
<1>9. Exact
  BY <1>2, <1>3, <1>5 DEF Exact, InFlight, Awaits, SignedIn
<1>10. ChargedWhoAsked
  BY DEF Init, ChargedWhoAsked
<1>11. QED  BY <1>4, <1>6, <1>7, <1>8, <1>9, <1>10 DEF IInv

-----------------------------------------------------------------------------
(* Tasks that end, and tasks that are left alone *)

\* The tasks of E end; of the others only what `this` and its timeout are by
\* now changes.
Ends(E) ==
  /\ E \subseteq Task /\ \A t \in E : Awaits(t)
  /\ task' \in [Task -> TaskType]
  /\ \A t \in E : task'[t].at = "over"
  /\ \A t \in Task \ E :
       /\ task'[t].at = task[t].at /\ task'[t].how = task[t].how /\ task'[t].cls = task[t].cls
       /\ task'[t].user = task[t].user /\ task'[t].array = task[t].array
  /\ req' = [t \in Task |-> IF t \in E THEN Unawaited(req[t]) ELSE req[t]]

\* A user object that is made keeps its user.
SameUsers == \A o \in Task : task[o].at = "over" => userObj'[o].id = userObj[o].id

\* The purchases of an ended task are as they were.
LEMMA EndsFacts ==
  ASSUME TypeOK, NEW E, Ends(E)
  PROVE  /\ req' \in [Task -> ReqType]
         /\ \A t \in Task : Awaits(t)' <=> Awaits(t) /\ t \notin E
         /\ \A t \in Task : task[t].at = "over" => task'[t].at = "over"
         /\ \A t \in Task \ E : req'[t] = req[t]
         /\ \A t \in E : \/ req'[t] = req[t] /\ req[t].call \in Writes /\ req[t].at # "answered"
                         \/ req'[t] = NoReq
<1>1. \A t \in Task \ E : req'[t] = req[t]
  BY DEF Ends
<1>2. \A t \in E : \/ req'[t] = req[t] /\ req[t].call \in Writes /\ req[t].at # "answered"
                   \/ req'[t] = NoReq
  BY DEF Ends, Unawaited
<1>3. req' \in [Task -> ReqType]
  <2>1. \A t \in Task : req'[t] \in ReqType
    BY <1>1, <1>2, NoReqType DEF TypeOK
  <2>2. QED  BY <2>1 DEF Ends
<1>4. \A t \in Task : Awaits(t)' <=> Awaits(t) /\ t \notin E
  BY DEF Ends, Awaits, Call
<1>5. \A t \in Task : task[t].at = "over" => task'[t].at = "over"
  BY DEF Ends, Awaits, Call
<1>6. QED  BY <1>1, <1>2, <1>3, <1>4, <1>5

LEMMA EndsViews ==
  ASSUME TypeOK, Views, NEW E, Ends(E), SameUsers, Means(mode.cls, mode.user)'
  PROVE  Views'
<1>1. ASSUME NEW t \in Task, Awaits(t)'
      PROVE  Means(task[t].cls, task[t].user)'
  <2>1. Awaits(t) /\ t \notin E
    BY <1>1, EndsFacts
  <2>2. Means(task[t].cls, task[t].user)
    BY <2>1 DEF Views
  <2>3. task'[t].cls = task[t].cls /\ task'[t].user = task[t].user
    BY <2>1 DEF Ends
  <2>4. task[t].user # 0 => task[t].user \in Task
    BY Sets DEF TypeOK, TaskType
  <2>5. QED  BY <2>2, <2>3, <2>4, EndsFacts DEF Means, SameUsers
<1>2. QED  BY <1>1 DEF Views

LEMMA EndsKinds ==
  ASSUME TypeOK, Kinds, NEW E, Ends(E)
  PROVE  Kinds'
<1>1. SUFFICES ASSUME NEW t \in Task, Awaits(t)'
               PROVE  /\ task'[t].at \in {"purchase", "deposit", "card", "password", "history"} => task'[t].cls \in SignedInClass
                      /\ task'[t].how = "menu" => task'[t].cls = "ManualPurchase" /\ task'[t].at \in {"info", "purchase"}
                      /\ task'[t].at = "info" /\ task'[t].cls \in SignedInClass => task'[t].cls \in Shopping
                      /\ task'[t].at = "login" => task'[t].cls = "ManualLogin"
                      /\ task'[t].at = "purchase" => task'[t].cls \in Shopping
  BY DEF Kinds
<1>2. Awaits(t) /\ t \notin E
  BY <1>1, EndsFacts
<1>3. task'[t].at = task[t].at /\ task'[t].how = task[t].how /\ task'[t].cls = task[t].cls
  BY <1>2 DEF Ends
<1>4. QED  BY <1>2, <1>3 DEF Kinds

LEMMA EndsRequests ==
  ASSUME TypeOK, Views, Requests, NEW E, Ends(E), SameUsers, UNCHANGED tx
  PROVE  Requests'
<1> SUFFICES ASSUME NEW t \in Task
             PROVE  /\ Awaits(t)' => req'[t].call = task'[t].at /\ req'[t].at # "none"
                    /\ Awaits(t)' /\ task'[t].cls \in SignedInClass => req'[t].asked = userObj'[task'[t].user].id
                    /\ task'[t].at = "free" => req'[t].at = "none"
                    /\ req'[t].at # "none" /\ req'[t].call \in Money => req'[t].user = req'[t].asked /\ req'[t].user \in User
                    /\ req'[t].at = "read" => req'[t].call \in Money
                    /\ req'[t].at = "answered" => Awaits(t)'
                    /\ req'[t].at = "answered" /\ req'[t].call \in Money => req'[t].reply = "ok"
                    /\ req'[t].at = "answered" /\ req'[t].reply = "user" => req'[t].id \in User
                    /\ req'[t].at = "answered" /\ req'[t].call = "purchase" =>
                         tx'[t].user = req'[t].user /\ tx'[t].cents = -Price
  BY DEF Requests
<1>1. CASE t \in E
  <2>1. ~Awaits(t)' /\ task'[t].at = "over"
    BY <1>1, EndsFacts DEF Ends
  <2>2. CASE req'[t] = NoReq
    BY <2>1, <2>2, NoReqType
  <2>3. CASE req'[t] = req[t] /\ req[t].at # "answered"
    BY <2>1, <2>3 DEF Requests
  <2>4. QED  BY <1>1, <2>2, <2>3, EndsFacts
<1>2. CASE t \notin E
  <2>1. /\ req'[t] = req[t] /\ task'[t].at = task[t].at /\ task'[t].cls = task[t].cls
        /\ task'[t].user = task[t].user /\ (Awaits(t)' <=> Awaits(t))
    BY <1>2, EndsFacts DEF Ends
  <2>2. Awaits(t) /\ task[t].cls \in SignedInClass => userObj'[task[t].user].id = userObj[task[t].user].id
    BY Sets DEF Views, Means, SameUsers, TypeOK, TaskType
  <2>3. QED  BY <2>1, <2>2 DEF Requests
<1>3. QED  BY <1>1, <1>2

\* Who holds an array: the current mode, or a task.
Held(a, o) ==
  \/ mode.array = a /\ mode.user = o
  \/ \E t \in Task : Awaits(t) /\ task[t].array = a /\ task[t].user = o

\* What a step does to the arrays: a spare one is emptied, or an ended task puts
\* its purchase on the one it holds.
ArrayChange(E) ==
  /\ array' \in [Array -> SUBSET Task]
  /\ \A a \in Array :
       \/ array'[a] = array[a]
       \/ a \in SpareArray /\ array'[a] = {}
       \/ \E t \in E : /\ a = task[t].array /\ a # 0 /\ array'[a] = array[a] \cup {t}
                      /\ tx[t].user = userObj[task[t].user].id /\ tx[t].cents = -Price
                      /\ req'[t].at = "none"

\* The next mode has the array of the one before it or of a task that ended.
ModeArray(E) ==
  /\ mode'.cls \in {"Purchases", "ManualPurchase"} <=> mode'.array # 0
  /\ mode'.array # 0 =>
       \/ mode'.array = mode.array /\ mode'.user = mode.user
       \/ \E t \in E : mode'.array = task[t].array /\ mode'.user = task[t].user
       \/ mode'.array \in SpareArray /\ array'[mode'.array] = {}

LEMMA HeldFacts ==
  ASSUME TypeOK, Views, Arrays, NEW a \in Array, a # 0, NEW o, Held(a, o)
  PROVE  /\ o \in Task /\ task[o].at = "over"
         /\ Holds(a, o)
         /\ a \notin SpareArray
         /\ \A p : Held(a, p) => p = o
<1> DEFINE HeldByMode == mode.array = a /\ mode.user = o
<1>1. mode.array = a => mode.cls \in SignedInClass
  BY DEF Arrays, SignedInClass, Shopping
<1>2. \A t \in Task : Awaits(t) /\ task[t].array = a => task[t].cls \in SignedInClass
  BY DEF Arrays, SignedInClass
<1>3. o \in UserObj /\ o # 0 /\ task[o].at = "over"
  BY <1>1, <1>2, Sets DEF Held, Views, Means, TypeOK, ModeType, TaskType
<1>4. Holds(a, o)
  BY DEF Held, Arrays
<1>5. a \notin SpareArray
  BY DEF Held, SpareArray, Awaits
<1>6. ASSUME NEW p, Held(a, p)
      PROVE  p = o
  BY <1>6 DEF Held, Arrays
<1>7. QED  BY <1>3, <1>4, <1>5, <1>6, Sets

LEMMA HeldStays ==
  ASSUME TypeOK, Views, Arrays, NEW E, Ends(E), SameUsers, ArrayChange(E), UNCHANGED tx,
         NEW a \in Array, a # 0, NEW o, Held(a, o)
  PROVE  Holds(a, o)'
<1>1. /\ o \in Task /\ task[o].at = "over"
      /\ Holds(a, o)
      /\ a \notin SpareArray
  BY HeldFacts
<1>2. userObj'[o].id = userObj[o].id
  BY <1>1 DEF SameUsers
<1>3. CASE array'[a] = array[a]
  BY <1>1, <1>2, <1>3 DEF Holds
<1>4. ASSUME NEW t \in E, a = task[t].array, array'[a] = array[a] \cup {t},
             tx[t].user = userObj[task[t].user].id, tx[t].cents = -Price
      PROVE  Holds(a, o)'
  <2>1. Held(a, task[t].user)
    BY <1>4 DEF Held, Ends
  <2>2. task[t].user = o
    BY <2>1, HeldFacts
  <2>3. QED  BY <1>1, <1>2, <1>4, <2>2 DEF Holds
<1>5. QED  BY <1>1, <1>3, <1>4 DEF ArrayChange

LEMMA EndsArrays ==
  ASSUME TypeOK, Views, Arrays, NEW E, Ends(E), SameUsers, ArrayChange(E), ModeArray(E),
         UNCHANGED tx, mode' \in ModeType
  PROVE  Arrays'
<1>1. array'[0] = {}
  BY Sets DEF ArrayChange, SpareArray, Arrays
<1>2. ASSUME NEW a \in Array, NEW x \in array'[a]
      PROVE  task'[x].at = "over" /\ req'[x].at = "none"
  <2>1. CASE x \in array[a]
    <3>1. x \in Task /\ task[x].at = "over" /\ req[x].at = "none"
      BY <2>1 DEF Arrays, TypeOK
    <3>2. x \notin E
      BY <3>1 DEF Ends, Awaits, Call
    <3>3. QED  BY <3>1, <3>2, EndsFacts
  <2>2. CASE x \in E /\ req'[x].at = "none"
    BY <2>2 DEF Ends
  <2>3. QED  BY <1>2, <2>1, <2>2 DEF ArrayChange
<1>3. \A t \in E : task[t].array \in Task /\ task[t].array # t => task[task[t].array].at = "over"
  BY DEF Ends, Arrays
<1>4. ASSUME NEW t \in Task, task'[t].at # "over"
      PROVE  array'[t] = {}
  <2>1. t \notin E /\ task[t].at # "over"
    BY <1>4, EndsFacts DEF Ends
  <2>2. array[t] = {} /\ t \in Array
    BY <2>1, Sets DEF Arrays
  <2>3. \A s \in E : task[s].array # t
    BY <1>3, <2>1
  <2>4. t \notin SpareArray
    BY DEF SpareArray
  <2>5. QED  BY <2>2, <2>3, <2>4 DEF ArrayChange
<1>5. mode'.array \in Array /\ (mode'.array \in Task => mode'.array # 0 /\ mode'.array \notin SpareArray)
  BY Sets DEF ModeType, SpareArray
<1>6. mode'.array \in Task => task'[mode'.array].at = "over"
  <2>1. mode.array \in Task => task[mode.array].at = "over"
    BY DEF Arrays
  <2>2. ASSUME NEW t \in E, task[t].array \in Task
        PROVE  task'[task[t].array].at = "over"
    <3>1. CASE task[t].array = t
      BY <3>1 DEF Ends
    <3>2. CASE task[t].array # t
      BY <1>3, <2>2, <3>2, EndsFacts
    <3>3. QED  BY <3>1, <3>2
  <2>3. QED  BY <1>5, <2>1, <2>2, EndsFacts DEF ModeArray
<1>7. mode'.array # 0 => Held(mode'.array, mode'.user) \/ (mode'.array \in SpareArray /\ array'[mode'.array] = {})
  BY DEF ModeArray, Held, Ends
<1>8. mode'.array # 0 => Holds(mode.array, mode.user)'
  <2>1. CASE mode'.array # 0 /\ Held(mode'.array, mode'.user)
    BY <1>5, <2>1, HeldStays DEF Holds
  <2>2. CASE mode'.array # 0 /\ array'[mode'.array] = {}
    BY <2>2 DEF Holds
  <2>3. QED  BY <1>7, <2>1, <2>2
<1>9. ASSUME NEW t \in Task, Awaits(t)'
      PROVE  /\ task'[t].cls \in {"Purchases", "ManualPurchase"} => task'[t].array # 0
             /\ task'[t].cls = "LoggedIn" /\ task'[t].at = "purchase" => task'[t].array = t
             /\ task'[t].array \in Task /\ task'[t].array # t => task'[task'[t].array].at = "over"
             /\ task'[t].array # 0 =>
                  /\ task'[t].cls \in Shopping
                  /\ Holds(task[t].array, task[t].user)'
                  /\ mode'.array = task'[t].array => mode'.user = task'[t].user
                  /\ \A s \in Task : Awaits(s)' /\ task'[s].array = task'[t].array => task'[s].user = task'[t].user
  <2>1. Awaits(t) /\ t \notin E
    BY <1>9, EndsFacts
  <2>2. \A s \in Task : Awaits(s)' => /\ Awaits(s) /\ task'[s].cls = task[s].cls /\ task'[s].at = task[s].at
                                     /\ task'[s].user = task[s].user /\ task'[s].array = task[s].array
    BY EndsFacts DEF Ends
  <2>3. task[t].array \in Array
    BY DEF TypeOK, TaskType
  <2>4. ASSUME task[t].array # 0
        PROVE  /\ Held(task[t].array, task[t].user)
               /\ \A p : Held(task[t].array, p) => p = task[t].user
               /\ task[t].array \notin SpareArray
    <3>1. Held(task[t].array, task[t].user)
      BY <2>1 DEF Held
    <3>2. QED  BY <2>3, <2>4, <3>1, HeldFacts
  <2>5. ASSUME task[t].array # 0
        PROVE  Holds(task[t].array, task[t].user)'
    <3>1. \A a, o : Held(a, o) /\ a \in Array /\ a # 0 =>
             \A x \in array'[a] : tx'[x].user = userObj'[o].id /\ tx'[x].cents = -Price
      BY HeldStays DEF Holds
    <3>2. QED  BY <1>9, <2>2, <2>3, <2>4, <2>5, <3>1 DEF Holds
  <2>6. task[t].array # 0 /\ mode'.array = task[t].array => mode'.user = task[t].user
    BY <1>7, <2>4
  <2>7. task[t].array \in Task /\ task[t].array # t => task'[task[t].array].at = "over"
    BY <2>1, EndsFacts DEF Arrays
  <2>8. task[t].array # 0 => /\ task[t].cls \in Shopping
                             /\ \A s \in Task : Awaits(s) /\ task[s].array = task[t].array => task[s].user = task[t].user
    BY <2>1 DEF Arrays
  <2>9. /\ task[t].cls \in {"Purchases", "ManualPurchase"} => task[t].array # 0
        /\ task[t].cls = "LoggedIn" /\ task[t].at = "purchase" => task[t].array = t
    BY <2>1 DEF Arrays
  <2>10. QED  BY <1>9, <2>2, <2>5, <2>6, <2>7, <2>8, <2>9
<1>10. mode'.cls \in {"Purchases", "ManualPurchase"} <=> mode'.array # 0
  BY DEF ModeArray
<1>11. QED  BY <1>1, <1>2, <1>4, <1>6, <1>8, <1>9, <1>10 DEF Arrays

-----------------------------------------------------------------------------
(* Balances *)

LEMMA EndsExact ==
  ASSUME TypeOK, Views, Requests, Exact, NEW E, Ends(E), UNCHANGED balance,
         overlap => overlap',
         ~overlap' => \A t \in E : req[t].at = "answered",
         E = {} => userObj' = userObj /\ (SignedIn' => SignedIn /\ mode'.user = mode.user),
         E # {} /\ ~overlap' /\ SignedIn'
           => userObj'[mode'.user].balance = balance[userObj'[mode'.user].id]
  PROVE  Exact'
<1> SUFFICES ASSUME ~overlap' PROVE Exact'
  BY DEF Exact
<1>1. /\ \A s, t \in InFlight : s = t
      /\ \A t \in InFlight : Awaits(t)
      /\ \A t \in InFlight : SignedIn => task[t].cls \in SignedInClass /\ mode.user = task[t].user
      /\ SignedIn /\ (\A t \in InFlight : ~ (req[t].at = "answered" /\ req[t].call \in Money))
           => userObj[mode.user].balance = balance[userObj[mode.user].id]
      /\ \A t \in InFlight :
           /\ task[t].cls \in SignedInClass =>
                IF req[t].at = "answered" /\ req[t].call \in Money
                  THEN req[t].balance = balance[userObj[task[t].user].id]
                  ELSE userObj[task[t].user].balance = balance[userObj[task[t].user].id]
           /\ req[t].at = "read" => req[t].balance = balance[req[t].user]
           /\ req[t].at = "answered" /\ req[t].reply = "user" => req[t].balance = balance[req[t].id]
  BY DEF Exact
<1>2. InFlight' = InFlight \ E
  <2>1. \A t \in E : task'[t].at = "over" /\ req'[t] = NoReq
    BY EndsFacts DEF Ends
  <2>2. \A t \in Task \ E : task'[t].at = task[t].at /\ req'[t] = req[t]
    BY EndsFacts DEF Ends
  <2>3. "over" \notin Call
    BY DEF Call
  <2>4. QED  BY <2>1, <2>2, <2>3, NoReqType, ZenonT(60) DEF InFlight, Ends
<1>3. E \subseteq InFlight
  BY DEF Ends, InFlight, Awaits
<1>4. CASE E = {}
  <2>1. /\ InFlight' = InFlight /\ userObj' = userObj /\ balance' = balance
        /\ \A t \in InFlight : /\ req'[t] = req[t] /\ task'[t].cls = task[t].cls
                                /\ task'[t].user = task[t].user /\ (Awaits(t)' <=> Awaits(t))
    BY <1>2, <1>4, EndsFacts DEF Ends, InFlight
  <2>2. SignedIn' => SignedIn /\ mode'.user = mode.user
    BY <1>4
  <2>3. QED  BY <1>1, <2>1, <2>2 DEF Exact
<1>5. CASE E # {}
  <2>1. InFlight' = {}
    BY <1>1, <1>2, <1>3, <1>5
  <2>2. SignedIn' => userObj'[mode'.user].balance = balance'[userObj'[mode'.user].id]
    BY <1>5
  <2>3. QED  BY <2>1, <2>2 DEF Exact
<1>6. QED  BY <1>4, <1>5

\* Everything at once: what a step of the page that ends the tasks of E leaves
\* to be shown.
LEMMA EndsInvariant ==
  ASSUME IInv, NEW E, Ends(E), SameUsers, ArrayChange(E), ModeArray(E),
         UNCHANGED <<tx, balance, cards>>,
         mode' \in ModeType, userObj' \in [Task -> ObjType],
         idle' \in 0 .. SessionTicks, overlap' \in BOOLEAN,
         Means(mode.cls, mode.user)', Exact'
  PROVE  IInv'
<1>1. TypeOK /\ Views /\ Kinds /\ Requests /\ Arrays /\ ChargedWhoAsked
  BY DEF IInv
<1>2. TypeOK'
  <2>1. task' \in [Task -> TaskType] /\ req' \in [Task -> ReqType]
    BY <1>1, EndsFacts DEF Ends
  <2>2. array' \in [Array -> SUBSET Task]
    BY DEF ArrayChange
  <2>3. QED  BY <1>1, <2>1, <2>2 DEF TypeOK
<1>3. Views' /\ Kinds' /\ Requests' /\ Arrays'
  BY <1>1, EndsViews, EndsKinds, EndsRequests, EndsArrays
<1>4. ChargedWhoAsked'
  BY <1>1 DEF ChargedWhoAsked
<1>5. QED  BY <1>2, <1>3, <1>4 DEF IInv

-----------------------------------------------------------------------------
(* Steps of the current mode *)

\* The fields of the mode that the invariant is about.
SameMode(m) == m \in ModeType /\ m.cls = mode.cls /\ m.user = mode.user /\ m.array = mode.array

LEMMA SameModes ==
  ASSUME TypeOK
  PROVE  /\ SameMode(mode) /\ SameMode(Bumped(mode)) /\ SameMode(Failed(mode))
         /\ \A e \in BOOLEAN : SameMode([mode EXCEPT !.error = e])
         /\ \A n \in 0 .. SessionTicks : SameMode([mode EXCEPT !.left = n, !.error = FALSE])
<1>1. mode \in ModeType
  BY DEF TypeOK
<1>2. \A e \in BOOLEAN : SameMode([mode EXCEPT !.error = e])
  BY <1>1 DEF SameMode, ModeType
<1>3. \A n \in 0 .. SessionTicks : SameMode([mode EXCEPT !.left = n])
                                   /\ SameMode([mode EXCEPT !.left = n, !.error = FALSE])
  BY <1>1 DEF SameMode, ModeType
<1>4. SameMode(mode)
  BY <1>1 DEF SameMode
<1>5. QED  BY <1>2, <1>3, <1>4, Sets DEF Bumped, Failed

\* No task ends, no user object changes; the next mode belongs to the same
\* session or to none.
LEMMA ModeStep ==
  ASSUME IInv, Ends({}), ArrayChange({}), ModeArray({}),
         mode' \in ModeType, Means(mode.cls, mode.user)',
         SignedIn' => SignedIn /\ mode'.user = mode.user,
         idle' \in 0 .. SessionTicks,
         UNCHANGED <<userObj, dbVars, overlap>>
  PROVE  IInv'
<1>1. TypeOK /\ Views /\ Requests /\ Exact
  BY DEF IInv
<1>2. SameUsers /\ userObj' \in [Task -> ObjType] /\ overlap' \in BOOLEAN
  BY <1>1 DEF SameUsers, TypeOK
<1>3. Exact'
  <2> DEFINE E == {}
  <2>1. Ends(E) /\ E = {} /\ balance' = balance /\ userObj' = userObj /\ overlap' = overlap
    BY DEF dbVars
  <2> HIDE DEF E
  <2>2. QED  BY <1>1, <2>1, EndsExact
<1>4. QED  BY <1>2, <1>3, EndsInvariant DEF dbVars

LEMMA OnlyStep ==
  ASSUME IInv, NEW m, SameMode(m), Only(m), idle' \in 0 .. SessionTicks
  PROVE  IInv'
<1>1. TypeOK /\ Views /\ Arrays
  BY DEF IInv
<1>2. Ends({})
  BY <1>1 DEF Ends, Only, TypeOK
<1>3. mode' = m /\ array' = array /\ task' = task /\ userObj' = userObj
  BY DEF Only
<1>4. ArrayChange({})
  BY <1>1, <1>3 DEF ArrayChange, TypeOK
<1>5. ModeArray({})
  BY <1>1, <1>3 DEF ModeArray, Arrays, SameMode
<1>6. Means(mode.cls, mode.user)'
  BY <1>1, <1>3 DEF Views, Means, SameMode
<1>7. SignedIn' => SignedIn /\ mode'.user = mode.user
  BY <1>3 DEF SignedIn, SameMode
<1>8. QED  BY <1>2, <1>3, <1>4, <1>5, <1>6, <1>7, ModeStep DEF Only, SameMode

\* The tasks as they are when a new mode is set, or grow older.
LEMMA Unended ==
  ASSUME TypeOK, NEW tasks, tasks \in [Task -> TaskType],
         \A t \in Task : /\ tasks[t].at = task[t].at /\ tasks[t].how = task[t].how
                         /\ tasks[t].cls = task[t].cls /\ tasks[t].user = task[t].user
                         /\ tasks[t].array = task[t].array,
         task' = tasks \/ task' = [t \in Task |-> [tasks[t] EXCEPT !.self = FALSE]],
         UNCHANGED req
  PROVE  Ends({})
<1>1. task' \in [Task -> TaskType]
  <2>1. \A t \in Task : [tasks[t] EXCEPT !.self = FALSE] \in TaskType
    <3>1. TAKE t \in Task
    <3>2. tasks[t] \in TaskType
      OBVIOUS
    <3>3. QED  BY <3>2 DEF TaskType
  <2>2. QED  BY <2>1
<1>2. \A t \in Task : /\ task'[t].at = task[t].at /\ task'[t].how = task[t].how
                      /\ task'[t].cls = task[t].cls /\ task'[t].user = task[t].user
                      /\ task'[t].array = task[t].array
  <2>1. \A t \in Task : tasks[t] \in TaskType
    OBVIOUS
  <2>2. QED  BY <2>1 DEF TaskType
<1>3. req' = [t \in Task |-> req[t]]
  BY DEF TypeOK
<1>4. QED  BY <1>1, <1>2, <1>3 DEF Ends

\* Buttons lead from the pages of a session to pages of it or out of it.
LEMMA ButtonsStay ==
  ASSUME NEW cls \in Class, NEW from \in Class, cls \in Buttons[from]
  PROVE  /\ cls \in SignedInClass => from \in SignedInClass
         /\ cls = "ManualPurchase" => from \in {"LoggedIn", "Purchases"}
         /\ cls = "Purchases" => from = "ManualPurchase"
<1>1. Class = {"Default", "ManualLogin", "Help", "PriceCheck", "MenuPrice", "LoggedIn", "Purchases",
               "ManualPurchase", "Account", "SetPassword", "AddCard", "CardAdded", "History"}
  BY DEF Class, Session, SignedInClass, Shopping, Account
<1>2. SignedInClass = {"LoggedIn", "Purchases", "ManualPurchase", "Account", "SetPassword", "AddCard",
                       "CardAdded", "History"}
  BY DEF SignedInClass, Shopping, Account
<1>3. QED  BY <1>1, <1>2 DEF Buttons

LEMMA PressEnds ==
  ASSUME TypeOK, NEW cls, Press(cls)
  PROVE  Ends({})
<1>1. task' = [t \in Task |-> [task[t] EXCEPT !.self = FALSE]] /\ req' = req
  BY DEF Press, SetMode
<1>2. QED  BY <1>1, Unended DEF TypeOK

LEMMA PressStep ==
  ASSUME IInv, NEW cls \in Class, Press(cls)
  PROVE  IInv'
<1>1. TypeOK /\ Views /\ Arrays /\ mode \in ModeType /\ mode.cls \in Class /\ mode.user \in UserObj
      /\ mode.array \in Array
  BY DEF IInv, TypeOK, ModeType
<1> DEFINE o == IF cls \in SignedInClass THEN mode.user ELSE 0
<1>2. PICK a \in Array :
        /\ mode' = NewMode(cls, o, a)
        /\ task' = [t \in Task |-> [task[t] EXCEPT !.self = FALSE]]
        /\ \/ cls = "ManualPurchase" /\ mode.cls = "LoggedIn" /\ a \in SpareArray
              /\ array' = [array EXCEPT ![a] = {}]
           \/ /\ cls # "ManualPurchase" \/ mode.cls # "LoggedIn"
              /\ a = IF cls \in {"ManualPurchase", "Purchases"} THEN mode.array ELSE 0
              /\ array' = array
  <2>1. SpareArray \subseteq Array
    BY DEF SpareArray
  <2>2. QED  BY <1>1, <2>1, Sets DEF Press, SetMode
<1>3. o \in UserObj
  BY <1>1, Sets
<1> HIDE DEF o
<1>4. mode' \in ModeType /\ mode'.cls = cls /\ mode'.user = o /\ mode'.array = a
  BY <1>2, <1>3, NewModeType
<1>5. /\ cls \in SignedInClass => mode.cls \in SignedInClass
      /\ cls = "ManualPurchase" => mode.cls \in {"LoggedIn", "Purchases"}
      /\ cls = "Purchases" => mode.cls = "ManualPurchase"
  BY <1>1, ButtonsStay DEF Press
<1>6. Ends({})
  BY <1>1, PressEnds
<1>7. ArrayChange({})
  BY <1>1, <1>2 DEF ArrayChange, TypeOK
<1>8. \A c \in {"Purchases", "ManualPurchase"} : c \in SignedInClass
  BY DEF SignedInClass, Shopping
<1>9. ModeArray({})
  <2>1. CASE a \in SpareArray /\ cls = "ManualPurchase" /\ array' = [array EXCEPT ![a] = {}]
    BY <1>1, <1>4, <2>1 DEF ModeArray, SpareArray, TypeOK
  <2>2. CASE /\ cls # "ManualPurchase" \/ mode.cls # "LoggedIn"
             /\ a = IF cls \in {"ManualPurchase", "Purchases"} THEN mode.array ELSE 0
    BY <1>1, <1>4, <1>5, <1>8, <2>2 DEF ModeArray, Arrays, o
  <2>3. QED  BY <1>2, <2>1, <2>2
<1>10. Means(mode.cls, mode.user)' /\ (SignedIn' => SignedIn /\ mode'.user = mode.user)
  <2>1. \A t \in Task : task[t].at = "over" => task'[t].at = "over"
    BY <1>6 DEF Ends
  <2>2. userObj' = userObj
    BY DEF Press
  <2>3. mode.user # 0 => mode.user \in Task
    BY <1>1, Sets
  <2>4. QED  BY <1>1, <1>4, <1>5, <2>1, <2>2, <2>3 DEF Views, Means, SignedIn, o
<1>11. idle' \in 0 .. SessionTicks
  BY Sets DEF Press
<1>12. QED  BY <1>4, <1>6, <1>7, <1>9, <1>10, <1>11, ModeStep DEF Press

LEMMA TickEnds ==
  ASSUME TypeOK, Tick
  PROVE  Ends({})
<1> DEFINE less(n) == IF n > 0 THEN n - 1 ELSE 0
           older == [t \in Task |-> [task[t] EXCEPT !.left = IF @ > 0 THEN @ - 1 ELSE 0]]
<1>1. \A n \in 0 .. SessionTicks : less(n) \in 0 .. SessionTicks
  BY Constants
<1>2. older \in [Task -> TaskType]
  <2>1. ASSUME NEW t \in Task
        PROVE  [task[t] EXCEPT !.left = less(task[t].left)] \in TaskType
    <3>1. task[t] \in TaskType /\ less(task[t].left) \in 0 .. SessionTicks
      BY <1>1 DEF TypeOK, TaskType
    <3> HIDE DEF less
    <3>2. QED  BY <3>1 DEF TaskType
  <2>2. QED  BY <2>1
<1>3. \A t \in Task : /\ older[t].at = task[t].at /\ older[t].how = task[t].how
                      /\ older[t].cls = task[t].cls /\ older[t].user = task[t].user
                      /\ older[t].array = task[t].array
  BY DEF TypeOK, TaskType
<1> HIDE DEF older
<1>4. task' = older \/ task' = [t \in Task |-> [older[t] EXCEPT !.self = FALSE]]
  BY DEF Tick, SetMode, KeepMode, older
<1>5. QED
  BY <1>2, <1>3, <1>4, Unended DEF Tick

LEMMA TickStep ==
  ASSUME IInv, Tick
  PROVE  IInv'
<1> DEFINE less(n) == IF n > 0 THEN n - 1 ELSE 0
<1>1. TypeOK /\ Views /\ Arrays /\ mode \in ModeType
  BY DEF IInv, TypeOK
<1>2. \A n \in 0 .. SessionTicks : less(n) \in 0 .. SessionTicks
  BY Constants
<1>3. Ends({})
  BY <1>1, TickEnds
<1>4. /\ mode' \in ModeType
      /\ \/ mode'.cls = "Default" /\ mode'.user = 0 /\ mode'.array = 0
         \/ mode'.cls = mode.cls /\ mode'.user = mode.user /\ mode'.array = mode.array
  <2>1. CASE SessionEnds
    <3>1. mode' = NewMode("Default", 0, 0)
      BY <2>1 DEF Tick, SetMode
    <3>2. QED  BY <3>1, NewModeType, Sets DEF Class
  <2>2. CASE ~SessionEnds
    <3>1. mode' = [mode EXCEPT !.left = less(mode.left), !.error = FALSE]
      BY <2>2 DEF Tick, KeepMode
    <3>2. less(mode.left) \in 0 .. SessionTicks
      BY <1>1, <1>2 DEF ModeType
    <3> HIDE DEF less
    <3>3. QED  BY <1>1, <3>1, <3>2, SameModes DEF SameMode
  <2>3. QED  BY <2>1, <2>2
<1>5. "Default" \notin SignedInClass
  BY DEF SignedInClass, Shopping, Account
<1>6. array' = array /\ userObj' = userObj
  BY DEF Tick
<1>7. ArrayChange({}) /\ ModeArray({})
  BY <1>1, <1>4, <1>6 DEF ArrayChange, ModeArray, Arrays, TypeOK
<1>8. Means(mode.cls, mode.user)' /\ (SignedIn' => SignedIn /\ mode'.user = mode.user)
  <2>1. \A t \in Task : task[t].at = "over" => task'[t].at = "over"
    BY <1>3 DEF Ends
  <2>2. mode.user # 0 => mode.user \in Task
    BY <1>1, Sets DEF ModeType
  <2>3. QED  BY <1>1, <1>4, <1>5, <1>6, <2>1, <2>2 DEF Views, Means, SignedIn
<1>9. idle' \in 0 .. SessionTicks
  BY <1>1, Constants DEF Tick, TypeOK
<1>10. QED  BY <1>3, <1>4, <1>7, <1>8, <1>9, ModeStep DEF Tick

LEMMA RefreshEnds ==
  ASSUME TypeOK, Refresh
  PROVE  Ends({t \in Task : Awaits(t)})
<1> DEFINE lost == {t \in Task : Awaits(t)}
           kept == [t \in Task |-> IF t \in lost THEN Ended ELSE task[t]]
<1>1. kept \in [Task -> TaskType]
  BY EndedType DEF TypeOK
<1>2. /\ task' = [t \in Task |-> [kept[t] EXCEPT !.self = FALSE]]
      /\ req' = [t \in Task |-> IF t \in lost THEN Unawaited(req[t]) ELSE req[t]]
  BY DEF Refresh, SetMode, Awaits
<1>3. \A t \in Task : /\ task'[t] \in TaskType
                      /\ task'[t].at = kept[t].at /\ task'[t].how = kept[t].how
                      /\ task'[t].cls = kept[t].cls /\ task'[t].user = kept[t].user
                      /\ task'[t].array = kept[t].array
  <2>1. TAKE t \in Task
  <2>2. kept[t] \in TaskType /\ task'[t] = [kept[t] EXCEPT !.self = FALSE]
    BY <1>1, <1>2
  <2> HIDE DEF kept
  <2>3. QED  BY <2>2 DEF TaskType
<1>4. QED
  <2>1. task' \in [Task -> TaskType]
    BY <1>2, <1>3
  <2>2. \A t \in lost : task'[t].at = "over"
    BY <1>3, EndedType
  <2>3. QED  BY <1>2, <1>3, <2>1, <2>2 DEF Ends

LEMMA RefreshStep ==
  ASSUME IInv, Refresh
  PROVE  IInv'
<1> DEFINE lost == {t \in Task : Awaits(t)}
<1>1. TypeOK /\ Views /\ Requests /\ Arrays /\ Exact
  BY DEF IInv
<1>2. /\ mode' = NewMode("Default", 0, 0)
      /\ overlap' = (overlap \/ lost # {})
      /\ UNCHANGED <<userObj, array, dbVars, idle>>
  BY DEF Refresh, SetMode, Awaits
<1>3. Ends(lost)
  BY <1>1, RefreshEnds
<1> HIDE DEF lost
<1>4. mode' \in ModeType /\ mode'.cls = "Default" /\ mode'.user = 0 /\ mode'.array = 0
  BY <1>2, NewModeType, Sets DEF Class
<1>5. "Default" \notin SignedInClass
  BY DEF SignedInClass, Shopping, Account
<1>6. SameUsers /\ ArrayChange(lost) /\ ModeArray(lost) /\ Means(mode.cls, mode.user)' /\ ~SignedIn'
  BY <1>1, <1>2, <1>4, <1>5 DEF SameUsers, ArrayChange, ModeArray, Means, SignedIn, TypeOK
<1>7. overlap' \in BOOLEAN /\ (overlap => overlap') /\ (~overlap' => lost = {})
  BY <1>1, <1>2 DEF TypeOK
<1>8. Exact'
  <2>1. balance' = balance /\ userObj' = userObj
    BY <1>2 DEF dbVars
  <2>2. QED  BY <1>1, <1>3, <1>6, <1>7, <2>1, EndsExact
<1>9. userObj' \in [Task -> ObjType] /\ idle' \in 0 .. SessionTicks
  BY <1>1, <1>2 DEF TypeOK
<1>10. QED  BY <1>2, <1>3, <1>4, <1>6, <1>7, <1>8, <1>9, EndsInvariant DEF dbVars

-----------------------------------------------------------------------------
(* Operations that begin *)

\* Of a mode's class, the operations Kinds allows it to start.
Starts(at, how) ==
  /\ at \in Call \ {"purchase"} /\ how \in {"scan", "price", "menu", "login", "button"}
  /\ at \in {"deposit", "card", "password", "history"} => mode.cls \in SignedInClass
  /\ how = "menu" => mode.cls = "ManualPurchase" /\ at = "info"
  /\ at = "info" /\ mode.cls \in SignedInClass => mode.cls \in Shopping
  /\ at = "login" => mode.cls = "ManualLogin"

\* What is known of the step that begins task b: the others stay as they are.
LEMMA BeginFacts ==
  ASSUME IInv, NEW m, SameMode(m), NEW at, NEW how, Starts(at, how), NEW arg \in Barcode,
         Begin(m, at, how, arg)
  PROVE  \E b \in Task :
           /\ task[b].at = "free" /\ req[b].at = "none" /\ ~Awaits(b)
           /\ task' \in [Task -> TaskType] /\ req' \in [Task -> ReqType]
           /\ task'[b].at = at /\ task'[b].how = how /\ task'[b].cls = mode.cls
           /\ task'[b].user = mode.user /\ task'[b].array = mode.array
           /\ req'[b].call = at /\ req'[b].at = "sent"
           /\ req'[b].user = Owner(mode.user) /\ req'[b].asked = OnScreen
           /\ \A t \in Task \ {b} : task'[t] = task[t] /\ req'[t] = req[t]
<1>1. TypeOK /\ Requests /\ mode \in ModeType
  BY DEF IInv, TypeOK
<1> DEFINE left == IF how = "menu" THEN SessionTicks ELSE 0
<1>2. PICK b \in Task :
        /\ First(b)
        /\ KeepMode(m, [task EXCEPT ![b] =
             [at |-> at, how |-> how, cls |-> mode.cls, self |-> TRUE,
              user |-> mode.user, array |-> mode.array, arg |-> arg, left |-> left]])
        /\ Sent(b, at, mode.user, arg, OnScreen)
  BY DEF Begin
<1>3. left \in 0 .. SessionTicks
  BY Sets
<1> HIDE DEF left
<1> DEFINE new == [at |-> at, how |-> how, cls |-> mode.cls, self |-> TRUE,
                   user |-> mode.user, array |-> mode.array, arg |-> arg, left |-> left]
<1>4. new \in TaskType
  BY <1>1, <1>3 DEF TaskType, ModeType, Starts
<1>5. /\ new.at = at /\ new.how = how /\ new.cls = mode.cls
      /\ new.user = mode.user /\ new.array = mode.array
  OBVIOUS
<1>6. task' = [task EXCEPT ![b] = new]
  BY <1>2 DEF KeepMode
<1> HIDE DEF new
<1>7. /\ task' \in [Task -> TaskType] /\ task'[b] = new
      /\ \A t \in Task \ {b} : task'[t] = task[t]
  BY <1>1, <1>4, <1>6 DEF TypeOK
<1> DEFINE sent == [NoReq EXCEPT !.call = at, !.arg = arg, !.at = "sent",
                                 !.user = Owner(mode.user), !.asked = OnScreen]
<1>8. Owner(mode.user) \in User \cup {Nobody} /\ OnScreen \in User \cup {Nobody}
  <2>1. mode.user # 0 => userObj[mode.user] \in ObjType
    BY <1>1, Sets DEF TypeOK, ModeType
  <2>2. QED  BY <2>1 DEF Owner, OnScreen, ObjType
<1>9. sent \in ReqType /\ sent.call = at /\ sent.at = "sent"
      /\ sent.user = Owner(mode.user) /\ sent.asked = OnScreen
  BY <1>8, NoReqType DEF ReqType, Starts
<1>10. req' = [req EXCEPT ![b] = sent]
  BY <1>2 DEF Sent
<1> HIDE DEF sent
<1>11. /\ req' \in [Task -> ReqType] /\ req'[b] = sent
       /\ \A t \in Task \ {b} : req'[t] = req[t]
  BY <1>1, <1>9, <1>10 DEF TypeOK
<1>12. task[b].at = "free" /\ req[b].at = "none" /\ ~Awaits(b)
  BY <1>1, <1>2 DEF First, Requests, Awaits, Call
<1>13. QED  BY <1>5, <1>7, <1>9, <1>11, <1>12

LEMMA BeginStep ==
  ASSUME IInv, NEW m, SameMode(m), NEW at, NEW how, Starts(at, how), NEW arg \in Barcode,
         Begin(m, at, how, arg), idle' \in 0 .. SessionTicks
  PROVE  IInv'
<1>1. TypeOK /\ Views /\ Kinds /\ Requests /\ Arrays /\ Exact /\ ChargedWhoAsked
  BY DEF IInv
<1>2. PICK b \in Task :
           /\ task[b].at = "free" /\ req[b].at = "none" /\ ~Awaits(b)
           /\ task' \in [Task -> TaskType] /\ req' \in [Task -> ReqType]
           /\ task'[b].at = at /\ task'[b].how = how /\ task'[b].cls = mode.cls
           /\ task'[b].user = mode.user /\ task'[b].array = mode.array
           /\ req'[b].call = at /\ req'[b].at = "sent"
           /\ req'[b].user = Owner(mode.user) /\ req'[b].asked = OnScreen
           /\ \A t \in Task \ {b} : task'[t] = task[t] /\ req'[t] = req[t]
  BY BeginFacts
<1>3. /\ mode' = m /\ overlap' = (overlap \/ InFlight # {})
      /\ array' = array /\ userObj' = userObj /\ balance' = balance /\ tx' = tx /\ cards' = cards
  BY DEF Begin, KeepMode, dbVars
<1>4. /\ mode' \in ModeType /\ mode'.cls = mode.cls /\ mode'.user = mode.user
      /\ mode'.array = mode.array
  BY <1>3 DEF SameMode
<1>5. TypeOK'
  BY <1>1, <1>2, <1>3, <1>4 DEF TypeOK
<1>6. /\ \A t \in Task : Awaits(t)' <=> Awaits(t) \/ t = b
      /\ \A t \in Task : task[t].at = "over" => t # b /\ task'[t].at = "over"
  BY <1>2 DEF Awaits, Starts
<1>7. mode.user # 0 => mode.user \in Task
  BY <1>1, Sets DEF TypeOK, ModeType
<1>8. \A t \in Task : task[t].user # 0 => task[t].user \in Task
  BY <1>1, Sets DEF TypeOK, TaskType
<1>9. Means(mode.cls, mode.user)
  BY <1>1 DEF Views
<1>10. Views'
  <2>1. ASSUME NEW t \in Task, Awaits(t)'
        PROVE  Means(task[t].cls, task[t].user)'
    <3>1. CASE t = b
      BY <1>2, <1>3, <1>6, <1>7, <1>9, <3>1 DEF Means
    <3>2. CASE t # b
      BY <1>1, <1>2, <1>3, <1>6, <1>8, <2>1, <3>2 DEF Views, Means
    <3>3. QED  BY <3>1, <3>2
  <2>2. Means(mode.cls, mode.user)'
    BY <1>3, <1>4, <1>6, <1>7, <1>9 DEF Means
  <2>3. QED  BY <2>1, <2>2 DEF Views
<1>11. Kinds'
  BY <1>1, <1>2, <1>6 DEF Kinds, Starts
<1>12. mode.cls \in SignedInClass => OnScreen = userObj[mode.user].id /\ OnScreen = Owner(mode.user)
                                     /\ OnScreen \in User
  BY <1>9 DEF OnScreen, SignedIn, Owner, Means
<1>13. Requests'
  <2>1. at \in Money => mode.cls \in SignedInClass
    BY DEF Starts, Money
  <2> SUFFICES ASSUME NEW t \in Task
               PROVE  /\ Awaits(t)' => req'[t].call = task'[t].at /\ req'[t].at # "none"
                      /\ Awaits(t)' /\ task'[t].cls \in SignedInClass => req'[t].asked = userObj'[task'[t].user].id
                      /\ task'[t].at = "free" => req'[t].at = "none"
                      /\ req'[t].at # "none" /\ req'[t].call \in Money => req'[t].user = req'[t].asked /\ req'[t].user \in User
                      /\ req'[t].at = "read" => req'[t].call \in Money
                      /\ req'[t].at = "answered" => Awaits(t)'
                      /\ req'[t].at = "answered" /\ req'[t].call \in Money => req'[t].reply = "ok"
                      /\ req'[t].at = "answered" /\ req'[t].reply = "user" => req'[t].id \in User
                      /\ req'[t].at = "answered" /\ req'[t].call = "purchase" =>
                           tx'[t].user = req'[t].user /\ tx'[t].cents = -Price
    BY DEF Requests
  <2>2. CASE t = b
    <3>1. at # "free"
      BY DEF Starts, Call
    <3>2. QED  BY <1>2, <1>3, <1>12, <2>1, <2>2, <3>1
  <2>3. CASE t # b
    <3>1. task'[t] = task[t] /\ req'[t] = req[t] /\ (Awaits(t)' <=> Awaits(t))
      BY <1>2, <1>6, <2>3
    <3>2. QED  BY <1>1, <1>3, <3>1 DEF Requests
  <2>4. QED  BY <2>2, <2>3
<1>14. Arrays'
  <2>1. /\ array'[0] = {}
        /\ \A a \in Array : \A x \in array'[a] : task'[x].at = "over" /\ req'[x].at = "none"
        /\ \A t \in Task : task'[t].at # "over" => array'[t] = {}
    <3>1. \A a \in Array : \A x \in array[a] : x \in Task
      BY <1>1 DEF TypeOK
    <3>2. QED  BY <1>1, <1>2, <1>3, <1>6, <3>1 DEF Arrays
  <2>2. /\ mode'.cls \in {"Purchases", "ManualPurchase"} <=> mode'.array # 0
        /\ mode'.array \in Task => task'[mode'.array].at = "over"
        /\ mode'.array # 0 => Holds(mode.array, mode.user)'
    BY <1>1, <1>3, <1>4, <1>6 DEF Arrays, Holds
  <2>3. ASSUME NEW t \in Task, Awaits(t)'
        PROVE  /\ task'[t].cls \in {"Purchases", "ManualPurchase"} => task'[t].array # 0
               /\ task'[t].cls = "LoggedIn" /\ task'[t].at = "purchase" => task'[t].array = t
               /\ task'[t].array \in Task /\ task'[t].array # t => task'[task'[t].array].at = "over"
               /\ task'[t].array # 0 =>
                    /\ task'[t].cls \in Shopping
                    /\ Holds(task[t].array, task[t].user)'
                    /\ mode'.array = task'[t].array => mode'.user = task'[t].user
                    /\ \A s \in Task : Awaits(s)' /\ task'[s].array = task'[t].array
                         => task'[s].user = task'[t].user
    <3>1. CASE t = b
      <4>1. \A s \in Task : Awaits(s) /\ mode.array # 0 /\ task[s].array = mode.array
                              => task[s].user = mode.user
        BY <1>1 DEF Arrays
      <4>2. mode.array # 0 => mode.cls \in Shopping
        BY <1>1 DEF Arrays, Shopping
      <4>3. QED  BY <1>2, <1>4, <1>6, <2>2, <3>1, <4>1, <4>2 DEF Holds, Starts
    <3>2. CASE t # b
      <4>1. Awaits(t) /\ task'[t] = task[t]
        BY <1>2, <1>6, <2>3, <3>2
      <4>2. task[t].array # 0 => Holds(task[t].array, task[t].user)'
        BY <1>1, <1>3, <4>1 DEF Arrays, Holds
      <4>3. task[t].array # 0 => /\ mode.array = task[t].array => mode.user = task[t].user
                                 /\ \A s \in Task : Awaits(s) /\ task[s].array = task[t].array
                                      => task[s].user = task[t].user
        BY <1>1, <4>1 DEF Arrays
      <4>4. QED  BY <1>1, <1>2, <1>4, <1>6, <4>1, <4>2, <4>3 DEF Arrays, Holds
    <3>3. QED  BY <3>1, <3>2
  <2>4. QED  BY <2>1, <2>2, <2>3 DEF Arrays
<1>15. Exact'
  <2> SUFFICES ASSUME ~overlap' PROVE Exact'
    BY DEF Exact
  <2>1. ~overlap /\ InFlight = {}
    BY <1>1, <1>3 DEF TypeOK
  <2>2. InFlight' \subseteq {b} /\ Awaits(b)'
    <3>1. \A t \in Task \ {b} : t \notin InFlight'
      BY <1>2, <2>1 DEF InFlight
    <3>2. QED  BY <1>6, <3>1 DEF InFlight
  <2>3. mode.cls \in SignedInClass => userObj[mode.user].balance = balance[userObj[mode.user].id]
    BY <1>1, <2>1 DEF Exact, SignedIn
  <2>4. \A t \in InFlight' : t = b
    BY <2>2
  <2>5. QED  BY <1>2, <1>3, <1>4, <2>2, <2>3, <2>4 DEF Exact, SignedIn
<1>16. ChargedWhoAsked'
  BY <1>1, <1>3 DEF ChargedWhoAsked
<1>17. QED  BY <1>5, <1>10, <1>11, <1>13, <1>14, <1>15, <1>16 DEF IInv

\* What the user and the cash service do, but for the buttons that lead to
\* another mode: they begin an operation, or change the current mode.
PlainStep ==
  /\ idle' \in 0 .. SessionTicks
  /\ \E m : /\ SameMode(m)
            /\ \/ Only(m)
               \/ \E at, how : \E arg \in Barcode : Starts(at, how) /\ Begin(m, at, how, arg)

LEMMA OnlyForm ==
  ASSUME NEW m, SameMode(m), Only(m), idle' \in 0 .. SessionTicks
  PROVE  PlainStep
BY DEF PlainStep

LEMMA BeginForm ==
  ASSUME NEW m, SameMode(m), NEW at, NEW how, Starts(at, how), NEW arg \in Barcode,
         Begin(m, at, how, arg), idle' \in 0 .. SessionTicks
  PROVE  PlainStep
BY DEF PlainStep

LEMMA UserForms ==
  ASSUME IInv, UserStep \/ CashStep
  PROVE  PlainStep \/ \E cls \in Class : Press(cls)
<1>1. TypeOK
  BY DEF IInv
<1>2. /\ SameMode(mode) /\ SameMode(Bumped(mode)) /\ SameMode(Failed(mode))
      /\ SameMode([mode EXCEPT !.error = FALSE])
  BY <1>1, SameModes
<1>3. 0 \in 0 .. SessionTicks /\ idle \in 0 .. SessionTicks /\ Unknown \in Barcode
  BY <1>1, Sets DEF TypeOK, Barcode
<1>4. /\ SignedInClass = Shopping \cup Account
      /\ "AddCard" \in SignedInClass /\ "SetPassword" \in SignedInClass /\ "Account" \in SignedInClass
      /\ "MenuPrice" \notin SignedInClass /\ "ManualPurchase" \in Shopping
      /\ "ManualLogin" \notin SignedInClass
      /\ {"info", "login", "deposit", "card", "password", "history"} = Call \ {"purchase"}
  BY DEF SignedInClass, Shopping, Account, Call
<1>5. ASSUME NEW b \in Barcode, Scan(b)
      PROVE  PlainStep
  <2>1. idle' \in 0 .. SessionTicks
    BY <1>3, <1>5 DEF Scan
  <2>2. CASE mode.cls \notin Account /\ Begin(mode, "info", "scan", b)
    <3>1. Starts("info", "scan")
      BY <1>4, <2>2 DEF Starts
    <3>2. QED  BY <1>2, <2>1, <2>2, <3>1, BeginForm
  <2>3. CASE mode.cls \notin Account /\ Begin([mode EXCEPT !.error = FALSE], "info", "scan", b)
    <3>1. Starts("info", "scan")
      BY <1>4, <2>3 DEF Starts
    <3>2. QED  BY <1>2, <2>1, <2>3, <3>1, BeginForm
  <2>4. CASE mode.cls = "AddCard" /\ Begin(Bumped(mode), "card", "scan", b)
    <3>1. Starts("card", "scan")
      BY <1>4, <2>4 DEF Starts
    <3>2. QED  BY <1>2, <2>1, <2>4, <3>1, BeginForm
  <2>5. CASE Only(mode)
    BY <1>2, <2>1, <2>5, OnlyForm
  <2>6. QED  BY <1>5, <2>2, <2>3, <2>4, <2>5 DEF Scan
<1>6. ASSUME NEW b \in Barcode, SelectItem(b)
      PROVE  PlainStep
  <2>1. idle' \in 0 .. SessionTicks
    BY <1>3, <1>6 DEF SelectItem
  <2>2. CASE mode.cls = "MenuPrice" /\ Begin(mode, "info", "price", b)
    <3>1. Starts("info", "price")
      BY <1>4, <2>2 DEF Starts
    <3>2. QED  BY <1>2, <2>1, <2>2, <3>1, BeginForm
  <2>3. CASE mode.cls = "ManualPurchase" /\ Begin(mode, "info", "menu", b)
    <3>1. Starts("info", "menu")
      BY <1>4, <2>3 DEF Starts
    <3>2. QED  BY <1>2, <2>1, <2>3, <3>1, BeginForm
  <2>4. QED  BY <1>6, <2>2, <2>3 DEF SelectItem
<1>7. CASE AttemptLogin
  <2>1. Starts("login", "login") /\ idle' \in 0 .. SessionTicks
    BY <1>3, <1>4, <1>7 DEF Starts, AttemptLogin
  <2>2. QED  BY <1>2, <1>3, <1>7, <2>1, BeginForm DEF AttemptLogin
<1>8. CASE SetPassword
  <2>1. Starts("password", "button") /\ idle' \in 0 .. SessionTicks
    BY <1>3, <1>4, <1>8 DEF Starts, SetPassword
  <2>2. QED  BY <1>2, <1>3, <1>8, <2>1, BeginForm, OnlyForm DEF SetPassword
<1>9. CASE ViewTransactions
  <2>1. Starts("history", "button") /\ idle' \in 0 .. SessionTicks
    BY <1>3, <1>4, <1>9 DEF Starts, ViewTransactions
  <2>2. QED  BY <1>2, <1>3, <1>9, <2>1, BeginForm DEF ViewTransactions
<1>10. CASE Deposit
  <2>1. Starts("deposit", "button") /\ idle' \in 0 .. SessionTicks
    BY <1>3, <1>4, <1>10 DEF Starts, Deposit, SignedIn
  <2>2. QED  BY <1>2, <1>3, <1>10, <2>1, BeginForm DEF Deposit
<1>11. CASE DepositPreflight
  <2>1. idle' \in 0 .. SessionTicks /\ (Only(Bumped(mode)) \/ Only(Failed(mode)))
    BY <1>3, <1>11 DEF DepositPreflight
  <2>2. QED  BY <1>2, <2>1, OnlyForm
<1>12. CASE NfcScanError
  BY <1>2, <1>3, <1>12, OnlyForm DEF NfcScanError
<1>13. QED
  BY <1>5, <1>6, <1>7, <1>8, <1>9, <1>10, <1>11, <1>12 DEF UserStep, CashStep

LEMMA UserSteps ==
  ASSUME IInv, UserStep \/ CashStep
  PROVE  IInv'
<1>1. CASE PlainStep
  BY <1>1, OnlyStep, BeginStep DEF PlainStep
<1>2. CASE \E cls \in Class : Press(cls)
  BY <1>2, PressStep
<1>3. QED  BY <1>1, <1>2, UserForms

-----------------------------------------------------------------------------
(* The service *)

\* The service changes the request it serves, and for its task a transaction.
LEMMA ServeInvariant ==
  ASSUME IInv, UNCHANGED pageVars, NEW t \in Task, req[t].at # "none",
         \A x \in Task \ {t} : req'[x] = req[x] /\ tx'[x] = tx[x],
         req' \in [Task -> ReqType], tx' \in [Task -> Transaction],
         balance' \in [User -> Int], cards' \in [Card -> User \cup {Nobody}],
         Requests', Exact', ChargedWhoAsked'
  PROVE  IInv'
<1>1. TypeOK /\ Views /\ Kinds /\ Arrays
  BY DEF IInv
<1>2. /\ mode' = mode /\ task' = task /\ userObj' = userObj /\ array' = array
      /\ idle' = idle /\ overlap' = overlap /\ \A x \in Task : Awaits(x)' <=> Awaits(x)
  BY DEF pageVars, Awaits
<1>3. TypeOK'
  BY <1>1, <1>2 DEF TypeOK
<1>4. Views' /\ Kinds'
  BY <1>1, <1>2 DEF Views, Means, Kinds
<1>5. Arrays'
  <2>1. \A a \in Array : \A x \in array[a] :
          x \in Task /\ task[x].at = "over" /\ req'[x].at = "none" /\ tx'[x] = tx[x]
    BY <1>1 DEF Arrays, TypeOK
  <2>2. \A a \in Array : \A o : Holds(a, o) => \A x \in array'[a] : tx'[x].user = userObj'[o].id /\ tx'[x].cents = -Price
    BY <1>2, <2>1 DEF Holds
  <2>3. mode.array \in Array /\ \A x \in Task : task[x].array \in Array
    BY <1>1 DEF TypeOK, ModeType, TaskType
  <2>4. /\ mode'.array # 0 => Holds(mode.array, mode.user)'
        /\ \A x \in Task : Awaits(x)' /\ task'[x].array # 0 => Holds(task[x].array, task[x].user)'
    BY <1>1, <1>2, <2>2, <2>3 DEF Arrays, Holds
  <2>5. \A a \in Array : \A x \in array'[a] : task'[x].at = "over" /\ req'[x].at = "none"
    BY <1>2, <2>1
  <2>6. /\ array'[0] = {}
        /\ \A x \in Task : task'[x].at # "over" => array'[x] = {}
        /\ mode'.cls \in {"Purchases", "ManualPurchase"} <=> mode'.array # 0
        /\ mode'.array \in Task => task'[mode'.array].at = "over"
    BY <1>1, <1>2 DEF Arrays
  <2>7. \A x \in Task : Awaits(x)' =>
          /\ task'[x].cls \in {"Purchases", "ManualPurchase"} => task'[x].array # 0
          /\ task'[x].cls = "LoggedIn" /\ task'[x].at = "purchase" => task'[x].array = x
          /\ task'[x].array \in Task /\ task'[x].array # x => task'[task'[x].array].at = "over"
          /\ task'[x].array # 0 =>
               /\ task'[x].cls \in Shopping
               /\ mode'.array = task'[x].array => mode'.user = task'[x].user
               /\ \A s \in Task : Awaits(s)' /\ task'[s].array = task'[x].array => task'[s].user = task'[x].user
    BY <1>1, <1>2 DEF Arrays
  <2>8. QED  BY <2>4, <2>5, <2>6, <2>7 DEF Arrays
<1>6. QED  BY <1>3, <1>4, <1>5 DEF IInv

LEMMA AnswerFacts ==
  ASSUME TypeOK, NEW t \in Task, NEW reply \in {"ok", "item", "user", "error"},
         NEW id \in User \cup {Nobody}, NEW bal \in Int, Answered(t, reply, id, bal)
  PROVE  /\ req' \in [Task -> ReqType]
         /\ \A x \in Task \ {t} : req'[x] = req[x]
         /\ task[t].at = "over" => req'[t] = NoReq
         /\ task[t].at # "over" =>
              /\ req'[t].call = req[t].call /\ req'[t].user = req[t].user /\ req'[t].asked = req[t].asked
              /\ req'[t].at = "answered" /\ req'[t].reply = reply /\ req'[t].id = id
              /\ req'[t].balance = bal
<1> DEFINE r == [req[t] EXCEPT !.at = "answered", !.reply = reply, !.id = id, !.balance = bal]
<1>1. /\ r \in ReqType /\ r.call = req[t].call /\ r.user = req[t].user /\ r.asked = req[t].asked
      /\ r.at = "answered" /\ r.reply = reply /\ r.id = id /\ r.balance = bal
  <2>1. req[t] \in ReqType
    BY DEF TypeOK
  <2>2. QED  BY <2>1 DEF ReqType
<1>2. req' = [req EXCEPT ![t] = IF task[t].at = "over" THEN NoReq ELSE r]
  BY DEF Answered, TypeOK
<1> HIDE DEF r
<1>3. QED  BY <1>1, <1>2, NoReqType DEF TypeOK

\* What the invariant says of one request.
ReqInv(t) ==
  /\ Awaits(t) => req[t].call = task[t].at /\ req[t].at # "none"
  /\ Awaits(t) /\ task[t].cls \in SignedInClass => req[t].asked = userObj[task[t].user].id
  /\ task[t].at = "free" => req[t].at = "none"
  /\ req[t].at # "none" /\ req[t].call \in Money => req[t].user = req[t].asked /\ req[t].user \in User
  /\ req[t].at = "read" => req[t].call \in Money
  /\ req[t].at = "answered" => Awaits(t)
  /\ req[t].at = "answered" /\ req[t].call \in Money => req[t].reply = "ok"
  /\ req[t].at = "answered" /\ req[t].reply = "user" => req[t].id \in User
  /\ req[t].at = "answered" /\ req[t].call = "purchase" =>
       tx[t].user = req[t].user /\ tx[t].cents = -Price

LEMMA OneRequest ==
  ASSUME Requests, UNCHANGED <<task, userObj>>, NEW t \in Task, ReqInv(t)',
         \A x \in Task \ {t} : req'[x] = req[x] /\ tx'[x] = tx[x]
  PROVE  Requests'
<1>1. ASSUME NEW x \in Task, x # t
      PROVE  ReqInv(x)'
  <2>1. ReqInv(x)
    BY DEF Requests, ReqInv
  <2>2. req'[x] = req[x] /\ tx'[x] = tx[x] /\ (Awaits(x)' <=> Awaits(x))
    BY <1>1 DEF Awaits
  <2>3. QED  BY <2>1, <2>2 DEF ReqInv
<1>2. \A x \in Task : ReqInv(x)'
  BY <1>1
<1>3. QED  BY <1>2 DEF Requests, ReqInv

\* An answer that moves no money.
LEMMA AnswerStep ==
  ASSUME IInv, NEW t \in Task, req[t].at = "sent", req[t].call \notin Money,
         NEW reply \in {"ok", "item", "user", "error"},
         NEW id \in User \cup {Nobody}, NEW bal \in Int, Answered(t, reply, id, bal),
         reply = "user" => id \in User /\ bal = balance[id],
         UNCHANGED <<pageVars, balance, tx>>, cards' \in [Card -> User \cup {Nobody}]
  PROVE  IInv'
<1>1. TypeOK /\ Requests /\ Exact /\ ChargedWhoAsked
  BY DEF IInv
<1>2. /\ req' \in [Task -> ReqType]
      /\ \A x \in Task \ {t} : req'[x] = req[x]
      /\ task[t].at = "over" => req'[t] = NoReq
      /\ task[t].at # "over" =>
           /\ req'[t].call = req[t].call /\ req'[t].user = req[t].user /\ req'[t].asked = req[t].asked
           /\ req'[t].at = "answered" /\ req'[t].reply = reply /\ req'[t].id = id
           /\ req'[t].balance = bal
  BY <1>1, AnswerFacts
<1>3. /\ mode' = mode /\ task' = task /\ userObj' = userObj /\ overlap' = overlap
      /\ balance' = balance /\ tx' = tx /\ \A x \in Task : Awaits(x)' <=> Awaits(x)
  BY DEF pageVars, Awaits
<1>4. task[t].at # "over" => Awaits(t)
  BY <1>1 DEF TypeOK, TaskType, Requests, Awaits
<1>5. ReqInv(t)'
  <2>1. ReqInv(t)
    BY <1>1 DEF Requests, ReqInv
  <2>2. CASE task[t].at = "over"
    BY <1>2, <1>3, <2>1, <2>2, NoReqType DEF ReqInv, Awaits, Call
  <2>3. CASE task[t].at # "over"
    <3>1. req'[t].call \notin Money /\ req'[t].call # "purchase"
      BY <1>2, <2>3 DEF Money
    <3>2. QED  BY <1>2, <1>3, <1>4, <2>1, <2>3, <3>1 DEF ReqInv
  <2>4. QED  BY <2>2, <2>3
<1>6. Requests'
  BY <1>1, <1>2, <1>3, <1>5, OneRequest
<1>7. Exact'
  <2> SUFFICES ASSUME ~overlap' PROVE Exact'
    BY DEF Exact
  <2>1. /\ \A x, y \in InFlight : x = y
        /\ \A x \in InFlight : Awaits(x)
        /\ \A x \in InFlight : SignedIn => task[x].cls \in SignedInClass /\ mode.user = task[x].user
        /\ SignedIn /\ (\A x \in InFlight : ~ (req[x].at = "answered" /\ req[x].call \in Money))
             => userObj[mode.user].balance = balance[userObj[mode.user].id]
        /\ \A x \in InFlight :
             task[x].cls \in SignedInClass =>
               IF req[x].at = "answered" /\ req[x].call \in Money
                 THEN req[x].balance = balance[userObj[task[x].user].id]
                 ELSE userObj[task[x].user].balance = balance[userObj[task[x].user].id]
    BY <1>1, <1>3 DEF Exact
  <2>2. t \in InFlight /\ Awaits(t) /\ task[t].at # "over"
    BY <2>1 DEF InFlight, Awaits, Call
  <2>3. InFlight = {t}
    BY <2>1, <2>2
  <2>4. InFlight' = {t}
    BY <1>2, <1>3, <2>2, <2>3 DEF InFlight, Awaits
  <2>5. /\ req'[t].call \notin Money /\ req'[t].at = "answered"
        /\ req'[t].reply = "user" => req'[t].balance = balance[req'[t].id]
    BY <1>2, <2>2
  <2>6. /\ SignedIn => userObj[mode.user].balance = balance[userObj[mode.user].id]
        /\ task[t].cls \in SignedInClass => userObj[task[t].user].balance = balance[userObj[task[t].user].id]
    BY <2>1, <2>3
  <2>7. QED  BY <1>3, <2>1, <2>3, <2>4, <2>5, <2>6 DEF Exact, SignedIn
<1>8. ChargedWhoAsked'
  BY <1>1, <1>3 DEF ChargedWhoAsked
<1>9. tx' \in [Task -> Transaction] /\ balance' \in [User -> Int]
  BY <1>1, <1>3 DEF TypeOK
<1>10. QED  BY <1>2, <1>3, <1>6, <1>7, <1>8, <1>9, ServeInvariant

LEMMA ReadStep ==
  ASSUME IInv, NEW t \in Task, ServeRead(t)
  PROVE  IInv'
<1>1. TypeOK /\ Requests /\ Exact /\ ChargedWhoAsked
  BY DEF IInv
<1>2. ReqInv(t) /\ req[t].at = "sent" /\ req[t].call \in Money /\ req[t].user \in User
  BY <1>1 DEF ServeRead, Serves, Requests, ReqInv, Money
<1> DEFINE r == [req[t] EXCEPT !.at = "read", !.balance = balance[req[t].user]]
<1>3. /\ r \in ReqType /\ r.call = req[t].call /\ r.user = req[t].user /\ r.asked = req[t].asked
      /\ r.at = "read" /\ r.balance = balance[req[t].user]
  <2>1. req[t] \in ReqType /\ balance[req[t].user] \in Int
    BY <1>1, <1>2 DEF TypeOK
  <2>2. QED  BY <2>1 DEF ReqType
<1>4. req' = [req EXCEPT ![t] = r]
  BY <1>1 DEF ServeRead, TypeOK
<1> HIDE DEF r
<1>5. req' \in [Task -> ReqType] /\ req'[t] = r /\ \A x \in Task \ {t} : req'[x] = req[x]
  BY <1>1, <1>3, <1>4 DEF TypeOK
<1>6. /\ mode' = mode /\ task' = task /\ userObj' = userObj /\ overlap' = overlap
      /\ balance' = balance /\ tx' = tx /\ cards' = cards /\ \A x \in Task : Awaits(x)' <=> Awaits(x)
  BY DEF ServeRead, pageVars, dbVars, Awaits
<1>7. ReqInv(t)'
  BY <1>2, <1>3, <1>5, <1>6 DEF ReqInv
<1>8. Requests'
  BY <1>1, <1>5, <1>6, <1>7, OneRequest
<1>9. Exact'
  <2> SUFFICES ASSUME ~overlap' PROVE Exact'
    BY DEF Exact
  <2>1. /\ \A x, y \in InFlight : x = y
        /\ \A x \in InFlight : Awaits(x)
        /\ \A x \in InFlight : SignedIn => task[x].cls \in SignedInClass /\ mode.user = task[x].user
        /\ SignedIn /\ (\A x \in InFlight : ~ (req[x].at = "answered" /\ req[x].call \in Money))
             => userObj[mode.user].balance = balance[userObj[mode.user].id]
        /\ \A x \in InFlight :
             task[x].cls \in SignedInClass =>
               IF req[x].at = "answered" /\ req[x].call \in Money
                 THEN req[x].balance = balance[userObj[task[x].user].id]
                 ELSE userObj[task[x].user].balance = balance[userObj[task[x].user].id]
    BY <1>1, <1>6 DEF Exact
  <2>2. InFlight = {t} /\ InFlight' = {t} /\ Awaits(t)
    <3>1. t \in InFlight
      BY <1>2 DEF InFlight
    <3>2. InFlight = {t} /\ Awaits(t)
      BY <2>1, <3>1
    <3>3. QED  BY <1>5, <1>6, <3>2 DEF InFlight, Awaits
  <2>3. /\ SignedIn => userObj[mode.user].balance = balance[userObj[mode.user].id]
        /\ task[t].cls \in SignedInClass => userObj[task[t].user].balance = balance[userObj[task[t].user].id]
    BY <1>2, <2>1, <2>2
  <2>4. req'[t].at = "read" /\ req'[t].balance = balance[req'[t].user]
    BY <1>3, <1>5
  <2>5. QED  BY <1>6, <2>1, <2>2, <2>3, <2>4 DEF Exact, SignedIn
<1>10. ChargedWhoAsked'
  BY <1>1, <1>6 DEF ChargedWhoAsked
<1>11. /\ tx' \in [Task -> Transaction] /\ balance' \in [User -> Int]
       /\ cards' \in [Card -> User \cup {Nobody}]
  BY <1>1, <1>6 DEF TypeOK
<1>12. QED  BY <1>2, <1>5, <1>6, <1>8, <1>9, <1>10, <1>11, ServeInvariant DEF ServeRead

LEMMA InsertStep ==
  ASSUME IInv, NEW t \in Task, ServeInsert(t)
  PROVE  IInv'
<1> DEFINE u == req[t].user
<1>1. TypeOK /\ Views /\ Requests /\ Exact /\ ChargedWhoAsked
  BY DEF IInv
<1>2. /\ ReqInv(t) /\ req[t].at = "read" /\ req[t].call \in Money
      /\ u \in User /\ u = req[t].asked
  BY <1>1 DEF ServeInsert, Requests, ReqInv
<1>3. Cents(t) \in Int /\ Cents(t) \in {-Price, Bill} /\ (req[t].call = "purchase" => Cents(t) = -Price)
  BY Constants DEF Cents
<1>4. req[t].balance + Cents(t) \in Int /\ balance[u] + Cents(t) \in Int
  BY <1>1, <1>2, <1>3 DEF TypeOK, ReqType
<1>5. Answered(t, "ok", Nobody, req[t].balance + Cents(t))
  BY DEF ServeInsert
<1>6. /\ req' \in [Task -> ReqType]
      /\ \A x \in Task \ {t} : req'[x] = req[x]
      /\ task[t].at = "over" => req'[t] = NoReq
      /\ task[t].at # "over" =>
           /\ req'[t].call = req[t].call /\ req'[t].user = u /\ req'[t].asked = req[t].asked
           /\ req'[t].at = "answered" /\ req'[t].reply = "ok" /\ req'[t].id = Nobody
           /\ req'[t].balance = req[t].balance + Cents(t)
  BY <1>1, <1>4, <1>5, AnswerFacts
<1>7. /\ mode' = mode /\ task' = task /\ userObj' = userObj /\ overlap' = overlap
      /\ cards' = cards /\ \A x \in Task : Awaits(x)' <=> Awaits(x)
  BY DEF ServeInsert, pageVars, Awaits
<1>8. /\ tx' \in [Task -> Transaction] /\ \A x \in Task \ {t} : tx'[x] = tx[x]
      /\ tx'[t].user = u /\ tx'[t].cents = Cents(t) /\ tx'[t].asked = req[t].asked
  <2> DEFINE row == [user |-> u, cents |-> Cents(t), asked |-> req[t].asked]
  <2>1. row \in Transaction /\ row.user = u /\ row.cents = Cents(t) /\ row.asked = req[t].asked
    BY <1>2, <1>3 DEF Transaction
  <2>2. tx' = [tx EXCEPT ![t] = row]
    BY DEF ServeInsert
  <2> HIDE DEF row
  <2>3. QED  BY <1>1, <2>1, <2>2 DEF TypeOK
<1>9. balance' \in [User -> Int] /\ balance'[u] = balance[u] + Cents(t)
  BY <1>1, <1>2, <1>4 DEF TypeOK, ServeInsert
<1>10. task[t].at # "over" => Awaits(t)
  BY <1>1, <1>2 DEF TypeOK, TaskType, ReqInv, Awaits
<1> HIDE DEF u
<1>11. ReqInv(t)'
  <2>1. CASE task[t].at = "over"
    BY <1>6, <1>7, <2>1, NoReqType DEF ReqInv, Awaits, Call
  <2>2. CASE task[t].at # "over"
    BY <1>2, <1>3, <1>6, <1>7, <1>8, <1>10, <2>2 DEF ReqInv
  <2>3. QED  BY <2>1, <2>2
<1>12. Requests'
  BY <1>1, <1>6, <1>7, <1>8, <1>11, OneRequest
<1>13. Exact'
  <2> SUFFICES ASSUME ~overlap' PROVE Exact'
    BY DEF Exact
  <2>1. /\ \A x, y \in InFlight : x = y
        /\ \A x \in InFlight : Awaits(x)
        /\ \A x \in InFlight : SignedIn => task[x].cls \in SignedInClass /\ mode.user = task[x].user
        /\ \A x \in InFlight : req[x].at = "read" => req[x].balance = balance[req[x].user]
    BY <1>1, <1>7 DEF Exact
  <2>2. InFlight = {t} /\ Awaits(t)
    <3>1. t \in InFlight
      BY <1>2 DEF InFlight
    <3>2. QED  BY <2>1, <3>1
  <2>3. task[t].at # "over" /\ InFlight' = {t}
    BY <1>6, <1>7, <2>2 DEF InFlight, Awaits, Call
  <2>4. req[t].balance = balance[u]
    BY <1>2, <2>1, <2>2 DEF u
  <2>5. req'[t].balance = balance'[u]
    BY <1>6, <1>9, <2>3, <2>4
  <2>6. task[t].cls \in SignedInClass => u = userObj[task[t].user].id
    BY <1>2, <2>2 DEF ReqInv
  <2>7. req'[t].at = "answered" /\ req'[t].call \in Money /\ req'[t].reply # "user"
    BY <1>2, <1>6, <2>3
  <2>8. QED  BY <1>7, <2>1, <2>2, <2>3, <2>5, <2>6, <2>7 DEF Exact, SignedIn
<1>14. ChargedWhoAsked'
  BY <1>1, <1>2, <1>8 DEF ChargedWhoAsked
<1>15. cards' \in [Card -> User \cup {Nobody}]
  BY <1>1, <1>7 DEF TypeOK
<1>16. QED
  BY <1>2, <1>6, <1>8, <1>9, <1>12, <1>13, <1>14, <1>15, ServeInvariant DEF ServeInsert

LEMMA ServiceSteps ==
  ASSUME IInv, NEW t \in Task, ServiceStep(t)
  PROVE  IInv'
<1>1. TypeOK
  BY DEF IInv
<1>2. \A c \in {"info", "login", "password", "history", "card"} : c \notin Money
  BY DEF Money
<1>3. /\ Nobody \in User \cup {Nobody} /\ 0 \in Int
      /\ \A u \in User : u \in User \cup {Nobody} /\ balance[u] \in Int
  BY <1>1 DEF TypeOK
<1>4. CASE ServeInfo(t)
  <2> DEFINE b == req[t].arg
             u == IF b \in Card THEN cards[b] ELSE Nobody
  <2>1. /\ req[t].at = "sent" /\ req[t].call \notin Money /\ cards' = cards
        /\ UNCHANGED <<pageVars, balance, tx>>
    BY <1>2, <1>4 DEF ServeInfo, Serves, dbVars
  <2>2. u \in User \cup {Nobody}
    BY <1>1 DEF TypeOK
  <2>3. \/ Answered(t, "item", Nobody, 0)
        \/ u # Nobody /\ Answered(t, "user", u, balance[u])
        \/ Answered(t, "error", Nobody, 0)
    BY <1>4 DEF ServeInfo
  <2> HIDE DEF u
  <2>4. cards' \in [Card -> User \cup {Nobody}]
    BY <1>1, <2>1 DEF TypeOK
  <2>5. QED  BY <1>3, <2>1, <2>2, <2>3, <2>4, AnswerStep
<1>5. CASE ServeLogin(t)
  <2>1. /\ req[t].at = "sent" /\ req[t].call \notin Money
        /\ UNCHANGED <<pageVars, balance, tx>> /\ cards' \in [Card -> User \cup {Nobody}]
    BY <1>1, <1>2, <1>5 DEF ServeLogin, Serves, dbVars, TypeOK
  <2>2. \/ \E u \in User : Answered(t, "user", u, balance[u])
        \/ Answered(t, "error", Nobody, 0)
    BY <1>5 DEF ServeLogin
  <2>3. QED  BY <1>3, <2>1, <2>2, AnswerStep
<1>6. CASE ServeOther(t)
  <2>1. /\ req[t].at = "sent" /\ req[t].call \notin Money
        /\ UNCHANGED <<pageVars, balance, tx>> /\ cards' \in [Card -> User \cup {Nobody}]
        /\ Answered(t, "ok", Nobody, 0)
    BY <1>1, <1>2, <1>6 DEF ServeOther, Serves, dbVars, TypeOK
  <2>2. QED  BY <1>3, <2>1, AnswerStep
<1>7. CASE ServeCard(t)
  <2>1. /\ req[t].at = "sent" /\ req[t].call \notin Money
        /\ UNCHANGED <<pageVars, balance, tx>>
        /\ Answered(t, "error", Nobody, 0) \/ Answered(t, "ok", Nobody, 0)
    BY <1>2, <1>7 DEF ServeCard, Serves
  <2>2. cards' \in [Card -> User \cup {Nobody}]
    <3>1. req[t].user \in User \cup {Nobody}
      BY <1>1 DEF TypeOK, ReqType
    <3>2. QED  BY <1>1, <1>7, <3>1 DEF ServeCard, TypeOK
  <2>3. QED  BY <1>3, <2>1, <2>2, AnswerStep
<1>8. QED  BY <1>4, <1>5, <1>6, <1>7, ReadStep, InsertStep DEF ServiceStep

-----------------------------------------------------------------------------
(* The page goes on after an await *)

LEMMA PageEnds ==
  ASSUME TypeOK, NEW t \in Task, Awaits(t), Closed(t),
         task' = Over(t) \/ task' = [x \in Task |-> [Over(t)[x] EXCEPT !.self = FALSE]]
  PROVE  Ends({t})
<1>1. Over(t) \in [Task -> TaskType] /\ Over(t)[t] = Ended /\ \A x \in Task \ {t} : Over(t)[x] = task[x]
  BY EndedType DEF Over, TypeOK
<1>2. \A x \in Task : /\ task'[x] \in TaskType /\ task'[x].at = Over(t)[x].at
                      /\ task'[x].how = Over(t)[x].how /\ task'[x].cls = Over(t)[x].cls
                      /\ task'[x].user = Over(t)[x].user /\ task'[x].array = Over(t)[x].array
  <2>1. ASSUME NEW x \in Task
        PROVE  LET k == Over(t)[x] IN
               /\ [k EXCEPT !.self = FALSE] \in TaskType
               /\ [k EXCEPT !.self = FALSE].at = k.at /\ [k EXCEPT !.self = FALSE].how = k.how
               /\ [k EXCEPT !.self = FALSE].cls = k.cls /\ [k EXCEPT !.self = FALSE].user = k.user
               /\ [k EXCEPT !.self = FALSE].array = k.array
    <3>1. Over(t)[x] \in TaskType
      BY <1>1
    <3>2. QED  BY <3>1 DEF TaskType
  <2>2. QED  BY <1>1, <2>1
<1>3. task' \in [Task -> TaskType]
  BY <1>1, <1>2
<1>4. req' = [x \in Task |-> IF x \in {t} THEN Unawaited(req[x]) ELSE req[x]]
  BY DEF Closed, TypeOK
<1>5. QED  BY <1>1, <1>2, <1>3, <1>4, EndedType DEF Ends

LEMMA PageInvariant ==
  ASSUME IInv, NEW t \in Task, Ends({t}), SameUsers, ArrayChange({t}), ModeArray({t}),
         UNCHANGED <<dbVars, idle>>, mode' \in ModeType, userObj' \in [Task -> ObjType],
         overlap' \in BOOLEAN, overlap => overlap', ~overlap' => req[t].at = "answered",
         Means(mode.cls, mode.user)',
         ~overlap' /\ SignedIn'
           => userObj'[mode'.user].balance = balance[userObj'[mode'.user].id]
  PROVE  IInv'
<1>1. TypeOK /\ Views /\ Requests /\ Exact
  BY DEF IInv
<1>2. Exact'
  <2> DEFINE E == {t}
  <2>1. /\ Ends(E) /\ E # {} /\ balance' = balance
        /\ ~overlap' => \A x \in E : req[x].at = "answered"
    BY DEF dbVars
  <2> HIDE DEF E
  <2>2. QED  BY <1>1, <2>1, EndsExact
<1>3. idle' \in 0 .. SessionTicks
  BY <1>1 DEF TypeOK
<1>4. QED  BY <1>2, <1>3, EndsInvariant DEF dbVars

\* An answered call that is the only one, and the balance it left.
LEMMA Balanced ==
  ASSUME IInv, ~overlap, NEW t \in Task, req[t].at = "answered"
  PROVE  /\ SignedIn => task[t].cls \in SignedInClass /\ mode.user = task[t].user
         /\ task[t].cls \in SignedInClass =>
              IF req[t].call \in Money
                THEN req[t].balance = balance[userObj[task[t].user].id]
                ELSE userObj[task[t].user].balance = balance[userObj[task[t].user].id]
         /\ req[t].reply = "user" => req[t].balance = balance[req[t].id]
<1>1. t \in InFlight
  BY DEF InFlight
<1>2. QED  BY <1>1 DEF IInv, Exact

\* Every mode and task of a session still means its user when task t has ended.
LEMMA StillMeant ==
  ASSUME IInv, NEW t \in Task, Ends({t}), SameUsers
  PROVE  /\ \A o \in {mode.user, task[t].user} : o # 0 => task'[o].at = "over"
         /\ mode.cls \in SignedInClass => mode.user # 0 /\ userObj'[mode.user].id \in User
         /\ task[t].cls \in SignedInClass => task[t].user # 0 /\ userObj'[task[t].user].id \in User
<1>1. TypeOK /\ Views /\ Awaits(t)
  BY DEF IInv, Ends
<1>2. \A x \in Task : task[x].at = "over" => task'[x].at = "over"
  BY <1>1, EndsFacts
<1>3. /\ mode.user # 0 => mode.user \in Task
      /\ task[t].user # 0 => task[t].user \in Task
  BY <1>1, Sets DEF TypeOK, ModeType, TaskType
<1>4. Means(mode.cls, mode.user) /\ Means(task[t].cls, task[t].user)
  BY <1>1 DEF Views
<1>5. QED  BY <1>2, <1>3, <1>4 DEF Means, SameUsers

\* The mode that is there stays, with its array, as m.
LEMMA StaysThere ==
  ASSUME IInv, NEW t \in Task, Ends({t}), SameUsers, NEW m, SameMode(m), mode' = m
  PROVE  /\ mode' \in ModeType /\ ModeArray({t}) /\ Means(mode.cls, mode.user)'
         /\ mode'.user = mode.user /\ (SignedIn' <=> SignedIn)
<1>1. mode' \in ModeType /\ mode'.cls = mode.cls /\ mode'.user = mode.user /\ mode'.array = mode.array
  BY DEF SameMode
<1>2. ModeArray({t})
  BY <1>1 DEF IInv, Arrays, ModeArray
<1>3. Means(mode.cls, mode.user)'
  BY <1>1, StillMeant DEF Means
<1>4. QED  BY <1>1, <1>2, <1>3 DEF SignedIn

\* Only the balance of the user object changes.
LEMMA Rebalanced ==
  ASSUME TypeOK, NEW o \in Task, NEW b \in Int,
         userObj' = [userObj EXCEPT ![o].balance = b]
  PROVE  /\ SameUsers /\ userObj' \in [Task -> ObjType]
         /\ userObj'[o].balance = b /\ userObj'[o].id = userObj[o].id
<1>1. \A x \in Task : /\ userObj'[x] \in ObjType /\ userObj'[x].id = userObj[x].id
  <2>1. ASSUME NEW x \in Task
        PROVE  userObj'[x] \in ObjType /\ userObj'[x].id = userObj[x].id
    <3>1. userObj[x] \in ObjType
      BY DEF TypeOK
    <3>2. QED  BY <3>1 DEF ObjType, TypeOK
  <2>2. QED  BY <2>1
<1>2. userObj' \in [Task -> ObjType]
  BY <1>1 DEF TypeOK
<1>3. userObj'[o].balance = b
  BY DEF TypeOK, ObjType
<1>4. QED  BY <1>1, <1>2, <1>3 DEF SameUsers

LEMMA SignInStep ==
  ASSUME IInv, NEW t \in Task, SignIn(t)
  PROVE  IInv'
<1>1. TypeOK /\ Requests /\ Arrays
  BY DEF IInv
<1>2. /\ Awaits(t) /\ req[t].at = "answered" /\ req[t].reply = "user"
      /\ req[t].id \in User /\ req[t].balance \in Int
  BY <1>1 DEF SignIn, Replied, Requests, TypeOK, ReqType
<1>3. Ends({t})
  BY <1>1, <1>2, PageEnds DEF SignIn, SetMode
<1>4. /\ userObj' \in [Task -> ObjType] /\ userObj'[t].id = req[t].id
      /\ userObj'[t].balance = req[t].balance /\ \A o \in Task \ {t} : userObj'[o] = userObj[o]
  BY <1>1, <1>2 DEF SignIn, TypeOK, ObjType
<1>5. SameUsers
  BY <1>2, <1>4 DEF SameUsers, Awaits, Call
<1>6. /\ mode' \in ModeType /\ mode'.cls = "LoggedIn" /\ mode'.user = t /\ mode'.array = 0
  <2>1. "LoggedIn" \in Class /\ t \in UserObj /\ 0 \in Array
    BY Sets DEF Class, Session, SignedInClass, Shopping
  <2>2. mode' = NewMode("LoggedIn", t, 0)
    BY DEF SignIn, SetMode
  <2>3. QED  BY <2>1, <2>2, NewModeType
<1>7. ModeArray({t}) /\ ArrayChange({t})
  BY <1>1, <1>6 DEF ModeArray, ArrayChange, SignIn, TypeOK
<1>8. Means(mode.cls, mode.user)'
  BY <1>2, <1>3, <1>4, <1>6, Sets DEF Means, Ends
<1>9. ~overlap => userObj'[mode'.user].balance = balance[userObj'[mode'.user].id]
  BY <1>2, <1>4, <1>6, Balanced
<1>10. overlap' = overlap /\ overlap \in BOOLEAN
  BY <1>1 DEF SignIn, TypeOK
<1>11. QED
  BY <1>2, <1>3, <1>4, <1>5, <1>6, <1>7, <1>8, <1>9, <1>10, PageInvariant DEF SignIn

LEMMA PriceCheckStep ==
  ASSUME IInv, NEW t \in Task, PriceCheck(t)
  PROVE  IInv'
<1>1. TypeOK /\ Requests /\ Arrays
  BY DEF IInv
<1>2. Awaits(t) /\ req[t].at = "answered"
  BY <1>1 DEF PriceCheck, Replied, Requests
<1>3. Ends({t})
  BY <1>1, <1>2, PageEnds DEF PriceCheck, SetMode
<1>4. /\ mode' \in ModeType /\ mode'.cls = "PriceCheck" /\ mode'.user = 0 /\ mode'.array = 0
  BY NewModeType, Sets DEF PriceCheck, SetMode, Class, Session
<1>5. "PriceCheck" \notin SignedInClass
  BY DEF SignedInClass, Shopping, Account
<1>6. /\ ModeArray({t}) /\ ArrayChange({t}) /\ SameUsers /\ ~SignedIn' /\ Means(mode.cls, mode.user)'
      /\ userObj' \in [Task -> ObjType] /\ overlap' = overlap /\ overlap \in BOOLEAN
  BY <1>1, <1>4, <1>5 DEF ModeArray, ArrayChange, PriceCheck, TypeOK, SameUsers, SignedIn, Means
<1>7. QED  BY <1>2, <1>3, <1>4, <1>6, PageInvariant DEF PriceCheck

\* The mode that task t made beforehand.
LEMMA MadeByFacts ==
  ASSUME TypeOK, NEW t \in Task
  PROVE  /\ MadeBy(t) \in ModeType /\ MadeBy(t).cls = "Purchases"
         /\ MadeBy(t).user = task[t].user /\ MadeBy(t).array = task[t].array
<1>1. task[t].left \in 0 .. SessionTicks /\ task[t].user \in UserObj /\ task[t].array \in Array
  BY DEF TypeOK, TaskType
<1> DEFINE m == NewMode("Purchases", task[t].user, task[t].array)
<1>2. /\ m \in ModeType /\ m.cls = "Purchases" /\ m.user = task[t].user /\ m.array = task[t].array
  BY <1>1, NewModeType DEF Class, Session, SignedInClass, Shopping
<1>3. MadeBy(t) = [m EXCEPT !.left = task[t].left]
  BY DEF MadeBy
<1> HIDE DEF m
<1>4. QED  BY <1>1, <1>2, <1>3 DEF ModeType

LEMMA PurchasedStep ==
  ASSUME IInv, NEW t \in Task, Purchased(t)
  PROVE  IInv'
<1>1. TypeOK /\ Views /\ Kinds /\ Requests /\ Arrays
  BY DEF IInv
<1>2. /\ Awaits(t) /\ task[t].at = "purchase" /\ req[t].at = "answered"
      /\ req[t].call = "purchase" /\ req[t].call \in Money /\ req[t].balance \in Int
  BY <1>1 DEF Purchased, Replied, Requests, TypeOK, ReqType, Awaits, Call, Money
<1>3. task[t].cls \in SignedInClass /\ task[t].cls \in Shopping
  BY <1>1, <1>2 DEF Kinds
<1>4. task[t].user \in Task /\ task[t].array \in Array /\ task[t].array # 0
  <2>1. task[t].user # 0
    BY <1>1, <1>2, <1>3 DEF Views, Means
  <2>2. task[t].cls = "LoggedIn" => task[t].array = t
    BY <1>1, <1>2 DEF Arrays
  <2>3. task[t].cls # "LoggedIn" => task[t].array # 0
    BY <1>1, <1>2, <1>3 DEF Arrays, Shopping
  <2>4. QED  BY <1>1, <2>1, <2>2, <2>3, Sets DEF TypeOK, TaskType
<1>5. Ends({t})
  BY <1>1, <1>2, PageEnds DEF Purchased, SetMode, KeepMode
<1>6. /\ SameUsers /\ userObj' \in [Task -> ObjType]
      /\ userObj'[task[t].user].balance = req[t].balance
      /\ userObj'[task[t].user].id = userObj[task[t].user].id
  BY <1>1, <1>2, <1>4, Rebalanced DEF Purchased
<1>7. ArrayChange({t})
  <2>1. /\ array' \in [Array -> SUBSET Task]
        /\ array'[task[t].array] = array[task[t].array] \cup {t}
        /\ \A a \in Array : a # task[t].array => array'[a] = array[a]
    BY <1>1, <1>4 DEF Purchased, TypeOK
  <2>2. tx[t].user = userObj[task[t].user].id /\ tx[t].cents = -Price
    BY <1>1, <1>2, <1>3 DEF Requests
  <2>3. req'[t].at = "none"
    BY <1>1, <1>2, NoReqType DEF Purchased, Closed, Unawaited, TypeOK
  <2>4. QED  BY <1>4, <2>1, <2>2, <2>3 DEF ArrayChange
<1>8. overlap' = overlap /\ overlap \in BOOLEAN
  BY <1>1 DEF Purchased, TypeOK
<1>9. ~overlap => /\ SignedIn => mode.user = task[t].user
                  /\ req[t].balance = balance[userObj[task[t].user].id]
  BY <1>2, <1>3, Balanced
<1>10. CASE mode' = mode
  <2>1. /\ mode' \in ModeType /\ ModeArray({t}) /\ Means(mode.cls, mode.user)'
        /\ mode'.user = mode.user /\ (SignedIn' <=> SignedIn)
    BY <1>1, <1>5, <1>6, <1>10, SameModes, StaysThere
  <2>2. QED  BY <1>2, <1>5, <1>6, <1>7, <1>8, <1>9, <2>1, PageInvariant DEF Purchased
<1>11. CASE mode' = MadeBy(t)
  <2>1. /\ mode' \in ModeType /\ mode'.cls = "Purchases"
        /\ mode'.user = task[t].user /\ mode'.array = task[t].array
    BY <1>1, <1>11, MadeByFacts
  <2>2. ModeArray({t})
    BY <1>4, <2>1 DEF ModeArray
  <2>3. Means(mode.cls, mode.user)'
    BY <1>3, <1>5, <1>6, <2>1, StillMeant DEF Means
  <2>4. QED  BY <1>2, <1>5, <1>6, <1>7, <1>8, <1>9, <2>1, <2>2, <2>3, PageInvariant DEF Purchased
<1>12. QED  BY <1>10, <1>11 DEF Purchased, SetMode, KeepMode

LEMMA DepositedStep ==
  ASSUME IInv, NEW t \in Task, Deposited(t)
  PROVE  IInv'
<1>1. TypeOK /\ Views /\ Kinds /\ Requests
  BY DEF IInv
<1>2. /\ Awaits(t) /\ task[t].at = "deposit" /\ req[t].at = "answered"
      /\ req[t].call \in Money /\ req[t].balance \in Int
  BY <1>1 DEF Deposited, Replied, Requests, TypeOK, ReqType, Awaits, Call, Money
<1>3. task[t].cls \in SignedInClass
  BY <1>1, <1>2 DEF Kinds
<1>4. task[t].user \in Task
  BY <1>1, <1>2, <1>3, Sets DEF Views, Means, TypeOK, TaskType
<1>5. Ends({t})
  BY <1>1, <1>2, PageEnds DEF Deposited, KeepMode
<1>6. /\ SameUsers /\ userObj' \in [Task -> ObjType]
      /\ userObj'[task[t].user].balance = req[t].balance
      /\ userObj'[task[t].user].id = userObj[task[t].user].id
  BY <1>1, <1>2, <1>4, Rebalanced DEF Deposited
<1>7. /\ mode' \in ModeType /\ ModeArray({t}) /\ Means(mode.cls, mode.user)'
      /\ mode'.user = mode.user /\ (SignedIn' <=> SignedIn)
  BY <1>1, <1>5, <1>6, SameModes, StaysThere DEF Deposited, KeepMode
<1>8. ArrayChange({t}) /\ overlap' = overlap /\ overlap \in BOOLEAN
  BY <1>1 DEF ArrayChange, Deposited, TypeOK
<1>9. ~overlap => /\ SignedIn => mode.user = task[t].user
                  /\ req[t].balance = balance[userObj[task[t].user].id]
  BY <1>2, <1>3, Balanced
<1>10. QED  BY <1>2, <1>5, <1>6, <1>7, <1>8, <1>9, PageInvariant DEF Deposited

LEMMA AlreadySignedInStep ==
  ASSUME IInv, NEW t \in Task, AlreadySignedIn(t)
  PROVE  IInv'
<1>1. TypeOK /\ Requests
  BY DEF IInv
<1>2. /\ Awaits(t) /\ task[t].at = "info" /\ req[t].at = "answered" /\ req[t].call \notin Money
      /\ task[t].cls \in SignedInClass
  BY <1>1 DEF AlreadySignedIn, Replied, Requests, Money, Awaits, Call
<1>3. Ends({t})
  BY <1>1, <1>2, PageEnds DEF AlreadySignedIn, KeepMode
<1>4. /\ SameUsers /\ userObj' \in [Task -> ObjType] /\ ArrayChange({t})
      /\ overlap' = overlap /\ overlap \in BOOLEAN /\ userObj' = userObj
  BY <1>1 DEF AlreadySignedIn, TypeOK, SameUsers, ArrayChange
<1>5. mode' = mode \/ mode' = Failed(mode)
  BY DEF AlreadySignedIn, KeepMode, IfSelf
<1>6. /\ mode' \in ModeType /\ ModeArray({t}) /\ Means(mode.cls, mode.user)'
      /\ mode'.user = mode.user /\ (SignedIn' <=> SignedIn)
  BY <1>1, <1>3, <1>4, <1>5, SameModes, StaysThere
<1>7. ~overlap /\ SignedIn => userObj[mode.user].balance = balance[userObj[mode.user].id]
  BY <1>2, Balanced
<1>8. QED  BY <1>2, <1>3, <1>4, <1>6, <1>7, PageInvariant DEF AlreadySignedIn

LEMMA AccountDoneStep ==
  ASSUME IInv, NEW t \in Task, AccountDone(t)
  PROVE  IInv'
<1>1. TypeOK /\ Kinds /\ Requests /\ Arrays
  BY DEF IInv
<1>2. PICK at \in {"password", "card", "history"} :
        /\ Replied(t, at, "ok")
        /\ SetMode(NewMode(AccountPage[at], task[t].user, 0), Over(t))
  BY DEF AccountDone, AccountPage
<1>3. /\ Awaits(t) /\ req[t].at = "answered" /\ req[t].call \notin Money
      /\ task[t].cls \in SignedInClass
  BY <1>1, <1>2 DEF Replied, Requests, Kinds, Money, Awaits, Call
<1>4. Ends({t})
  BY <1>1, <1>2, <1>3, PageEnds DEF AccountDone, SetMode
<1>5. /\ SameUsers /\ userObj' \in [Task -> ObjType] /\ ArrayChange({t})
      /\ overlap' = overlap /\ overlap \in BOOLEAN /\ userObj' = userObj
  BY <1>1 DEF AccountDone, TypeOK, SameUsers, ArrayChange
<1>6. /\ AccountPage[at] \in Class /\ AccountPage[at] \in SignedInClass
      /\ AccountPage[at] \notin {"Purchases", "ManualPurchase"}
  BY DEF AccountPage, Class, Session, SignedInClass, Shopping, Account
<1>7. /\ mode' \in ModeType /\ mode'.cls = AccountPage[at] /\ mode'.user = task[t].user
      /\ mode'.array = 0
  <2>1. task[t].user \in UserObj
    BY <1>1 DEF TypeOK, TaskType
  <2>2. mode' = NewMode(AccountPage[at], task[t].user, 0)
    BY <1>2 DEF SetMode
  <2>3. QED  BY <1>6, <2>1, <2>2, NewModeType, Sets
<1>8. ModeArray({t})
  BY <1>6, <1>7 DEF ModeArray
<1>9. Means(mode.cls, mode.user)'
  BY <1>3, <1>4, <1>5, <1>7, StillMeant DEF Means
<1>10. ~overlap => userObj[task[t].user].balance = balance[userObj[task[t].user].id]
  BY <1>3, Balanced
<1>11. QED
  BY <1>3, <1>4, <1>5, <1>7, <1>8, <1>9, <1>10, PageInvariant DEF AccountDone

LEMMA CallFailedStep ==
  ASSUME IInv, NEW t \in Task, NEW timeout \in BOOLEAN, CallFailed(t, timeout)
  PROVE  IInv'
<1>1. TypeOK /\ Kinds /\ Requests /\ Arrays /\ Awaits(t)
  BY DEF IInv, CallFailed, Awaits
<1>2. timeout \/ (req[t].at = "answered" /\ req[t].call \notin Money)
  BY <1>1 DEF CallFailed, Requests
<1>3. \/ task[t].how = "menu" /\ SetMode(MadeBy(t), Over(t))
      \/ KeepMode(mode, Over(t)) \/ KeepMode(Failed(mode), Over(t))
      \/ \E e \in BOOLEAN : KeepMode([mode EXCEPT !.error = e], Over(t))
  <2>1. task[t].how \in {"scan", "price", "menu", "login", "button"}
    BY <1>1 DEF TypeOK, TaskType
  <2>2. (~ timeout) \in BOOLEAN
    OBVIOUS
  <2>3. CASE task[t].how = "menu"
    BY <2>3 DEF CallFailed
  <2>4. CASE task[t].how = "price"
    BY <2>4 DEF CallFailed, IfSelf
  <2>5. CASE task[t].how = "login"
    BY <2>2, <2>5 DEF CallFailed, IfSelf
  <2>6. CASE task[t].how = "scan"
    BY <2>6 DEF CallFailed
  <2>7. CASE task[t].how = "button"
    BY <2>7 DEF CallFailed
  <2>8. QED  BY <2>1, <2>3, <2>4, <2>5, <2>6, <2>7
<1>4. Ends({t})
  BY <1>1, <1>3, PageEnds DEF CallFailed, SetMode, KeepMode
<1>5. /\ SameUsers /\ userObj' \in [Task -> ObjType] /\ ArrayChange({t}) /\ userObj' = userObj
      /\ overlap' \in BOOLEAN /\ (overlap => overlap')
      /\ (~overlap' => ~overlap /\ ~timeout /\ req[t].at = "answered")
  BY <1>1, <1>2 DEF CallFailed, TypeOK, SameUsers, ArrayChange
<1>6. ~overlap' => /\ SignedIn => mode.user = task[t].user /\ task[t].cls \in SignedInClass
                   /\ task[t].cls \in SignedInClass
                        => userObj[task[t].user].balance = balance[userObj[task[t].user].id]
  BY <1>2, <1>5, Balanced
<1>7. CASE task[t].how = "menu" /\ mode' = MadeBy(t)
  <2>1. task[t].cls = "ManualPurchase" /\ task[t].cls \in SignedInClass
    BY <1>1, <1>7 DEF Kinds, SignedInClass, Shopping
  <2>2. /\ mode' \in ModeType /\ mode'.cls = "Purchases"
        /\ mode'.user = task[t].user /\ mode'.array = task[t].array
    BY <1>1, <1>7, MadeByFacts
  <2>3. task[t].array # 0
    BY <1>1, <2>1 DEF Arrays
  <2>4. ModeArray({t})
    BY <2>2, <2>3 DEF ModeArray
  <2>5. Means(mode.cls, mode.user)'
    BY <1>4, <1>5, <2>1, <2>2, StillMeant DEF Means
  <2>6. QED  BY <1>4, <1>5, <1>6, <2>1, <2>2, <2>4, <2>5, PageInvariant DEF CallFailed
<1>8. CASE mode' = mode \/ mode' = Failed(mode) \/ \E e \in BOOLEAN : mode' = [mode EXCEPT !.error = e]
  <2>1. PICK m : SameMode(m) /\ mode' = m
    BY <1>1, <1>8, SameModes
  <2>2. /\ mode' \in ModeType /\ ModeArray({t}) /\ Means(mode.cls, mode.user)'
        /\ mode'.user = mode.user /\ (SignedIn' <=> SignedIn)
    BY <1>4, <1>5, <2>1, StaysThere
  <2>3. QED  BY <1>4, <1>5, <1>6, <2>2, PageInvariant DEF CallFailed
<1>9. QED  BY <1>3, <1>7, <1>8 DEF SetMode, KeepMode

\* The item was found: task t goes on to its purchase, on array a.
LEMMA BeginPurchaseFacts ==
  ASSUME TypeOK, NEW t \in Task, BeginPurchase(t)
  PROVE  /\ task' \in [Task -> TaskType] /\ req' \in [Task -> ReqType]
         /\ task'[t].at = "purchase" /\ task'[t].how = task[t].how /\ task'[t].cls = task[t].cls
         /\ task'[t].user = task[t].user
         /\ task'[t].array = IF task[t].cls = "LoggedIn" THEN t ELSE task[t].array
         /\ req'[t].call = "purchase" /\ req'[t].at = "sent"
         /\ req'[t].user = Owner(task[t].user) /\ req'[t].asked = req[t].asked
         /\ \A x \in Task \ {t} : task'[x] = task[x] /\ req'[x] = req[x]
         /\ mode' = mode \/ mode' = Bumped(mode)
<1> DEFINE a == IF task[t].cls = "LoggedIn" THEN t ELSE task[t].array
           own == task[t].cls # "LoggedIn" /\ task[t].how # "menu"
           left == IF own THEN 0 ELSE SessionTicks
<1>1. task[t] \in TaskType /\ a \in Array /\ left \in 0 .. SessionTicks /\ task[t].arg \in Barcode
      /\ task[t].user \in UserObj
  BY Sets DEF TypeOK, TaskType
<1>2. /\ task' = [task EXCEPT ![t].at = "purchase", ![t].array = a, ![t].left = left]
      /\ Sent(t, "purchase", task[t].user, task[t].arg, req[t].asked)
      /\ mode' = mode \/ mode' = Bumped(mode)
  BY DEF BeginPurchase, KeepMode, IfSelf
<1> HIDE DEF a, left
<1>3. /\ task' \in [Task -> TaskType]
      /\ task'[t].at = "purchase" /\ task'[t].how = task[t].how /\ task'[t].cls = task[t].cls
      /\ task'[t].user = task[t].user /\ task'[t].array = a
      /\ \A x \in Task \ {t} : task'[x] = task[x]
  <2> DEFINE k == [task[t] EXCEPT !.at = "purchase", !.array = a, !.left = left]
  <2>1. /\ k \in TaskType /\ k.at = "purchase" /\ k.how = task[t].how /\ k.cls = task[t].cls
        /\ k.user = task[t].user /\ k.array = a
    BY <1>1 DEF TaskType, Call
  <2>2. task' = [task EXCEPT ![t] = k]
    BY <1>2 DEF TypeOK
  <2> HIDE DEF k
  <2>3. QED  BY <2>1, <2>2 DEF TypeOK
<1>4. Owner(task[t].user) \in User \cup {Nobody} /\ req[t].asked \in User \cup {Nobody}
  <2>1. task[t].user # 0 => userObj[task[t].user] \in ObjType
    BY <1>1, Sets DEF TypeOK
  <2>2. req[t] \in ReqType
    BY DEF TypeOK
  <2>3. QED  BY <2>1, <2>2 DEF Owner, ObjType, ReqType
<1> DEFINE sent == [NoReq EXCEPT !.call = "purchase", !.arg = task[t].arg, !.at = "sent",
                                 !.user = Owner(task[t].user), !.asked = req[t].asked]
<1>5. sent \in ReqType /\ sent.call = "purchase" /\ sent.at = "sent"
      /\ sent.user = Owner(task[t].user) /\ sent.asked = req[t].asked
  BY <1>1, <1>4, NoReqType DEF ReqType, Call
<1>6. req' = [req EXCEPT ![t] = sent]
  BY <1>2 DEF Sent
<1> HIDE DEF sent
<1>7. req' \in [Task -> ReqType] /\ req'[t] = sent /\ \A x \in Task \ {t} : req'[x] = req[x]
  BY <1>5, <1>6 DEF TypeOK
<1>8. QED  BY <1>2, <1>3, <1>5, <1>7 DEF a

LEMMA BeginPurchaseStep ==
  ASSUME IInv, NEW t \in Task, BeginPurchase(t)
  PROVE  IInv'
<1>1. TypeOK /\ Views /\ Kinds /\ Requests /\ Arrays /\ Exact /\ ChargedWhoAsked
  BY DEF IInv
<1> DEFINE a == IF task[t].cls = "LoggedIn" THEN t ELSE task[t].array
<1>2. /\ task' \in [Task -> TaskType] /\ req' \in [Task -> ReqType]
      /\ task'[t].at = "purchase" /\ task'[t].how = task[t].how /\ task'[t].cls = task[t].cls
      /\ task'[t].user = task[t].user /\ task'[t].array = a
      /\ req'[t].call = "purchase" /\ req'[t].at = "sent"
      /\ req'[t].user = Owner(task[t].user) /\ req'[t].asked = req[t].asked
      /\ \A x \in Task \ {t} : task'[x] = task[x] /\ req'[x] = req[x]
      /\ mode' = mode \/ mode' = Bumped(mode)
  BY <1>1, BeginPurchaseFacts
<1>3. /\ userObj' = userObj /\ array' = array /\ balance' = balance /\ tx' = tx /\ cards' = cards
      /\ idle' = idle /\ overlap' = overlap
  BY DEF BeginPurchase, dbVars
<1>4. /\ mode' \in ModeType /\ mode'.cls = mode.cls /\ mode'.user = mode.user
      /\ mode'.array = mode.array
  BY <1>1, <1>2, SameModes DEF SameMode
<1>5. /\ Awaits(t) /\ task[t].at = "info" /\ req[t].at = "answered" /\ req[t].call = "info"
      /\ req[t].reply = "item" /\ task[t].cls \in SignedInClass
  BY <1>1 DEF BeginPurchase, Replied, Requests, Awaits, Call
<1>6. task[t].cls \in Shopping
  BY <1>1, <1>5 DEF Kinds
<1>7. /\ task[t].user \in Task /\ task[task[t].user].at = "over"
      /\ userObj[task[t].user].id \in User /\ Owner(task[t].user) = userObj[task[t].user].id
      /\ req[t].asked = userObj[task[t].user].id
  BY <1>1, <1>5, Sets DEF Views, Means, Requests, TypeOK, TaskType, Owner
<1>8. /\ \A x \in Task : Awaits(x)' <=> Awaits(x)
      /\ \A x \in Task : task[x].at = "over" => x # t /\ task'[x].at = "over"
      /\ \A x \in Task : task'[x].at = "over" => x # t /\ task[x].at = "over"
      /\ \A x \in Task : task'[x].cls = task[x].cls /\ task'[x].user = task[x].user
                         /\ task'[x].how = task[x].how
  BY <1>2, <1>5 DEF Awaits, Call
<1>9. TypeOK'
  BY <1>1, <1>2, <1>3, <1>4 DEF TypeOK
<1>10. Views'
  <2>1. /\ mode.user # 0 => mode.user \in Task
        /\ \A x \in Task : task[x].user # 0 => task[x].user \in Task
    BY <1>1, Sets DEF TypeOK, ModeType, TaskType
  <2>2. QED  BY <1>1, <1>3, <1>4, <1>8, <2>1 DEF Views, Means
<1>11. Kinds'
  <2>1. task[t].how = "menu" => task[t].cls = "ManualPurchase"
    BY <1>1, <1>5 DEF Kinds
  <2>2. QED  BY <1>1, <1>2, <1>5, <1>6, <1>8, <2>1 DEF Kinds
<1>12. Requests'
  <2>1. ReqInv(t)'
    BY <1>2, <1>3, <1>7 DEF ReqInv, Money
  <2>2. \A x \in Task \ {t} : ReqInv(x)'
    <3>1. TAKE x \in Task \ {t}
    <3>2. ReqInv(x)
      BY <1>1 DEF Requests, ReqInv
    <3>3. QED  BY <1>2, <1>3, <1>8, <3>2 DEF ReqInv
  <2>3. \A x \in Task : ReqInv(x)'
    BY <2>1, <2>2
  <2>4. QED  BY <2>3 DEF Requests, ReqInv
<1>13. Arrays'
  <2>1. /\ array'[0] = {}
        /\ \A b \in Array : \A x \in array'[b] : task'[x].at = "over" /\ req'[x].at = "none"
        /\ \A x \in Task : task'[x].at # "over" => array'[x] = {}
    <3>1. \A b \in Array : \A x \in array[b] : x \in Task /\ x # t
      BY <1>1, <1>5 DEF TypeOK, Arrays
    <3>2. QED  BY <1>1, <1>2, <1>3, <1>8, <3>1 DEF Arrays
  <2>2. /\ mode'.cls \in {"Purchases", "ManualPurchase"} <=> mode'.array # 0
        /\ mode'.array \in Task => task'[mode'.array].at = "over"
        /\ mode'.array # 0 => Holds(mode.array, mode.user)'
    BY <1>1, <1>3, <1>4, <1>8 DEF Arrays, Holds
  <2>3. task[t].cls = "LoggedIn" => array'[t] = {}
    BY <1>1, <1>3, <1>5 DEF Arrays, Awaits, Call
  <2>4. task[t].cls = "LoggedIn" => \A x \in Task \ {t} : Awaits(x) => task[x].array # t
    <3>1. task[t].at # "over"
      BY <1>5
    <3>2. QED  BY <1>1, <3>1 DEF Arrays
  <2>5. task[t].cls = "LoggedIn" => mode.array # t
    BY <1>1, <1>5 DEF Arrays
  <2>6. ASSUME NEW x \in Task, Awaits(x)'
        PROVE  /\ task'[x].cls \in {"Purchases", "ManualPurchase"} => task'[x].array # 0
               /\ task'[x].cls = "LoggedIn" /\ task'[x].at = "purchase" => task'[x].array = x
               /\ task'[x].array \in Task /\ task'[x].array # x => task'[task'[x].array].at = "over"
               /\ task'[x].array # 0 =>
                    /\ task'[x].cls \in Shopping
                    /\ Holds(task[x].array, task[x].user)'
                    /\ mode'.array = task'[x].array => mode'.user = task'[x].user
                    /\ \A s \in Task : Awaits(s)' /\ task'[s].array = task'[x].array
                         => task'[s].user = task'[x].user
    <3>1. Awaits(x) /\ (x # t \/ task[t].cls # "LoggedIn" => task'[x].array = task[x].array)
      BY <1>2, <1>8, <2>6
    <3>2. /\ task[x].cls \in {"Purchases", "ManualPurchase"} => task[x].array # 0
          /\ task[x].cls = "LoggedIn" /\ task[x].at = "purchase" => task[x].array = x
          /\ task[x].array \in Task /\ task[x].array # x => task[task[x].array].at = "over"
          /\ task[x].array # 0 =>
               /\ task[x].cls \in Shopping
               /\ \A p \in array[task[x].array] : tx[p].user = userObj[task[x].user].id /\ tx[p].cents = -Price
               /\ mode.array = task[x].array => mode.user = task[x].user
               /\ \A s \in Task : Awaits(s) /\ task[s].array = task[x].array => task[s].user = task[x].user
      BY <1>1, <3>1 DEF Arrays, Holds
    <3>3. CASE x = t /\ task[t].cls = "LoggedIn"
      <4>1. task'[x].array = t
        BY <1>2, <3>3
      <4>2. \A s \in Task : Awaits(s)' /\ task'[s].array = t => s = t
        BY <1>2, <1>8, <2>4, <3>3
      <4>3. Holds(task[x].array, task[x].user)'
        BY <2>3, <3>3, <4>1 DEF Holds
      <4>4. QED  BY <1>4, <1>6, <1>8, <2>5, <3>3, <4>1, <4>2, <4>3
    <3>4. CASE ~(x = t /\ task[t].cls = "LoggedIn")
      <4>1. task'[x].array = task[x].array /\ (task'[x].at = task[x].at \/ task[x].cls # "LoggedIn")
        BY <1>2, <3>1, <3>4
      <4>2. task[x].array # 0 => Holds(task[x].array, task[x].user)'
        BY <1>3, <1>8, <3>2, <4>1 DEF Holds
      <4>3. task[x].array # 0 =>
              \A s \in Task : Awaits(s)' /\ task'[s].array = task[x].array => task'[s].user = task[x].user
        <5>1. ASSUME NEW s \in Task, Awaits(s)', task'[s].array = task[x].array, task[x].array # 0
              PROVE  task'[s].user = task[x].user
          <6>1. CASE s = t /\ task[t].cls = "LoggedIn"
            BY <1>2, <2>4, <3>1, <3>4, <5>1, <6>1
          <6>2. CASE ~(s = t /\ task[t].cls = "LoggedIn")
            BY <1>2, <1>8, <3>2, <5>1, <6>2
          <6>3. QED  BY <6>1, <6>2
        <5>2. QED  BY <5>1
      <4>4. QED  BY <1>4, <1>8, <3>2, <4>1, <4>2, <4>3
    <3>5. QED  BY <3>3, <3>4
  <2>7. QED  BY <2>1, <2>2, <2>6 DEF Arrays
<1>14. Exact'
  <2> SUFFICES ASSUME ~overlap' PROVE Exact'
    BY DEF Exact
  <2>1. /\ \A x, y \in InFlight : x = y
        /\ \A x \in InFlight : SignedIn => task[x].cls \in SignedInClass /\ mode.user = task[x].user
    BY <1>1, <1>3 DEF Exact
  <2>2. InFlight = {t} /\ InFlight' = {t}
    <3>1. t \in InFlight
      BY <1>5 DEF InFlight
    <3>2. InFlight = {t}
      BY <2>1, <3>1
    <3>3. QED  BY <1>2, <3>2 DEF InFlight
  <2>3. userObj[task[t].user].balance = balance[userObj[task[t].user].id]
    BY <1>3, <1>5, Balanced DEF Money
  <2>4. Awaits(t)'
    BY <1>5, <1>8
  <2>5. QED  BY <1>2, <1>3, <1>4, <1>8, <2>1, <2>2, <2>3, <2>4 DEF Exact, SignedIn
<1>15. ChargedWhoAsked'
  BY <1>1, <1>3 DEF ChargedWhoAsked
<1>16. QED  BY <1>9, <1>10, <1>11, <1>12, <1>13, <1>14, <1>15 DEF IInv

-----------------------------------------------------------------------------
(* The promise of Till.tla *)

\* An order is the request of a task: open from the scan of a customer or the
\* credited bill on, for who was on the screen, as long as its money may still
\* move; closed once it moved, or when neither page nor service comes back to
\* it.  So an ended task closes its order or leaves it as it is, the insert
\* charges it, and no step opens it again.
SameOrders == \A t \in Task : OrderOf(t)' = OrderOf(t) \/ OrderOf(t)' = Till!Closed

Shows ==
  /\ OnScreen \in User \cup {Nobody}
  /\ OnScreen = Nobody => array[mode.array] = {}
  /\ \A t \in array[mode.array] : t \in Task /\ tx[t].user = OnScreen /\ tx[t].cents = -Price

LEMMA ScreenShows == IInv => Shows
<1> SUFFICES ASSUME IInv PROVE Shows
  OBVIOUS
<1>1. TypeOK /\ mode.array \in Array
  BY DEF IInv, TypeOK, ModeType
<1>2. SignedIn => OnScreen = userObj[mode.user].id /\ OnScreen \in User
  BY DEF IInv, Views, Means, OnScreen, SignedIn, Owner
<1>3. CASE mode.array = 0
  BY <1>2, <1>3 DEF IInv, Arrays, Shows, OnScreen
<1>4. CASE mode.array # 0
  <2>1. SignedIn /\ Holds(mode.array, mode.user)
    BY <1>4 DEF IInv, Arrays, SignedIn, SignedInClass, Shopping
  <2>2. OnScreen # Nobody
    BY <1>2, <2>1, Constants
  <2>3. \A t \in array[mode.array] : t \in Task
    BY <1>1 DEF TypeOK
  <2>4. QED  BY <1>2, <2>1, <2>2, <2>3 DEF Holds, Shows
<1>5. QED  BY <1>3, <1>4

\* A step that moves no money and at most closes orders, wherever it leads.
LEMMA Turns ==
  ASSUME Shows', UNCHANGED <<tx, balance>>, SameOrders
  PROVE  Till!Turn
<1> DEFINE order == [t \in Task |-> OrderOf(t)]
           row == [t \in Task |-> [user |-> tx[t].user, cents |-> tx[t].cents]]
<1>1. order' = [t \in Task |-> IF order'[t] = Till!Closed THEN Till!Closed ELSE order[t]]
  BY DEF SameOrders
<1>2. \A t \in array'[mode'.array] : row[t] = [user |-> OnScreen', cents |-> -Price]
  BY DEF Shows
<1>3. row' = row /\ balance' = balance
  OBVIOUS
<1>4. OnScreen' \in User \cup {Nobody} /\ (OnScreen' = Nobody => array'[mode'.array] = {})
  BY DEF Shows
<1>5. QED  BY <1>1, <1>2, <1>3, <1>4 DEF Till!Turn

\* The tasks of E end: a write that the page gave up on is still open, and
\* everything else that ended is closed.
LEMMA EndsOrders ==
  ASSUME IInv, NEW E, Ends(E)
  PROVE  SameOrders
<1>1. TypeOK /\ Requests
  BY DEF IInv
<1>2. ASSUME NEW t \in Task, t \notin E
      PROVE  OrderOf(t)' = OrderOf(t)
  <2>1. task'[t].at = task[t].at /\ task'[t].cls = task[t].cls /\ req'[t] = req[t]
    BY <1>1, <1>2, EndsFacts DEF Ends
  <2>2. QED  BY <2>1 DEF OrderOf, MayCharge
<1>3. ASSUME NEW t \in E
      PROVE  OrderOf(t)' = OrderOf(t) \/ OrderOf(t)' = Till!Closed
  <2>1. t \in Task /\ Awaits(t) /\ task'[t].at = "over" /\ req[t].at # "none" /\ task[t].at # "free"
    BY <1>1 DEF Ends, Requests, Awaits, Call
  <2>2. CASE ~ MayCharge(t)'
    BY <2>1, <2>2 DEF OrderOf, Till!Closed, Till!New
  <2>3. CASE MayCharge(t)'
    <3>1. req'[t].call \in {"purchase", "deposit"} /\ req'[t].at \in {"sent", "read"}
      BY <2>1, <2>3 DEF MayCharge
    <3>2. req'[t] = req[t]
      BY <1>1, <3>1, EndsFacts, NoReqType
    <3>3. MayCharge(t)
      BY <3>1, <3>2 DEF MayCharge
    <3>4. QED  BY <2>1, <2>3, <3>2, <3>3 DEF OrderOf
  <2>4. QED  BY <2>2, <2>3
<1>4. QED  BY <1>2, <1>3 DEF SameOrders, Ends

\* An operation begins: a scan of a customer and a bill place an order, all
\* others are closed from the start.
LEMMA BeginTill ==
  ASSUME IInv, Shows', NEW m, SameMode(m), NEW at, NEW how, Starts(at, how), NEW arg \in Barcode,
         Begin(m, at, how, arg)
  PROVE  Till!Next
<1>1. TypeOK /\ Shows
  BY ScreenShows DEF IInv
<1>2. PICK b \in Task :
        /\ task[b].at = "free" /\ req[b].at = "none" /\ ~Awaits(b)
        /\ task' \in [Task -> TaskType] /\ req' \in [Task -> ReqType]
        /\ task'[b].at = at /\ task'[b].how = how /\ task'[b].cls = mode.cls
        /\ task'[b].user = mode.user /\ task'[b].array = mode.array
        /\ req'[b].call = at /\ req'[b].at = "sent"
        /\ req'[b].user = Owner(mode.user) /\ req'[b].asked = OnScreen
        /\ \A t \in Task \ {b} : task'[t] = task[t] /\ req'[t] = req[t]
  BY BeginFacts
<1>3. /\ mode'.cls = mode.cls /\ mode'.user = mode.user /\ mode'.array = mode.array
      /\ array' = array /\ userObj' = userObj /\ balance' = balance /\ tx' = tx
  BY DEF Begin, KeepMode, SameMode, dbVars
<1>4. OnScreen' = OnScreen
  BY <1>3 DEF OnScreen, SignedIn, Owner
<1>5. /\ OrderOf(b) = Till!New
      /\ \A t \in Task \ {b} : OrderOf(t)' = OrderOf(t)
  BY <1>2 DEF OrderOf, MayCharge, Till!New
<1>6. at \in Call /\ at # "purchase" /\ at # "free"
  BY DEF Starts, Call
<1>7. CASE mode.cls \in SignedInClass /\ at \in {"info", "deposit"}
  <2> DEFINE cents == IF at = "deposit" THEN Bill ELSE -Price
             order == [t \in Task |-> OrderOf(t)]
  <2>1. OnScreen # Nobody
    BY <1>7, Constants DEF IInv, Views, Means, OnScreen, SignedIn, Owner
  <2>2. OrderOf(b)' = Till!Open(OnScreen, cents)
    BY <1>2, <1>6, <1>7 DEF OrderOf, MayCharge, Till!Open
  <2>3. order' = [order EXCEPT ![b] = Till!Open(OnScreen, cents)]
    BY <1>5, <2>2
  <2>4. Till!Place(b, cents)
    BY <1>3, <1>4, <1>5, <2>1, <2>3 DEF Till!Place
  <2>5. QED  BY <2>4 DEF Till!Next
<1>8. CASE ~(mode.cls \in SignedInClass /\ at \in {"info", "deposit"})
  <2>1. at # "deposit"
    BY <1>8 DEF Starts
  <2>2. OrderOf(b)' = Till!Closed
    BY <1>2, <1>6, <1>8, <2>1 DEF OrderOf, MayCharge, Till!Closed, Till!New
  <2>3. SameOrders
    BY <1>5, <2>2 DEF SameOrders
  <2>4. QED  BY <1>3, <2>3, Turns DEF Till!Next
<1>9. QED  BY <1>7, <1>8

\* The row is inserted: the order is charged, whole, to who placed it.
LEMMA InsertTill ==
  ASSUME IInv, NEW t \in Task, ServeInsert(t)
  PROVE  Till!Charge(t)
<1> DEFINE order == [x \in Task |-> OrderOf(x)]
           row == [x \in Task |-> [user |-> tx[x].user, cents |-> tx[x].cents]]
           u == req[t].user
<1>1. TypeOK /\ Requests
  BY DEF IInv
<1>2. /\ req[t].at = "read" /\ req[t].call \in Money /\ task[t].at # "free"
      /\ u \in User /\ u = req[t].asked
  BY <1>1 DEF ServeInsert, Requests
<1>3. /\ order[t].state = "open" /\ order[t].by = u /\ order[t].cents = Cents(t)
  BY <1>2 DEF OrderOf, MayCharge, Cents, Money
<1>4. /\ \A x \in Task \ {t} : req'[x] = req[x]
      /\ task[t].at = "over" => req'[t] = NoReq
      /\ task[t].at # "over" => req'[t].call = req[t].call /\ req'[t].at = "answered"
  <2>1. Answered(t, "ok", Nobody, req[t].balance + Cents(t))
    BY DEF ServeInsert
  <2>2. req[t].balance + Cents(t) \in Int
    BY <1>1, Constants DEF TypeOK, ReqType, Cents
  <2>3. QED  BY <1>1, <2>1, <2>2, AnswerFacts
<1>5. mode' = mode /\ task' = task /\ userObj' = userObj /\ array' = array
  BY DEF ServeInsert, pageVars
<1>6. order' = [order EXCEPT ![t] = Till!Closed]
  <2>1. \A x \in Task \ {t} : OrderOf(x)' = OrderOf(x)
    BY <1>4, <1>5 DEF OrderOf, MayCharge
  <2>2. ~ MayCharge(t)'
    <3>1. task[t].at # "info"
      BY <1>1, <1>2 DEF Requests, Awaits, Money, Call
    <3>2. QED  BY <1>4, <1>5, <3>1, NoReqType DEF MayCharge
  <2>3. OrderOf(t)' = Till!Closed
    BY <1>2, <1>5, <2>2 DEF OrderOf, Till!Closed, Till!New
  <2>4. QED  BY <2>1, <2>3
<1>7. row' = [row EXCEPT ![t] = [user |-> u, cents |-> Cents(t)]]
  <2>1. tx' = [tx EXCEPT ![t] = [user |-> u, cents |-> Cents(t), asked |-> req[t].asked]]
    BY DEF ServeInsert
  <2>2. QED  BY <1>1, <2>1 DEF TypeOK
<1>8. balance' = [balance EXCEPT ![u] = @ + Cents(t)]
  BY DEF ServeInsert
<1>9. OnScreen' = OnScreen /\ array'[mode'.array] = array[mode.array]
  BY <1>5 DEF OnScreen, SignedIn, Owner
<1>10. QED  BY <1>3, <1>6, <1>7, <1>8, <1>9 DEF Till!Charge

\* Every other answer of the service moves no money.
LEMMA ServiceTill ==
  ASSUME IInv, Shows', NEW t \in Task, ServiceStep(t)
  PROVE  Till!Next
<1>1. TypeOK /\ Requests
  BY DEF IInv
<1>2. CASE ServeInsert(t)
  BY <1>2, InsertTill DEF Till!Next
<1>3. CASE ServeRead(t)
  <2>1. /\ req' = [req EXCEPT ![t].at = "read", ![t].balance = balance[req[t].user]]
        /\ task' = task /\ tx' = tx /\ balance' = balance /\ req[t].at = "sent"
    BY <1>3 DEF ServeRead, Serves, pageVars, dbVars
  <2>2. /\ req'[t].call = req[t].call /\ req'[t].asked = req[t].asked /\ req'[t].at = "read"
        /\ \A x \in Task \ {t} : req'[x] = req[x]
    BY <1>1, <2>1 DEF TypeOK, ReqType
  <2>3. \A x \in Task : OrderOf(x)' = OrderOf(x)
    BY <2>1, <2>2 DEF OrderOf, MayCharge
  <2>4. QED  BY <2>1, <2>3, Turns DEF SameOrders, Till!Next
<1>4. ASSUME ServeInfo(t) \/ ServeLogin(t) \/ ServeOther(t) \/ ServeCard(t)
      PROVE  Till!Next
  <2>1. /\ task' = task /\ tx' = tx /\ balance' = balance
        /\ req[t].at = "sent" /\ req[t].call \in {"info", "login", "password", "history", "card"}
    BY <1>4 DEF ServeInfo, ServeLogin, ServeOther, ServeCard, Serves, pageVars, dbVars
  <2>2. \E reply, id, bal : Answered(t, reply, id, bal)
    BY <1>4 DEF ServeInfo, ServeLogin, ServeOther, ServeCard
  <2>3. /\ \A x \in Task \ {t} : req'[x] = req[x]
        /\ \/ task[t].at = "over" /\ req'[t] = NoReq
           \/ req'[t].call = req[t].call /\ req'[t].asked = req[t].asked /\ task[t].at # "over"
    BY <1>1, <2>2 DEF Answered, TypeOK, ReqType
  <2>4. \A x \in Task : OrderOf(x)' = OrderOf(x)
    BY <2>1, <2>3, NoReqType DEF OrderOf, MayCharge
  <2>5. QED  BY <2>1, <2>4, Turns DEF SameOrders, Till!Next
<1>5. QED  BY <1>2, <1>3, <1>4 DEF ServiceStep

\* The page goes on after an await: to the purchase of the scanned item, with
\* the order as it was, or the task ends.
LEMMA PageTill ==
  ASSUME IInv, Shows', NEW t \in Task, PageStep(t)
  PROVE  Till!Next
<1>1. TypeOK /\ Requests
  BY DEF IInv
<1>2. tx' = tx /\ balance' = balance
  BY DEF PageStep, SignIn, PriceCheck, BeginPurchase, Purchased, Deposited, AlreadySignedIn,
     AccountDone, CallFailed, dbVars
<1>3. CASE BeginPurchase(t)
  <2>1. /\ task'[t].at = "purchase" /\ req'[t].call = "purchase" /\ req'[t].at = "sent"
        /\ req'[t].asked = req[t].asked
        /\ \A x \in Task \ {t} : task'[x] = task[x] /\ req'[x] = req[x]
    BY <1>1, <1>3, BeginPurchaseFacts
  <2>2. task[t].at = "info" /\ req[t].call = "info" /\ task[t].cls \in SignedInClass
    BY <1>1, <1>3 DEF BeginPurchase, Replied, Requests
  <2>3. OrderOf(t)' = OrderOf(t)
    BY <2>1, <2>2 DEF OrderOf, MayCharge
  <2>4. \A x \in Task \ {t} : OrderOf(x)' = OrderOf(x)
    BY <2>1 DEF OrderOf, MayCharge
  <2>5. QED  BY <1>2, <2>3, <2>4, Turns DEF SameOrders, Till!Next
<1>4. ASSUME Awaits(t), Closed(t), \E m : SetMode(m, Over(t)) \/ KeepMode(m, Over(t))
      PROVE  Till!Next
  <2>1. Ends({t})
    BY <1>1, <1>4, PageEnds DEF SetMode, KeepMode
  <2>2. QED  BY <1>2, <2>1, EndsOrders, Turns DEF Till!Next
<1>5. ASSUME \/ SignIn(t) \/ PriceCheck(t) \/ Purchased(t) \/ Deposited(t) \/ AlreadySignedIn(t)
             \/ AccountDone(t)
      PROVE  Awaits(t) /\ Closed(t) /\ \E m : SetMode(m, Over(t)) \/ KeepMode(m, Over(t))
  <2>1. Closed(t) /\ \E m : SetMode(m, Over(t)) \/ KeepMode(m, Over(t))
    BY <1>5 DEF SignIn, PriceCheck, Purchased, Deposited, AlreadySignedIn, AccountDone
  <2>2. req[t].at = "answered"
    BY <1>5 DEF SignIn, PriceCheck, Purchased, Deposited, AlreadySignedIn, AccountDone, Replied
  <2>3. QED  BY <1>1, <2>1, <2>2 DEF Requests
<1>6. ASSUME NEW timeout \in BOOLEAN, CallFailed(t, timeout)
      PROVE  Awaits(t) /\ Closed(t) /\ \E m : SetMode(m, Over(t)) \/ KeepMode(m, Over(t))
  <2>1. task[t].how \in {"scan", "price", "menu", "login", "button"}
    BY <1>1 DEF TypeOK, TaskType
  <2>2. CASE task[t].how = "menu"
    BY <1>6, <2>2 DEF CallFailed, Awaits
  <2>3. CASE task[t].how = "price"
    BY <1>6, <2>3 DEF CallFailed, Awaits
  <2>4. CASE task[t].how = "login"
    BY <1>6, <2>4 DEF CallFailed, Awaits
  <2>5. CASE task[t].how = "scan"
    BY <1>6, <2>5 DEF CallFailed, Awaits
  <2>6. CASE task[t].how = "button"
    BY <1>6, <2>6 DEF CallFailed, Awaits
  <2>7. QED  BY <2>1, <2>2, <2>3, <2>4, <2>5, <2>6
<1>7. QED  BY <1>3, <1>4, <1>5, <1>6 DEF PageStep

\* The user, the cash service and the clock of the page.
LEMMA UserTill ==
  ASSUME IInv, Shows', UserStep \/ CashStep \/ Tick \/ Refresh
  PROVE  Till!Next
<1>1. TypeOK
  BY DEF IInv
<1>2. ASSUME NEW E, Ends(E), tx' = tx, balance' = balance
      PROVE  Till!Next
  BY <1>2, EndsOrders, Turns DEF Till!Next
<1>3. CASE PlainStep
  <2>1. PICK m : /\ SameMode(m)
                 /\ \/ Only(m)
                    \/ \E at, how : \E arg \in Barcode : Starts(at, how) /\ Begin(m, at, how, arg)
    BY <1>3 DEF PlainStep
  <2>2. CASE Only(m)
    <3>1. Ends({}) /\ tx' = tx /\ balance' = balance
      BY <1>1, <2>2 DEF Ends, Only, dbVars, TypeOK
    <3>2. QED  BY <1>2, <3>1
  <2>3. QED  BY <2>1, <2>2, BeginTill
<1>4. ASSUME NEW cls \in Class, Press(cls)
      PROVE  Till!Next
  <2>1. Ends({}) /\ tx' = tx /\ balance' = balance
    BY <1>1, <1>4, PressEnds DEF Press, dbVars
  <2>2. QED  BY <1>2, <2>1
<1>5. CASE Tick
  <2>1. Ends({}) /\ tx' = tx /\ balance' = balance
    BY <1>1, <1>5, TickEnds DEF Tick, dbVars
  <2>2. QED  BY <1>2, <2>1
<1>6. CASE Refresh
  <2>1. Ends({t \in Task : Awaits(t)}) /\ tx' = tx /\ balance' = balance
    BY <1>1, <1>6, RefreshEnds DEF Refresh, dbVars
  <2>2. QED  BY <1>2, <2>1
<1>7. QED  BY <1>3, <1>4, <1>5, <1>6, UserForms

LEMMA InitTill ==
  ASSUME Init
  PROVE  Till!Init
<1>1. mode.cls = "Default" /\ mode.array = 0
  BY NewModeType, Sets DEF Init, Class
<1>2. OnScreen = Nobody
  BY <1>1 DEF OnScreen, SignedIn, SignedInClass, Shopping, Account
<1>3. array[mode.array] = {}
  BY <1>1, Sets DEF Init
<1>4. [t \in Task |-> OrderOf(t)] = [t \in Task |-> Till!New]
  BY DEF Init, FreeTask, OrderOf, Till!New
<1>5. [t \in Task |-> [user |-> tx[t].user, cents |-> tx[t].cents]] = [t \in Task |-> Till!NoRow]
  BY DEF Init, NoTx, Till!NoRow
<1>6. balance = [u \in User |-> 0]
  BY DEF Init
<1>7. QED  BY <1>2, <1>3, <1>4, <1>5, <1>6 DEF Till!Init

-----------------------------------------------------------------------------
(* The theorems *)

\* Together the invariants are inductive: every step of the page, its user, the
\* cash service's events and the inventory service preserves them.
THEOREM Inductive == Spec => []IInv
<1>1. IInv /\ [Next]_vars => IInv'
  <2> SUFFICES ASSUME IInv, [Next]_vars PROVE IInv'
    OBVIOUS
  <2>1. CASE UserStep \/ CashStep
    BY <2>1, UserSteps
  <2>2. CASE Tick
    BY <2>2, TickStep
  <2>3. CASE Refresh
    BY <2>3, RefreshStep
  <2>4. ASSUME NEW t \in Task, ServiceStep(t)
        PROVE  IInv'
    BY <2>4, ServiceSteps
  <2>5. ASSUME NEW t \in Task, PageStep(t)
        PROVE  IInv'
    BY <2>5, SignInStep, PriceCheckStep, BeginPurchaseStep, PurchasedStep, DepositedStep,
       AlreadySignedInStep, AccountDoneStep, CallFailedStep DEF PageStep
  <2>6. CASE UNCHANGED vars
    <3>1. Only(mode) /\ idle' = idle
      BY <2>6 DEF vars, Only, dbVars
    <3>2. SameMode(mode) /\ idle \in 0 .. SessionTicks
      BY SameModes DEF IInv, TypeOK
    <3>3. QED  BY <3>1, <3>2, OnlyStep
  <2>7. QED  BY <2>1, <2>2, <2>3, <2>4, <2>5, <2>6 DEF Next
<1>2. QED  BY <1>1, InitInvariant, PTL DEF Spec

\* Modes, tasks, requests, arrays and the tables keep their types.
THEOREM TypeCorrect == Spec => []TypeOK
<1>1. IInv => TypeOK
  BY DEF IInv
<1>2. QED  BY <1>1, Inductive, PTL

\* A purchase or a deposit goes to the account that was on the screen when it
\* was asked for, however many sessions came and went meanwhile.
THEOREM ChargesWhoAsked == Spec => []ChargedWhoAsked
<1>1. IInv => ChargedWhoAsked
  BY DEF IInv
<1>2. QED  BY <1>1, Inductive, PTL

\* What the Purchases page lists was charged to the user named above it.
THEOREM ShowsWhatWasCharged == Spec => []ShownIsCharged
<1>1. IInv => ShownIsCharged
  <2> SUFFICES ASSUME IInv PROVE ShownIsCharged
    OBVIOUS
  <2>1. CASE mode.array = 0
    BY <2>1 DEF IInv, Arrays, ShownIsCharged
  <2>2. CASE mode.array # 0
    <3>1. mode.cls \in SignedInClass /\ Holds(mode.array, mode.user)
      BY <2>2 DEF IInv, Arrays, SignedInClass, Shopping
    <3>2. OnScreen = userObj[mode.user].id
      BY <3>1 DEF IInv, Views, Means, OnScreen, SignedIn, Owner
    <3>3. QED  BY <3>1, <3>2 DEF Holds, ShownIsCharged
  <2>3. QED  BY <2>1, <2>2
<1>2. QED  BY <1>1, Inductive, PTL

\* As long as the calls came one after the other and all were answered, the
\* balance on the screen is the one of the ledger.
THEOREM BalanceExact == Spec => []BalanceIsExact
<1>1. IInv => BalanceIsExact
  <2> SUFFICES ASSUME IInv, SignedIn, ~overlap, InFlight = {}
               PROVE  userObj[mode.user].balance = balance[OnScreen]
    BY DEF BalanceIsExact
  <2>1. userObj[mode.user].balance = balance[userObj[mode.user].id]
    BY DEF IInv, Exact
  <2>2. OnScreen = userObj[mode.user].id
    BY DEF IInv, Views, Means, OnScreen, SignedIn, Owner
  <2>3. QED  BY <2>1, <2>2
<1>2. QED  BY <1>1, Inductive, PTL

\* A registered card never changes hands: the only step that writes the table
\* finds the barcode free and registers it at once.
THEOREM CardsKeepOwner == Spec => CardsStay
<1>1. IInv /\ [Next]_vars => [\A c \in Card : cards[c] # Nobody => cards'[c] = cards[c]]_cards
  <2> SUFFICES ASSUME IInv, [Next]_vars, NEW c \in Card, cards[c] # Nobody, cards' # cards
               PROVE  cards'[c] = cards[c]
    OBVIOUS
  <2>1. PICK t \in Task : ServeCard(t)
    <3>1. UserStep \/ CashStep => cards' = cards
      BY DEF UserStep, CashStep, Scan, SelectItem, AttemptLogin, SetPassword, ViewTransactions, Press,
         NfcScanError, Deposit, DepositPreflight, Begin, Only, dbVars
    <3>2. Tick \/ Refresh => cards' = cards
      BY DEF Tick, Refresh, dbVars
    <3>3. \A t \in Task : PageStep(t) => cards' = cards
      BY DEF PageStep, SignIn, PriceCheck, BeginPurchase, Purchased, Deposited, AlreadySignedIn,
         AccountDone, CallFailed, dbVars
    <3>4. \A t \in Task : ServiceStep(t) => cards' = cards \/ ServeCard(t)
      BY DEF ServiceStep, ServeInfo, ServeLogin, ServeOther, ServeRead, ServeInsert, dbVars
    <3>5. QED  BY <3>1, <3>2, <3>3, <3>4 DEF Next, vars
  <2>2. cards \in [Card -> User \cup {Nobody}]
    BY DEF IInv, TypeOK
  <2>3. c # req[t].arg
    BY <2>1 DEF ServeCard, Taken
  <2>4. QED  BY <2>1, <2>2, <2>3 DEF ServeCard
<1>2. QED  BY <1>1, Inductive, PTL DEF Spec, CardsStay

\* The page and the inventory service keep what Till.tla promises: each of their
\* steps places one order, charges one whole, to who placed it, or moves no money
\* and at most closes orders, whichever answers are late or lost.
THEOREM KeepsTill == Spec => ImplementsTill
<1>1. IInv => Shows
  BY ScreenShows
<1>2. IInv /\ Shows' /\ [Next]_vars => [Till!Next]_(Till!vars)
  <2> SUFFICES ASSUME IInv, Shows', [Next]_vars PROVE [Till!Next]_(Till!vars)
    OBVIOUS
  <2>1. CASE Next
    BY <2>1, UserTill, ServiceTill, PageTill DEF Next
  <2>2. CASE UNCHANGED vars
    <3>1. \A t \in Task : OrderOf(t)' = OrderOf(t)
      BY <2>2 DEF vars, OrderOf, MayCharge
    <3>2. QED  BY <2>2, <3>1, Turns DEF vars, SameOrders, Till!Next
  <2>3. QED  BY <2>1, <2>2
<1>3. QED  BY <1>1, <1>2, InitTill, Inductive, PTL DEF Spec, ImplementsTill, Till!Spec
=============================================================================
