------------------------ MODULE ScannerCamera_proofs ------------------------
(***************************************************************************)
(* Theorems about ScannerCamera for any number of sessions, pictures and   *)
(* codes, and any number of runs of startCamera that wait at once.         *)
(*                                                                         *)
(* The argument.  A stream that runs is the page's cameraStream of the     *)
(* present session, so whatever stops the streams stops it (CameraInv).    *)
(* The button is off only in the scan view, while the present session has  *)
(* a run or a loop (LockInv).  What may still be captured, by the loop or  *)
(* from the latest picture, was taken for the present work (WorkInv).      *)
(***************************************************************************)
EXTENDS ScannerCamera, TLAPS

Types ==
    /\ view \in {"scan", "details"} /\ work \in 0..MaxWork /\ session \in Nat /\ image \in Nat
    /\ captures \subseteq [code : Code \cup {None}, work : 0..MaxWork]
    /\ starts \subseteq [session : 1..session, pc : {"asked", "focus", "play"}]
    /\ decodes \subseteq [session : 1..image, work : Nat]
    /\ camera \in 0..session /\ preview \in 0..session
    /\ loop \in [session : Nat, work : Nat, candidate : Code \cup {None}]
    /\ locked \in BOOLEAN /\ review \in BOOLEAN
    /\ view = "details" => captures # {}

CameraInv == on # {} => on = {session} /\ camera = session /\ session # 0 /\ view = "scan"

LoopInv ==
    /\ loop # NoLoop => loop.session = session /\ session # 0 /\ view = "scan"
    /\ review => loop # NoLoop

LockInv == locked =>
    /\ view = "scan"
    /\ loop # NoLoop \/ \E s \in starts : s.session = session

WorkInv ==
    /\ loop # NoLoop => loop.work = work
    /\ \A d \in decodes : d.session = image => d.work = work
    /\ \A c \in captures : c.work = work

IInv == Types /\ CameraInv /\ LoopInv /\ LockInv /\ WorkInv

LEMMA InitInvariant == CameraAssumption /\ Init => IInv
<1> SUFFICES ASSUME CameraAssumption, Init  PROVE IInv
  OBVIOUS
<1>1. NoLoop \in [session : Nat, work : Nat, candidate : Code \cup {None}]
  BY DEF NoLoop
<1>2. 0 \in 0..MaxWork /\ 0 \in 0..0
  BY DEF CameraAssumption
<1>3. Types
  BY <1>1, <1>2 DEF Init, Types
<1>4. CameraInv /\ LoopInv /\ LockInv /\ WorkInv
  BY DEF Init, CameraInv, LoopInv, LockInv, WorkInv
<1>5. QED  BY <1>3, <1>4 DEF IInv

\* Every stop leaves the streams off, the loop gone and the session over.
LEMMA StopEnds ==
  ASSUME IInv, StopStreams
  PROVE  /\ on' = {} /\ camera' = 0 /\ preview' = 0 /\ loop' = NoLoop /\ review' = FALSE
         /\ session' = session + 1 /\ session' \in Nat
         /\ starts \subseteq [session : 1..session', pc : {"asked", "focus", "play"}]
         /\ CameraInv' /\ LoopInv'
         /\ loop' \in [session : Nat, work : Nat, candidate : Code \cup {None}]
<1>1. on' = {}
  BY DEF StopStreams, IInv, CameraInv
<1>2. /\ camera' = 0 /\ preview' = 0 /\ loop' = NoLoop /\ review' = FALSE
      /\ session' = session + 1 /\ session' \in Nat
  BY DEF StopStreams, IInv, Types
<1>3. starts \subseteq [session : 1..session', pc : {"asked", "focus", "play"}]
  BY <1>2 DEF IInv, Types
<1>4. NoLoop \in [session : Nat, work : Nat, candidate : Code \cup {None}]
  BY DEF NoLoop
<1>5. QED  BY <1>1, <1>2, <1>3, <1>4 DEF CameraInv, LoopInv

\* Pictures being decoded, as they are.
LEMMA Pictures ==
  ASSUME IInv
  PROVE  /\ image \in Nat /\ image <= image
         /\ decodes \subseteq [session : 1..image, work : Nat]
         /\ \A d \in decodes : d.session = image => d.work = work
         /\ captures \subseteq [code : Code \cup {None}, work : 0..MaxWork]
         /\ \A c \in captures : c.work = work
         /\ view \in {"scan", "details"} /\ (view = "details" => captures # {})
         /\ work \in 0..MaxWork
  BY DEF IInv, Types, WorkInv

\* A stop, perhaps with captures of the present work and a change of view.
LEMMA StopStep ==
  ASSUME CameraAssumption, IInv, StopCamera, UNCHANGED work,
         view' \in {"scan", "details"}, view' = "details" => captures' # {},
         captures' \subseteq [code : Code \cup {None}, work : 0..MaxWork],
         \A c \in captures' : c.work = work,
         starts' \subseteq starts,
         image' \in Nat, image <= image', 
         decodes' \subseteq [session : 1..image', work : Nat],
         \A d \in decodes' : d.session = image' => d.work = work
  PROVE  IInv'
<1>1. StopStreams /\ locked' = FALSE
  BY DEF StopCamera
<1>2. Types'
  <2>1. camera' \in 0..session' /\ preview' \in 0..session'
    BY <1>1, StopEnds
  <2>2. starts' \subseteq [session : 1..session', pc : {"asked", "focus", "play"}]
    BY <1>1, StopEnds
  <2>3. work' \in 0..MaxWork
    BY Pictures
  <2>4. QED  BY <1>1, <2>1, <2>2, <2>3, StopEnds DEF Types
<1>3. QED
  BY <1>1, <1>2, StopEnds DEF IInv, LockInv, WorkInv

LEMMA CaptureKeeps ==
  ASSUME IInv, NEW c \in Code \cup {None}, NEW w, w = work, Capture(c, w)
  PROVE  /\ captures' \subseteq [code : Code \cup {None}, work : 0..MaxWork]
         /\ \A d \in captures' : d.work = work
         /\ captures' # {}
<1>1. captures' = captures \cup {[code |-> c, work |-> work]}
  BY DEF Capture
<1>2. [code |-> c, work |-> work] \in [code : Code \cup {None}, work : 0..MaxWork]
  BY Pictures
<1>3. captures' \subseteq [code : Code \cup {None}, work : 0..MaxWork]
  BY <1>1, <1>2, Pictures
<1>4. \A d \in captures' : d.work = work
  BY <1>1, Pictures
<1>5. QED  BY <1>1, <1>3, <1>4

-----------------------------------------------------------------------------
(* Steps of startCamera *)

LEMMA StartStep ==
  ASSUME CameraAssumption, IInv, StartCamera
  PROVE  IInv'
<1>1. StopStreams
  BY DEF StartCamera
<1>2. starts' = starts \cup {[session |-> session', pc |-> "asked"]}
  BY DEF StartCamera, Asked
<1>3. starts' \subseteq [session : 1..session', pc : {"asked", "focus", "play"}]
  <2>1. /\ session' \in 1..session'
        /\ starts \subseteq [session : 1..session', pc : {"asked", "focus", "play"}]
    <3>1. session \in Nat /\ session' = session + 1
      BY <1>1, StopEnds DEF IInv, Types
    <3>2. session' \in 1..session'
      BY <3>1
    <3>3. QED  BY <1>1, <3>2, StopEnds
  <2>2. [session |-> session', pc |-> "asked"] \in [session : 1..session', pc : {"asked", "focus", "play"}]
    BY <2>1
  <2>3. QED  BY <1>2, <2>1, <2>2
<1>4. image' = image + 1 /\ decodes' = decodes /\ view' = view /\ view = "scan"
      /\ captures' = captures /\ work' = work /\ locked' = TRUE
  BY DEF StartCamera
<1>5. decodes' \subseteq [session : 1..image', work : Nat] /\ \A d \in decodes' : d.session # image'
  BY <1>4 DEF IInv, Types
<1>6. Types'
  <2>1. camera' \in 0..session' /\ preview' \in 0..session'
    BY <1>1, StopEnds
  <2>2. image' \in Nat
    BY <1>4 DEF IInv, Types
  <2>3. QED  BY <1>1, <1>3, <1>4, <1>5, <2>1, <2>2, StopEnds, Pictures DEF Types
<1>7. LockInv' /\ WorkInv'
  <2>1. [session |-> session', pc |-> "asked"] \in starts'
    BY <1>2
  <2>2. LockInv'
    BY <1>4, <2>1 DEF LockInv
  <2>3. WorkInv'
    BY <1>1, <1>4, <1>5, StopEnds, Pictures DEF WorkInv
  <2>4. QED  BY <2>2, <2>3
<1>8. QED  BY <1>1, <1>6, <1>7, StopEnds DEF IInv

LEMMA GotStep ==
  ASSUME IInv, NEW s \in starts, GotStream(s)
  PROVE  IInv'
<1>1. UNCHANGED <<view, captures, work, session, preview, loop, review, locked, image, decodes>>
  BY DEF GotStream
<1>2. s.session \in 1..session /\ s.pc = "asked"
  BY DEF GotStream, IInv, Types
<1>3. CASE Stale(s)
  <2>1. starts' = starts \ {s} /\ on' = on /\ camera' = camera
    BY <1>3 DEF GotStream, Kept
  <2>2. LockInv'
    BY <1>1, <1>3, <2>1 DEF IInv, LockInv, Stale
  <2>3. QED
    BY <1>1, <2>1, <2>2 DEF IInv, Types, CameraInv, LoopInv, WorkInv
<1>4. CASE ~ Stale(s)
  <2> DEFINE f == [s EXCEPT !.pc = "focus"]
  <2>1. /\ on' = on \cup {s.session} /\ camera' = s.session
        /\ starts' = (starts \ {s}) \cup {f}
    BY <1>4 DEF GotStream, Kept
  <2>2. s.session = session /\ view = "scan"
    BY <1>4 DEF Stale
  <2>3. f \in [session : 1..session, pc : {"asked", "focus", "play"}] /\ f.session = session
    BY <2>2 DEF IInv, Types
  <2> HIDE DEF f
  <2>4. CameraInv'
    BY <1>1, <1>2, <2>1, <2>2 DEF IInv, CameraInv
  <2>5. LockInv'
    BY <1>1, <2>1, <2>2, <2>3 DEF IInv, LockInv
  <2>6. Types'
    BY <1>1, <1>2, <2>1, <2>3 DEF IInv, Types
  <2>7. QED  BY <1>1, <2>4, <2>5, <2>6 DEF IInv, LoopInv, WorkInv
<1>5. QED  BY <1>3, <1>4

LEMMA FocusStep ==
  ASSUME IInv, NEW s \in starts, Focused(s)
  PROVE  IInv'
<1> DEFINE f == [s EXCEPT !.pc = "play"]
<1>1. UNCHANGED <<view, captures, work, session, on, camera, loop, review, locked, image, decodes>>
      /\ preview' = s.session /\ starts' = (starts \ {s}) \cup {f}
  BY DEF Focused
<1>2. /\ s.session \in 1..session /\ f.session = s.session
      /\ f \in [session : 1..session, pc : {"asked", "focus", "play"}]
  BY DEF IInv, Types
<1> HIDE DEF f
<1>3. LockInv'
  BY <1>1, <1>2 DEF IInv, LockInv
<1>4. Types'
  BY <1>1, <1>2 DEF IInv, Types
<1>5. QED  BY <1>1, <1>3, <1>4 DEF IInv, CameraInv, LoopInv, WorkInv

LEMMA PlayStep ==
  ASSUME IInv, NEW s \in starts, Played(s)
  PROVE  IInv'
<1>1. UNCHANGED <<view, captures, work, session, camera, preview, review, locked, image, decodes>>
      /\ starts' = starts \ {s}
  BY DEF Played
<1>2. s.session \in 1..session
  BY DEF IInv, Types
<1>3. CASE Stale(s)
  <2>1. on' = on \ {s.session} /\ loop' = loop
    BY <1>3 DEF Played
  <2>2. LockInv'
    BY <1>1, <1>3, <2>1 DEF IInv, LockInv, Stale
  <2>3. QED  BY <1>1, <2>1, <2>2 DEF IInv, Types, CameraInv, LoopInv, WorkInv
<1>4. CASE ~ Stale(s)
  <2>1. on' = on /\ loop' = [session |-> session, work |-> work, candidate |-> None]
    BY <1>4 DEF Played
  <2>2. session \in Nat /\ session # 0 /\ view = "scan" /\ work \in Nat
    BY <1>2, <1>4 DEF Stale, IInv, Types
  <2>3. loop' # NoLoop /\ loop'.session = session /\ loop'.work = work
        /\ loop' \in [session : Nat, work : Nat, candidate : Code \cup {None}]
    BY <2>1, <2>2 DEF NoLoop
  <2>4. Types'
    BY <1>1, <2>3 DEF IInv, Types
  <2>5. QED
    BY <1>1, <2>1, <2>2, <2>3, <2>4 DEF IInv, CameraInv, LoopInv, LockInv, WorkInv
<1>5. QED  BY <1>3, <1>4

LEMMA FailStep ==
  ASSUME CameraAssumption, IInv, NEW s \in starts, StartFailed(s)
  PROVE  IInv'
<1>1. UNCHANGED <<view, captures, work, image, decodes>> /\ starts' = starts \ {s}
  BY DEF StartFailed
<1>2. CASE s.session = session
  <2>1. StopCamera
    BY <1>2 DEF StartFailed, GaveUp
  <2>2. QED  BY <1>1, <2>1, StopStep, Pictures
<1>3. CASE s.session # session
  <2>1. UNCHANGED <<session, on, camera, preview, loop, review, locked>>
    BY <1>3 DEF StartFailed, GaveUp, scan
  <2>2. QED
    BY <1>1, <1>3, <2>1 DEF IInv, Types, CameraInv, LoopInv, LockInv, WorkInv
<1>4. QED  BY <1>2, <1>3

-----------------------------------------------------------------------------
(* The other steps *)

LEMMA TrackStep ==
  ASSUME CameraAssumption, IInv, NEW st \in on, TrackEnded(st)
  PROVE  IInv'
<1>1. UNCHANGED <<view, captures, work, starts, image, decodes>>
  BY DEF TrackEnded
<1>2. CASE StopCamera
  BY <1>1, <1>2, StopStep, Pictures
<1>3. CASE on' = on \ {st} /\ UNCHANGED <<session, camera, preview, loop, review, locked>>
  BY <1>1, <1>3 DEF IInv, Types, CameraInv, LoopInv, LockInv, WorkInv
<1>4. QED  BY <1>2, <1>3 DEF TrackEnded

LEMMA FrameStep ==
  ASSUME IInv, NEW c \in Code \cup {None}, Frame(c)
  PROVE  IInv'
<1>1. /\ UNCHANGED <<view, work, session, on, camera, preview, locked, starts, image, decodes>>
      /\ loop # NoLoop /\ loop.session = session /\ view = "scan" /\ loop.work = work
  BY DEF Frame, IInv, WorkInv
<1>2. /\ session # 0
      /\ loop \in [session : Nat, work : Nat, candidate : Code \cup {None}]
  BY <1>1 DEF IInv, LoopInv, Types
<1>3. \A d \in Code \cup {None} :
        LET l == [loop EXCEPT !.candidate = d]
        IN /\ l # NoLoop /\ l.session = session /\ l.work = work
           /\ l \in [session : Nat, work : Nat, candidate : Code \cup {None}]
  BY <1>1, <1>2 DEF NoLoop
<1>4. \E d \in Code \cup {None} : loop' = [loop EXCEPT !.candidate = d]
  BY DEF Frame
<1>5. /\ loop' # NoLoop /\ loop'.session = session /\ loop'.work = work
      /\ loop' \in [session : Nat, work : Nat, candidate : Code \cup {None}]
  BY <1>3, <1>4
<1>6. /\ captures' \subseteq [code : Code \cup {None}, work : 0..MaxWork]
      /\ \A d \in captures' : d.work = work
      /\ review' \in BOOLEAN
  <2>1. CASE Capture(c, loop.work) /\ review' = TRUE
    BY <1>1, <2>1, CaptureKeeps
  <2>2. CASE UNCHANGED <<captures, review>>
    BY <2>2 DEF IInv, Types, WorkInv
  <2>3. QED  BY <2>1, <2>2 DEF Frame
<1>7. Types'
  BY <1>1, <1>5, <1>6 DEF IInv, Types
<1>8. QED
  BY <1>1, <1>2, <1>5, <1>6, <1>7 DEF IInv, CameraInv, LoopInv, LockInv, WorkInv

LEMMA NewScanStep ==
  ASSUME CameraAssumption, IInv, NEW again \in BOOLEAN, work < MaxWork,
         StartNewScan(again), UNCHANGED decodes
  PROVE  IInv'
<1>1. /\ StopStreams /\ image' = image + 1 /\ captures' = {} /\ work' = work + 1
      /\ view' = "scan" /\ locked' = again /\ decodes' = decodes
  BY DEF StartNewScan
<1>2. starts' = IF again THEN starts \cup {[session |-> session', pc |-> "asked"]} ELSE starts
  BY DEF StartNewScan, Asked
<1>3. starts' \subseteq [session : 1..session', pc : {"asked", "focus", "play"}]
  <2>1. /\ session' \in 1..session'
        /\ starts \subseteq [session : 1..session', pc : {"asked", "focus", "play"}]
    <3>1. session \in Nat /\ session' = session + 1
      BY <1>1, StopEnds DEF IInv, Types
    <3>2. session' \in 1..session'
      BY <3>1
    <3>3. QED  BY <1>1, <3>2, StopEnds
  <2>2. [session |-> session', pc |-> "asked"] \in [session : 1..session', pc : {"asked", "focus", "play"}]
    BY <2>1
  <2>3. QED  BY <1>2, <2>1, <2>2
<1>4. decodes' \subseteq [session : 1..image', work : Nat] /\ \A d \in decodes' : d.session # image'
  BY <1>1 DEF IInv, Types
<1>5. work' \in 0..MaxWork
  BY <1>1 DEF CameraAssumption, IInv, Types
<1>6. Types'
  <2>1. camera' \in 0..session' /\ preview' \in 0..session'
    BY <1>1, StopEnds
  <2>2. image' \in Nat
    BY <1>1 DEF IInv, Types
  <2>3. QED  BY <1>1, <1>3, <1>4, <1>5, <2>1, <2>2, StopEnds, Pictures DEF Types
<1>7. LockInv' /\ WorkInv'
  <2>1. again => [session |-> session', pc |-> "asked"] \in starts'
    BY <1>2
  <2>2. LockInv'
    BY <1>1, <2>1 DEF LockInv
  <2>3. WorkInv'
    BY <1>1, <1>4, StopEnds DEF WorkInv
  <2>4. QED  BY <2>2, <2>3
<1>8. QED  BY <1>1, <1>6, <1>7, StopEnds DEF IInv

LEMMA NextInvariant ==
  ASSUME CameraAssumption, IInv, [Next]_vars
  PROVE  IInv'
<1>1. CASE UNCHANGED vars
  BY <1>1 DEF vars, scan, IInv, Types, CameraInv, LoopInv, LockInv, WorkInv
<1>2. CASE StartCamera
  BY <1>2, StartStep
<1>3. CASE Stop
  BY <1>3, StopStep, Pictures DEF Stop
<1>4. CASE Review
  <2>1. UNCHANGED <<captures, work, starts, image, decodes>>
    BY <1>4 DEF Review
  <2>2. CASE captures # {}
    BY <1>4, <2>1, <2>2, StopStep, Pictures DEF Review, ShowDetails
  <2>3. CASE captures = {}
    <3>1. review' = FALSE /\ UNCHANGED <<view, session, on, camera, preview, loop, locked>>
      BY <1>4, <2>3 DEF Review
    <3>2. QED  BY <2>1, <3>1 DEF IInv, Types, CameraInv, LoopInv, LockInv, WorkInv
  <2>4. QED  BY <2>2, <2>3
<1>5. CASE PickImage
  <2>1. /\ image' = image + 1
        /\ decodes' = decodes \cup {[session |-> image + 1, work |-> work]}
        /\ StopCamera /\ UNCHANGED <<view, captures, work, starts>>
    BY <1>5 DEF PickImage
  <2>2. /\ image' \in Nat /\ image <= image'
        /\ decodes' \subseteq [session : 1..image', work : Nat]
        /\ \A d \in decodes' : d.session = image' => d.work = work
    BY <2>1 DEF IInv, Types
  <2>3. QED  BY <2>1, <2>2, StopStep, Pictures
<1>6. CASE ScanMore \/ StartOver
  BY <1>6, NewScanStep DEF ScanMore, StartOver
<1>7. ASSUME NEW s \in starts, GotStream(s) \/ Focused(s) \/ Played(s) \/ StartFailed(s)
      PROVE  IInv'
  BY <1>7, GotStep, FocusStep, PlayStep, FailStep
<1>8. ASSUME NEW st \in on, TrackEnded(st)  PROVE IInv'
  BY <1>8, TrackStep
<1>9. ASSUME NEW c \in Code \cup {None}, Frame(c)  PROVE IInv'
  BY <1>9, FrameStep
<1>10. ASSUME NEW c \in Code \cup {None}, Manual(c)  PROVE IInv'
  <2>1. Capture(c, work) /\ StopCamera /\ view' = "details"
        /\ UNCHANGED <<work, starts, image, decodes>>
    BY <1>10 DEF Manual, ShowDetails
  <2>2. QED  BY <2>1, CaptureKeeps, StopStep, Pictures
<1>11. ASSUME NEW d \in decodes, NEW c \in Code \cup {None}, Decoded(d, c)  PROVE IInv'
  <2>1. decodes' = decodes \ {d} /\ UNCHANGED <<work, starts, image>>
    BY <1>11 DEF Decoded
  <2>2. /\ decodes' \subseteq [session : 1..image', work : Nat]
        /\ \A e \in decodes' : e.session = image' => e.work = work
    BY <2>1, Pictures
  <2>3. CASE d.session = image /\ Capture(c, d.work) /\ ShowDetails
    <3>1. d.work = work
      BY <2>3, Pictures
    <3>2. QED  BY <2>1, <2>2, <2>3, <3>1, CaptureKeeps, StopStep, Pictures DEF ShowDetails
  <2>4. CASE UNCHANGED <<view, captures, scan>>
    BY <2>1, <2>2, <2>4 DEF scan, IInv, Types, CameraInv, LoopInv, LockInv, WorkInv
  <2>5. QED  BY <1>11, <2>3, <2>4 DEF Decoded
<1>12. QED
  BY <1>1, <1>2, <1>3, <1>4, <1>5, <1>6, <1>7, <1>8, <1>9, <1>10, <1>11 DEF Next

-----------------------------------------------------------------------------
(* Theorems *)

\* The inductive invariant holds in every reachable state.
THEOREM Inductive == ASSUME CameraAssumption PROVE Spec => []IInv
<1>1. Init => IInv
  BY InitInvariant
<1>2. IInv /\ [Next]_vars => IInv'
  BY NextInvariant
<1>3. QED  BY <1>1, <1>2, PTL DEF Spec

\* The types of the page's variables; a loop only runs in the scan view.
THEOREM TypeCorrect == ASSUME CameraAssumption PROVE Spec => []TypeOK
<1>1. IInv => TypeOK
  <2> SUFFICES ASSUME IInv  PROVE TypeOK
    OBVIOUS
  <2>1. on \subseteq 1..session
    <3>1. session # 0 => session \in 1..session
      BY DEF IInv, Types
    <3>2. QED  BY <3>1 DEF IInv, CameraInv
  <2>2. QED  BY <2>1 DEF IInv, Types, LoopInv, TypeOK
<1>2. QED  BY <1>1, Inductive, PTL

\* Whatever was stopped, left or started again while startCamera waited: a
\* stream that runs is that of the present session, in the scan view, and the
\* camera's button comes back from every start, stop and restart.
THEOREM CameraComesBack == ASSUME CameraAssumption PROVE Spec => []CameraGivenBack
<1>1. IInv => CameraReleased
  BY DEF IInv, CameraInv, CameraReleased
<1>2. IInv => NeverLockedOut
  BY DEF IInv, LockInv, NeverLockedOut
<1>3. IInv => CameraGivenBack
  BY <1>1, <1>2 DEF CameraGivenBack
<1>4. QED  BY <1>3, Inductive, PTL

\* Nothing that was scanned for work that was thrown away turns up later.
THEOREM CapturesAreOfNow == ASSUME CameraAssumption PROVE Spec => []NothingFromBefore
<1>1. IInv => NothingFromBefore
  BY DEF IInv, WorkInv, NothingFromBefore
<1>2. QED  BY <1>1, Inductive, PTL
=============================================================================
