----------------------------- MODULE ScannerCamera -----------------------------
(***************************************************************************)
(* The scanner page, admin-web/static/app.js (and inventory-v2's, which is *)
(* the same here): its camera, its pictures and its two views.             *)
(*                                                                         *)
(* startCamera waits for the browser three times; meanwhile the camera may *)
(* be stopped, an image picked, the view changed or the camera started     *)
(* again.  Every stop begins a new session, and a handler of an earlier    *)
(* session has to give up what it was given.  A stream is named by the     *)
(* session that asked for it.                                              *)
(***************************************************************************)
EXTENDS Naturals

CONSTANTS Code, MaxSession, MaxImage, MaxWork, None

\* What the constants have to be.
CameraAssumption ==
    /\ MaxSession \in Nat /\ MaxImage \in Nat /\ MaxWork \in Nat /\ None \notin Code

VARIABLES view,     \* currentView
          captures, \* history with a code: the work its picture was taken for
          work,     \* history: how often the captures were cleared
          session,  \* cameraSession
          starts,   \* the runs of startCamera that wait: for what, and in which session
          on,       \* streams with a running track
          camera,   \* cameraStream (0: none)
          preview,  \* srcObject of the preview (0: none)
          loop,     \* the timer of the next frame, with what the loop has seen
          review,   \* autoReviewTimer
          locked,   \* the camera button is disabled
          image,    \* imageDecodeSession
          decodes   \* pictures being decoded

scan == <<session, on, camera, preview, loop, review, locked>>
vars == <<view, captures, work, scan, starts, image, decodes>>

NoLoop == [session |-> 0, work |-> 0, candidate |-> None]

Init ==
    /\ view = "scan" /\ captures = {} /\ work = 0
    /\ session = 0 /\ on = {} /\ camera = 0 /\ preview = 0 /\ loop = NoLoop /\ review = FALSE
    /\ locked = FALSE
    /\ starts = {} /\ image = 0 /\ decodes = {}

\* What every stop does, but for the button.
StopStreams ==
    /\ session' = session + 1
    /\ on' = on \ {camera, preview} /\ camera' = 0 /\ preview' = 0
    /\ loop' = NoLoop /\ review' = FALSE

StopCamera == StopStreams /\ locked' = FALSE

\* showDetailsView, with at least one capture.
ShowDetails == view' = "details" /\ StopCamera

Captured(c) == \E d \in captures : d.code = c
Capture(c, w) == captures' = captures \cup {[code |-> c, work |-> w]}

----------------------------------------------------------------------------
(* The camera. *)

Asked == [session |-> session', pc |-> "asked"]

StartCamera ==
    /\ view = "scan" /\ ~locked /\ session < MaxSession
    /\ StopStreams /\ locked' = TRUE
    /\ image' = image + 1
    /\ starts' = starts \cup {Asked}
    /\ UNCHANGED <<view, captures, work, decodes>>

Stale(s) == s.session # session \/ view # "scan"

\* Mutant of Kept: the session is not checked when the stream is there.
KeptAlways(s) ==
    /\ on' = on \cup {s.session} /\ camera' = s.session
    /\ starts' = (starts \ {s}) \cup {[s EXCEPT !.pc = "focus"]}

Kept(s) ==
    IF Stale(s)
    THEN starts' = starts \ {s} /\ UNCHANGED <<on, camera>>
    ELSE /\ on' = on \cup {s.session} /\ camera' = s.session
         /\ starts' = (starts \ {s}) \cup {[s EXCEPT !.pc = "focus"]}

\* getUserMedia: the stream of an earlier session is stopped at once.
GotStream(s) ==
    /\ s.pc = "asked"
    /\ Kept(s)
    /\ UNCHANGED <<view, captures, work, session, preview, loop, review, locked, image, decodes>>

\* applyConstraints is over; the preview gets the stream without another check.
Focused(s) ==
    /\ s.pc = "focus"
    /\ preview' = s.session
    /\ starts' = (starts \ {s}) \cup {[s EXCEPT !.pc = "play"]}
    /\ UNCHANGED <<view, captures, work, session, on, camera, loop, review, locked, image, decodes>>

Played(s) ==
    /\ s.pc = "play"
    /\ starts' = starts \ {s}
    /\ IF Stale(s) THEN on' = on \ {s.session} /\ loop' = loop
                   ELSE on' = on /\ loop' = [session |-> session, work |-> work, candidate |-> None]
    /\ UNCHANGED <<view, captures, work, session, camera, preview, review, locked, image, decodes>>

GaveUp(s) == IF s.session = session THEN StopCamera ELSE UNCHANGED scan

\* getUserMedia or play fails.
StartFailed(s) ==
    /\ s.pc # "focus"
    /\ starts' = starts \ {s}
    /\ GaveUp(s)
    /\ UNCHANGED <<view, captures, work, image, decodes>>

\* The browser ends a track; the listener is there once the focus is set.
TrackEnded(st) ==
    /\ st \in on
    /\ IF st = session /\ \A s \in starts : s.session = st => s.pc = "play"
       THEN StopCamera
       ELSE on' = on \ {st} /\ UNCHANGED <<session, camera, preview, loop, review, locked>>
    /\ UNCHANGED <<view, captures, work, starts, image, decodes>>

\* A frame with a code, or with none for so long that the candidate is given
\* up.  A code is taken the second time in a row.
Frame(c) ==
    /\ loop.session = session /\ loop # NoLoop /\ view = "scan"
    /\ IF c # None /\ c = loop.candidate /\ ~Captured(c)
       THEN /\ Capture(c, loop.work)
            /\ review' = TRUE
            /\ loop' = [loop EXCEPT !.candidate = None]
       ELSE /\ loop' = [loop EXCEPT !.candidate = c]
            /\ UNCHANGED <<captures, review>>
    /\ UNCHANGED <<view, work, session, on, camera, preview, locked, starts, image, decodes>>

\* The stop button, the end of the page, or an unexpected error of a frame.
Stop ==
    /\ loop # NoLoop \/ session < MaxSession
    /\ StopCamera
    /\ UNCHANGED <<view, captures, work, starts, image, decodes>>

\* queueAutomaticReview
Review ==
    /\ review
    /\ IF captures # {} THEN ShowDetails
       ELSE review' = FALSE /\ UNCHANGED <<view, session, on, camera, preview, loop, locked>>
    /\ UNCHANGED <<captures, work, starts, image, decodes>>

----------------------------------------------------------------------------
(* Pictures, manual entries, and starting over. *)

\* In the details view as well: a file dialog may be open while the review changes the view.
PickImage ==
    /\ image < MaxImage
    /\ image' = image + 1
    /\ decodes' = decodes \cup {[session |-> image + 1, work |-> work]}
    /\ StopCamera
    /\ UNCHANGED <<view, captures, work, starts>>

\* The picture shows code c, or none.
Decoded(d, c) ==
    /\ decodes' = decodes \ {d}
    /\ IF d.session = image /\ view = "scan" /\ c # None /\ ~Captured(c)
       THEN Capture(c, d.work) /\ ShowDetails
       ELSE UNCHANGED <<view, captures, scan>>
    /\ UNCHANGED <<work, starts, image>>

\* A code typed in, or (None) a product without a barcode.
Manual(c) ==
    /\ view = "scan" /\ ~Captured(c) /\ session < MaxSession
    /\ Capture(c, work)
    /\ ShowDetails
    /\ UNCHANGED <<work, starts, image, decodes>>

\* Mutant of StartNewScan: a picture being decoded is not cancelled.
StartNewKeepingImage(again) ==
    /\ image' = image
    /\ captures' = {} /\ work' = work + 1
    /\ view' = "scan"
    /\ StopStreams /\ locked' = again
    /\ starts' = IF again THEN starts \cup {Asked} ELSE starts

\* startNewScan; the camera starts again from "scan another".  showScanView and startCamera
\* each stop the camera, and startNewScan and startCamera each cancel the picture; the numbers
\* that this skips mean nothing, so the session and the picture are counted up once here.
StartNewScan(again) ==
    /\ image' = image + 1
    /\ captures' = {} /\ work' = work + 1
    /\ view' = "scan"
    /\ StopStreams /\ locked' = again
    /\ starts' = IF again THEN starts \cup {Asked} ELSE starts

ScanMore == view = "details" /\ work < MaxWork /\ StartNewScan(TRUE) /\ UNCHANGED decodes
StartOver == work < MaxWork /\ StartNewScan(FALSE) /\ UNCHANGED decodes

Next ==
    \/ StartCamera \/ Stop \/ Review \/ PickImage \/ ScanMore \/ StartOver
    \/ \E s \in starts : GotStream(s) \/ Focused(s) \/ Played(s) \/ StartFailed(s)
    \/ \E st \in on : TrackEnded(st)
    \/ \E c \in Code \cup {None} : Frame(c) \/ Manual(c)
    \/ \E d \in decodes, c \in Code \cup {None} : Decoded(d, c)

Spec == Init /\ [][Next]_vars

----------------------------------------------------------------------------
(* Properties. *)

\* The types of the variables; a timer or a frame is only due in the scan view.
TypeOK ==
    /\ view \in {"scan", "details"} /\ work \in 0..MaxWork
    /\ captures \subseteq [code : Code \cup {None}, work : 0..MaxWork]
    /\ starts \subseteq [session : 1..session, pc : {"asked", "focus", "play"}]
    /\ on \subseteq 1..session /\ {camera, preview} \subseteq 0..session
    /\ loop # NoLoop => loop.session = session /\ view = "scan"
    /\ review => loop # NoLoop
    /\ view = "details" => captures # {}

\* The camera is on for the present session of the scan view and for nothing
\* else: whatever was stopped, left or started again while the browser was
\* asked, no stream is left running.
CameraReleased == on # {} => on = {session} /\ view = "scan"

\* What was captured belongs to the present work: a frame or a picture taken
\* before the captures were cleared never turns up after.
NothingFromBefore == \A c \in captures : c.work = work

\* The button is only off while the camera is being started or scans: no way
\* out of a start, nor a stop or a restart in its middle, locks the user out.
NeverLockedOut == locked => loop # NoLoop \/ \E s \in starts : s.session = session

\* Whatever was stopped, left or started again while the browser was asked: no
\* stream is left running, and the camera's button is given back.
CameraGivenBack == CameraReleased /\ NeverLockedOut
=============================================================================
