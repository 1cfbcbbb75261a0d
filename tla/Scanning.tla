-------------------------------- MODULE Scanning --------------------------------
(***************************************************************************)
(* What scans: the scanner page with its camera (ScannerCamera) and its    *)
(* forms (ScannerForms), and the reader services of the kiosk (Devices).   *)
(* The services are other processes, and camera and forms meet only in the *)
(* captures, which each of the two modules has: an interleaving of two of  *)
(* them shows nothing new, and a behaviour picks the one at work.          *)
(***************************************************************************)
EXTENDS ScannerCamera

CONSTANTS Barcode, NoBarcode, MaxEdit, MaxRetry, MaxLost, MaxStartOver,          \* forms
          Digit, Reader, Card, Debounce, MaxTime, MaxKey, MaxScan, MaxLife       \* devices

VARIABLES part,
          formView, keyed, forms, cleared, lookups, saves, edits, created, lost, \* forms
          now, ready, life, buffer, last, reading, kiosk, keys, missed, scans            \* devices

Forms == INSTANCE ScannerForms WITH MaxWork <- MaxStartOver,
                                    view <- formView, captures <- keyed, work <- cleared
Devices == INSTANCE Devices

ASSUME ScanningAssumption ==
    CameraAssumption /\ Forms!FormsAssumption /\ Devices!DevicesAssumption

formsVars == <<formView, keyed, forms, cleared, lookups, saves, edits, created, lost>>
deviceVars == <<now, ready, life, buffer, last, reading, kiosk, keys, missed, scans>>

PartInit ==
    /\ part \in {"camera", "forms", "devices"}
    /\ Init /\ Forms!Init /\ Devices!Init

PartNext ==
    /\ UNCHANGED part
    /\ \/ part = "camera" /\ Next /\ UNCHANGED <<formsVars, deviceVars>>
       \/ part = "forms" /\ Forms!Next /\ UNCHANGED <<vars, deviceVars>>
       \/ part = "devices" /\ Devices!Next /\ UNCHANGED <<vars, formsVars>>

PartSpec == PartInit /\ [][PartNext]_<<part, vars, formsVars, deviceVars>>

----------------------------------------------------------------------------
(* Properties, of the modules; CameraGivenBack and NothingFromBefore are   *)
(* ScannerCamera's.                                                        *)

\* The types of the variables.
PartTypeOK == TypeOK /\ Forms!TypeOK /\ Devices!TypeOK

\* Work is never thrown away without a question, but for what was typed while
\* its form was being saved.
WarnsUnlessRaced == Forms!WarnsUnlessRaced

\* A lookup never replaces what the user typed and has not stored, but for what was
\* typed during a save that has succeeded since.
EditsKept == Forms!EditsKept

\* A product without a barcode is created once per answer that got lost.
UnbarcodedOnce == Forms!UnbarcodedOnce

\* The reader's scans are reported whole but for what fell before the service
\* listened, never twice within the debounce time, and dropped only for one that
\* was let through within it.
ScansAreReported == Devices!ReportIsScan /\ Devices!Debounced /\ Devices!DropsAreClose
=============================================================================
