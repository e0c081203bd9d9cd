------------------------------ MODULE LabelRows ------------------------------
(***************************************************************************)
(* Reading an Excel sheet into a preview: which rows are accepted, and     *)
(* which accepted rows carry a warning about their tracking code.          *)
(*                                                                         *)
(* Cells are abstracted to what the code tells apart: a service cell to a  *)
(* spelling, a tracking cell to its kind and, for a plain code, to the     *)
(* code and how it is spelled (case and blanks).                           *)
(***************************************************************************)
EXTENDS Integers, Sequences, FiniteSets

CONSTANTS Codes,      \* tracking codes, as the carrier knows them
          MaxRows,    \* rows of a sheet
          MaxOrders   \* orders the system may have with one code

LabelRowsAssumption == MaxRows \in Nat /\ MaxOrders \in Nat

VARIABLES sheet,      \* the rows of the uploaded sheet
          default,    \* the service type chosen beside the upload
          known,      \* known[c]: unarchived orders with code c
          preview     \* the preview rows, << >> before the upload is read

vars == <<sheet, default, known, preview>>

\* "" is an empty cell; "inactive" stands for text that merely contains a name.
ServiceCells == {"", "scan", "scan_label", "active", "inactive", "empty_package", "other"}
Defaults == {"", "active", "empty_package", "scan", "inactive"}

\* A plain code and its spelling, or a number Excel made of it, or nothing; the
\* code of a cell that is no plain text is arbitrary.
TrackingCells ==
  [kind : {"text"}, code : Codes, spelling : {"plain", "spaced"}]
  \cup [kind : {"none", "scientific", "decimal"}, code : {CHOOSE c \in Codes : TRUE},
        spelling : {"plain"}]

SheetRow == [service : ServiceCells, url : BOOLEAN, tracking : TrackingCells]

NoService == "null"

\* normalizeServiceType: any text that contains a name will do.
NormalizeServiceType(cell) ==
  CASE cell \in {"scan", "scan_label"}   -> "scan"
    [] cell \in {"active", "inactive"}   -> "active"
    [] cell = "empty_package"            -> "empty"
    [] OTHER                             -> NoService

\* normalizeDefaultServiceType: exact names only.
NormalizeDefaultServiceType(value) ==
  CASE value = "active"        -> "active"
    [] value = "empty_package" -> "empty"
    [] value = "scan"          -> "scan"
    [] OTHER                   -> NoService

\* validateRow, for a row whose service type is known.
ValidateRow(row, service) ==
  CASE ~row.url                     -> "labelFileUrl required"
    [] service = "scan"             -> "Scan is temporarily disabled"
    [] row.tracking.kind = "none"   -> "trackingNumber required"
    [] row.tracking.kind \in {"scientific", "decimal"} -> "trackingNumber appears numeric"
    [] OTHER                        -> "valid"

\* One row of createExcelPreview: an empty service cell takes the default.
ParseRow(row) ==
  LET chosen == NormalizeDefaultServiceType(default)
      service == NormalizeServiceType(row.service) IN
  CASE row.service = "" /\ chosen # NoService   -> ValidateRow(row, chosen)
    [] row.service = "" /\ chosen = NoService   -> "serviceType required"
    [] row.service # "" /\ service = NoService  -> "serviceType must be active or empty"
    [] OTHER                                    -> ValidateRow(row, service)

\* trackingCountMap: another valid row has the code, however it is spelled.
Repeated(rows, i) ==
  \E j \in DOMAIN rows \ {i} : ParseRow(rows[j]) = "valid"
                               /\ rows[j].tracking.code = rows[i].tracking.code

\* findDuplicateTrackingCodes: HAVING COUNT(*) > 1.
DuplicateInSystem(c) == known[c] > 1

PreviewRow(rows, i) ==
  LET status == ParseRow(rows[i]) IN
  [status |-> status,
   warnings |-> {w \in {"Duplicate in uploaded file", "Already exists in system"} :
      /\ status = "valid"
      /\ \/ w = "Duplicate in uploaded file" /\ Repeated(rows, i)
         \/ w = "Already exists in system" /\ DuplicateInSystem(rows[i].tracking.code)}]

-----------------------------------------------------------------------------
Init ==
  /\ sheet \in UNION {[1 .. n -> SheetRow] : n \in 1 .. MaxRows}
  /\ default \in Defaults
  /\ known \in [Codes -> 0 .. MaxOrders]
  /\ preview = << >>

CreateExcelPreview ==
  /\ preview = << >>
  /\ preview' = [i \in DOMAIN sheet |-> PreviewRow(sheet, i)]
  /\ UNCHANGED <<sheet, default, known>>

Next == CreateExcelPreview

Spec == Init /\ [][Next]_vars

-----------------------------------------------------------------------------
Read == preview # << >>

(***************************************************************************)
(* A row is accepted exactly when it has a label file, a code that is text *)
(* and not a number Excel made of it, and a service that is sold: named in *)
(* the row, or, if the row names none, chosen for the sheet.               *)
(***************************************************************************)
Sold == {"active", "inactive", "empty_package"}

AcceptedIffImportable ==
  Read => \A i \in DOMAIN sheet :
     (preview[i].status = "valid") <=>
        /\ sheet[i].url
        /\ sheet[i].tracking.kind = "text"
        /\ \/ sheet[i].service \in Sold
           \/ sheet[i].service = "" /\ default \in Sold \ {"inactive"}

(***************************************************************************)
(* Accepted rows are warned about each other exactly when they name one    *)
(* code, whatever its case and blanks, and rows that are refused neither   *)
(* warn nor are warned about.                                              *)
(***************************************************************************)
RepeatsWarned ==
  Read => \A i \in DOMAIN sheet :
     ("Duplicate in uploaded file" \in preview[i].warnings) <=>
        /\ preview[i].status = "valid"
        /\ \E j \in DOMAIN sheet \ {i} :
              preview[j].status = "valid" /\ sheet[j].tracking.code = sheet[i].tracking.code

(***************************************************************************)
(* What labels.service.ts:332 tells the customer: an accepted row whose    *)
(* code an order of the system has is marked "Already exists in system".   *)
(***************************************************************************)
KnownCodesWarned ==
  Read => \A i \in DOMAIN sheet :
     (preview[i].status = "valid" /\ known[sheet[i].tracking.code] > 0)
        => "Already exists in system" \in preview[i].warnings
=============================================================================
