----------------------------- MODULE DeviceList -----------------------------
(***************************************************************************)
(* The two pages on which a customer sees the devices that are trusted and *)
(* revokes them (app/Devices.tsx, me/Devices.tsx), with the endpoints they *)
(* use.  A dialog asks before a device is revoked; then the list is loaded *)
(* again, and only when it has been, or could not be, the dialog closes.   *)
(* The pages differ in what they offer meanwhile.                          *)
(*                                                                         *)
(* Other browsers of the customer trust and revoke devices as well.  What  *)
(* being trusted means is in Sessions.                                     *)
(***************************************************************************)
EXTENDS FiniteSets

CONSTANTS Devices,     \* rows of trusted_devices, each created once
          Calls,       \* requests to revoke, each made once
          Page,        \* "devices" or "me_devices"
          AnswersLost, \* requests and answers can be lost
          Asked,       \* what a fetch has read that has read nothing
          None         \* null

Revocation == [device : Devices, at : {"sent", "served", "refreshing", "ended"},
               ok : BOOLEAN]

DeviceListAssumption ==
  /\ Page \in {"devices", "me_devices"} /\ AnswersLost \in BOOLEAN
  /\ None \notin Devices \cup Calls \cup Revocation /\ Asked # None
  /\ \A D \in SUBSET Devices : D \notin {None, Asked}

VARIABLES row,      \* row[d]: the server's row of device d
          list,     \* the devices the page has, None before it has loaded
          failed,   \* the last load failed
          fetch,    \* what the load under way has read
          selected, \* selectedId
          call,     \* the requests to revoke
          latest    \* the request that the mutation of the page follows

vars == <<row, list, failed, fetch, selected, call, latest>>

DeviceListTypeOK ==
  /\ row \in [Devices -> {"new", "trusted", "revoked"}]
  /\ list \in (SUBSET Devices) \cup {None}
  /\ failed \in BOOLEAN
  /\ fetch \in (SUBSET Devices) \cup {Asked, None}
  /\ selected \in Devices \cup {None}
  /\ call \in [Calls -> Revocation \cup {None}]
  /\ latest \in Calls \cup {None}

Init ==
  /\ row \in [Devices -> {"new", "trusted"}]
  /\ list = None /\ failed = FALSE /\ fetch = Asked
  /\ selected = None
  /\ call = [c \in Calls |-> None] /\ latest = None

-----------------------------------------------------------------------------
(* What is on the page                                                     *)

At(c, pc) == call[c] # None /\ call[c].at = pc
Refreshing == {c \in Calls : At(c, "refreshing")}

\* revokeMutation.isPending
IsPending == latest # None /\ call[latest].at # "ended"

\* The devices with a button: one page hides them when the last load failed.
ListedOnDevices == IF failed \/ list = None THEN {} ELSE list
ListedOnMeDevices == IF list = None THEN {} ELSE list
Listed == IF Page = "devices" THEN ListedOnDevices ELSE ListedOnMeDevices

\* The dialog is open while the device is in the list, shown or not.
DialogOpen == selected # None /\ list # None /\ selected \in list

\* The dialog covers the buttons.
Select(d) ==
  /\ d \in Listed
  /\ ~IsPending /\ ~DialogOpen
  /\ selected' = d
  /\ UNCHANGED <<row, list, failed, fetch, call, latest>>

Cancel ==
  /\ DialogOpen /\ ~IsPending
  /\ selected' = None
  /\ UNCHANGED <<row, list, failed, fetch, call, latest>>

\* Only one page disables the button of its dialog.
ConfirmOnDevices == DialogOpen /\ ~IsPending
ConfirmOnMeDevices == DialogOpen
MayConfirm == IF Page = "devices" THEN ConfirmOnDevices ELSE ConfirmOnMeDevices

Confirm(c) ==
  /\ call[c] = None
  /\ MayConfirm
  /\ call' = [call EXCEPT ![c] = [device |-> selected, at |-> "sent", ok |-> FALSE]]
  /\ latest' = c
  /\ UNCHANGED <<row, list, failed, fetch, selected>>

-----------------------------------------------------------------------------
(* The server                                                              *)

\* listDevicesForUser
Trusted == {d \in Devices : row[d] = "trusted"}

\* The row stays, and revoking it again does nothing.
RevokeDeviceForUser(d) == row' = [row EXCEPT ![d] = "revoked"]

Revoke(c) ==
  /\ At(c, "sent")
  /\ RevokeDeviceForUser(call[c].device)
  /\ call' = [call EXCEPT ![c].at = "served"]
  /\ UNCHANGED <<list, failed, fetch, selected, latest>>

\* A sign-in of another browser.
CreateTrustedDevice(d) ==
  /\ row[d] = "new"
  /\ row' = [row EXCEPT ![d] = "trusted"]
  /\ UNCHANGED <<list, failed, fetch, selected, call, latest>>

RevokeElsewhere(d) ==
  /\ row[d] = "trusted"
  /\ RevokeDeviceForUser(d)
  /\ UNCHANGED <<list, failed, fetch, selected, call, latest>>

ReadRows ==
  /\ fetch = Asked
  /\ fetch' = Trusted
  /\ UNCHANGED <<row, list, failed, selected, call, latest>>

-----------------------------------------------------------------------------
(* Answers                                                                 *)

\* Those who waited for a load close the dialog, whichever is open.
Conclude(waiting) ==
  /\ call' = [c \in Calls |->
       IF c \in waiting THEN [call[c] EXCEPT !.at = "ended"] ELSE call[c]]
  /\ selected' = IF waiting = {} THEN selected ELSE None

\* fetchDevices
ListLoaded ==
  /\ fetch \notin {Asked, None}
  /\ list' = fetch /\ failed' = FALSE /\ fetch' = None
  /\ Conclude(Refreshing)
  /\ UNCHANGED <<row, latest>>

\* The list that was there stays.
ListFails ==
  /\ AnswersLost
  /\ fetch # None
  /\ failed' = TRUE /\ fetch' = None
  /\ Conclude(Refreshing)
  /\ UNCHANGED <<row, list, latest>>

\* The window is focused again: a load that is under way goes on.
Refocus ==
  /\ fetch = None
  /\ fetch' = Asked
  /\ UNCHANGED <<row, list, failed, selected, call, latest>>

\* invalidateQueries: a load that is under way is dropped for a new one, and
\* who waited for it waits no more.
Revoked(c) ==
  /\ At(c, "served")
  /\ fetch' = Asked
  /\ call' = [e \in Calls |->
       CASE e = c -> [call[c] EXCEPT !.at = "refreshing", !.ok = TRUE]
         [] e \in Refreshing -> [call[e] EXCEPT !.at = "ended"]
         [] OTHER -> call[e]]
  /\ selected' = IF Refreshing = {} THEN selected ELSE None
  /\ UNCHANGED <<row, list, failed, latest>>

\* The dialog stays, and one can press again.
RevokeFails(c) ==
  /\ AnswersLost
  /\ At(c, "sent") \/ At(c, "served")
  /\ call' = [call EXCEPT ![c].at = "ended"]
  /\ UNCHANGED <<row, list, failed, fetch, selected, latest>>

-----------------------------------------------------------------------------
Next ==
  \/ \E d \in Devices : Select(d) \/ CreateTrustedDevice(d) \/ RevokeElsewhere(d)
  \/ \E c \in Calls : \/ Confirm(c) \/ Revoke(c)
                      \/ Revoked(c) \/ RevokeFails(c)
  \/ Cancel \/ ReadRows \/ ListLoaded \/ ListFails \/ Refocus

Spec == Init /\ [][Next]_vars

-----------------------------------------------------------------------------
(* Properties                                                              *)

(***************************************************************************)
(* A device that the page has revoked is not offered again: once the load  *)
(* after it is over it has left the list, though loads that had read it    *)
(* earlier were under way, unless that load failed, which is said          *)
(* (Devices.tsx:17-20, me/Devices.tsx:17-20).                              *)
(***************************************************************************)
RevokedIsGone ==
  \A c \in Calls :
    At(c, "ended") /\ call[c].ok /\ ~failed /\ fetch = None
      => call[c].device \notin list

(***************************************************************************)
(* A dialog closes only when it is cancelled, or because the device it     *)
(* asks about is revoked; of the page whose dialog can be confirmed once.  *)
(* On the other page the late answer of a second press closes the dialog   *)
(* of the next device.                                                     *)
(***************************************************************************)
ClosedIsRevoked ==
  DialogOpen /\ ~DialogOpen' => Cancel \/ row[selected] = "revoked"
=============================================================================
