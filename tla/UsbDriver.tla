----------------------------- MODULE UsbDriver ------------------------------
(***************************************************************************)
(* usbtest.c: a UEFI driver that is registered, offered every USB device,  *)
(* taken off all of them and unregistered before the program returns.      *)
(* Devices come and go meanwhile: the firmware's bus driver runs on timer  *)
(* events, between any two steps of the program, and offers a new device   *)
(* to every driver that is registered.                                     *)
(*                                                                         *)
(* pc: "install", "locate", "connect", "start" in InstallMyDriver,         *)
(* "remove", "disconnect", "uninstall" in RemoveMyDriver, "wait" in        *)
(* WaitAnyKey, "exited" when the image is gone.                            *)
(***************************************************************************)
EXTENDS Naturals, FiniteSets

CONSTANTS
  Controller,  \* handles of USB devices
  Broken,      \* those whose descriptor is not always readable
  MaxPlugs     \* how often a device may be plugged in

ASSUME UsbAssumption == Broken \subseteq Controller /\ MaxPlugs \in Nat

(* Who has UsbIo of a device open BY_DRIVER: nobody, this driver since     *)
(* Supported, this driver since Start, or another driver.                  *)
Holder == {"none", "asked", "started", "other"}

VARIABLES
  pc,
  list,        \* handles LocateHandleBuffer found and still to be handled
  current,     \* the device that Supported has accepted, if pc = "start"
  registered,  \* the driver binding is installed
  present,     \* devices that are plugged in
  holder,
  listed,      \* RemoveMyDriver has got its list
  late,        \* devices plugged in since then
  plugs

driverVars   == <<pc, list, current, registered, listed>>
vars         == <<driverVars, present, holder, late, plugs>>

(* Types, and handles are only left to be handled within the two loops of  *)
(* usbtest.c.                                                              *)
TypeOK ==
  /\ pc \in {"install", "locate", "connect", "start", "remove", "disconnect",
             "uninstall", "wait", "exited"}
  /\ list \subseteq Controller
  /\ list # {} => pc \in {"connect", "start", "disconnect"}
  /\ current \in Controller \cup {"none"}
  /\ registered \in BOOLEAN /\ listed \in BOOLEAN
  /\ present \subseteq Controller /\ late \subseteq Controller
  /\ holder \in [Controller -> Holder]
  /\ plugs \in 0 .. MaxPlugs

(* Firmware drivers may have some of the devices.                          *)
Init ==
  /\ pc = "install" /\ list = {} /\ current = "none"
  /\ registered = FALSE /\ listed = FALSE
  /\ present \in SUBSET Controller
  /\ holder \in [Controller -> {"none", "other"}]
  /\ \A c \in Controller \ present : holder[c] = "none"
  /\ late = {} /\ plugs = 0

-----------------------------------------------------------------------------
(* The entry points of the driver: the possible values of holder after     *)
(* them, given h before, and for Supported also whether it succeeds.       *)

(* Supported leaves the protocol open if there is no descriptor.           *)
MyDriverSupported(h, c) ==
  [holder : {h}, ok : {FALSE}] \cup
  (IF h[c] # "none" THEN {} ELSE [holder : {h}, ok : {TRUE}]) \cup
  (IF h[c] # "none" \/ c \notin Broken THEN {}
   ELSE [holder : {[h EXCEPT ![c] = "asked"]}, ok : {FALSE}])

MyDriverStart(h, c) ==
  {h} \cup (IF h[c] = "none" THEN {[h EXCEPT ![c] = "started"]} ELSE {})

(* Mutant: only a device that was started is let go.                       *)
MyDriverStop_startedOnly(h, c) ==
  IF h[c] = "started" THEN [h EXCEPT ![c] = "none"] ELSE h

(* The firmware calls it for a device this driver has open.                *)
MyDriverStop(h, c) ==
  IF h[c] \in {"asked", "started"} THEN [h EXCEPT ![c] = "none"] ELSE h

-----------------------------------------------------------------------------
InstallMyDriver ==
  /\ pc = "install"
  /\ \/ pc' = "remove" /\ UNCHANGED registered
     \/ pc' = "locate" /\ registered' = TRUE
  /\ UNCHANGED <<list, current, listed, present, holder, late, plugs>>

(* LocateHandleBuffer fails if there is no device, or no memory.           *)
LocateForConnect ==
  /\ pc = "locate"
  /\ \/ pc' = "remove" /\ UNCHANGED list
     \/ present # {} /\ pc' = "connect" /\ list' = present
  /\ UNCHANGED <<current, registered, listed, present, holder, late, plugs>>

(* ConnectController offers a device that is still there to this driver or *)
(* to another one.                                                         *)
ConnectNext ==
  /\ pc = "connect"
  /\ \E c \in list :
       /\ list' = list \ {c}
       /\ \/ c \notin present /\ UNCHANGED <<pc, current, holder>>
          \/ /\ c \in present /\ holder[c] = "none"
             /\ holder' = [holder EXCEPT ![c] = "other"]
             /\ UNCHANGED <<pc, current>>
          \/ /\ c \in present
             /\ \E r \in MyDriverSupported(holder, c) :
                  /\ holder' = r.holder
                  /\ pc' = IF r.ok THEN "start" ELSE "connect"
                  /\ current' = IF r.ok THEN c ELSE "none"
  /\ UNCHANGED <<registered, listed, present, late, plugs>>

StartCurrent ==
  /\ pc = "start"
  /\ holder' \in IF current \in present THEN MyDriverStart(holder, current) ELSE {holder}
  /\ pc' = "connect" /\ current' = "none"
  /\ UNCHANGED <<list, registered, listed, present, late, plugs>>

ConnectDone ==
  /\ pc = "connect" /\ list = {}
  /\ pc' = "remove"
  /\ UNCHANGED <<list, current, registered, listed, present, holder, late, plugs>>

LocateForDisconnect ==
  /\ pc = "remove"
  /\ \/ pc' = "uninstall" /\ UNCHANGED <<list, listed>>
     \/ /\ present # {} /\ list' = present
        /\ pc' = "disconnect" /\ listed' = TRUE
  /\ UNCHANGED <<current, registered, present, holder, late, plugs>>

DisconnectNext ==
  /\ pc = "disconnect"
  /\ \E c \in list : list' = list \ {c} /\ holder' = MyDriverStop(holder, c)
  /\ UNCHANGED <<pc, current, registered, listed, present, late, plugs>>

(* Mutant: the loop leaves out the last device.                            *)
DisconnectDone_oneEarly ==
  /\ pc = "disconnect" /\ Cardinality(list) <= 1
  /\ pc' = "uninstall"
  /\ UNCHANGED <<list, current, registered, listed, present, holder, late, plugs>>

DisconnectDone ==
  /\ pc = "disconnect" /\ list = {}
  /\ pc' = "uninstall"
  /\ UNCHANGED <<list, current, registered, listed, present, holder, late, plugs>>

(* UninstallProtocolInterface; it only fails if nothing was installed.     *)
Uninstall ==
  /\ pc = "uninstall"
  /\ registered' = FALSE
  /\ pc' = "wait"
  /\ UNCHANGED <<list, current, listed, present, holder, late, plugs>>

Exit ==
  /\ pc = "wait"
  /\ pc' = "exited"
  /\ UNCHANGED <<list, current, registered, listed, present, holder, late, plugs>>

-----------------------------------------------------------------------------
(* The firmware's bus driver, whose event handler runs to its end.         *)

Plug(c) ==
  /\ c \notin present /\ plugs < MaxPlugs
  /\ present' = present \cup {c}
  /\ plugs' = plugs + 1
  /\ late' = IF listed THEN late \cup {c} ELSE late
  /\ \/ holder' \in {holder, [holder EXCEPT ![c] = "other"]}
     \/ /\ registered
        /\ \E r \in MyDriverSupported(holder, c) :
             holder' \in IF r.ok THEN MyDriverStart(r.holder, c) ELSE {r.holder}
  /\ UNCHANGED driverVars

(* The driver that holds a device is stopped.  One that is unregistered    *)
(* cannot be called, and the firmware keeps a handle that is still open.   *)
Unplug(c) ==
  /\ c \in present
  /\ holder[c] \in {"asked", "started"} => registered
  /\ present' = present \ {c}
  /\ holder' = [holder EXCEPT ![c] = "none"]
  /\ UNCHANGED <<driverVars, late, plugs>>

Next ==
  \/ InstallMyDriver
  \/ LocateForConnect
  \/ ConnectNext
  \/ StartCurrent
  \/ ConnectDone
  \/ LocateForDisconnect
  \/ DisconnectNext
  \/ DisconnectDone
  \/ Uninstall
  \/ Exit
  \/ \E c \in Controller : Plug(c) \/ Unplug(c)

Spec == Init /\ [][Next]_vars

-----------------------------------------------------------------------------
(* If RemoveMyDriver could list the devices, the driver has none of them   *)
(* after it, those included that Supported left open and those plugged in  *)
(* during InstallMyDriver; only a device that came later can be left.      *)
RemovedFromListed ==
  pc \in {"uninstall", "wait", "exited"} /\ listed =>
    \A c \in Controller \ late : holder[c] \notin {"asked", "started"}
=============================================================================
