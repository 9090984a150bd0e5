-------------------------- MODULE UsbDriver_proofs --------------------------
(***************************************************************************)
(* The driver of usbtest.c lets go of the devices it was offered, for any  *)
(* set of devices, any of them unreadable, and any number of times a       *)
(* device is plugged in.                                                   *)
(***************************************************************************)
EXTENDS UsbDriver, TLAPS

-----------------------------------------------------------------------------
(* Who holds a device.                                                     *)

(* This driver has the device open.                                        *)
Mine(h, c) == h[c] \in {"asked", "started"}

(* A device that is away is held by nobody, so that a list of the devices  *)
(* present is a list of all that this driver may hold; and once            *)
(* RemoveMyDriver has its list, every device this driver holds is on the   *)
(* rest of it or came late.                                                *)
UsbInv ==
  /\ TypeOK
  /\ \A c \in Controller \ present : holder[c] = "none"
  /\ listed => pc \in {"disconnect", "uninstall", "wait", "exited"}
  /\ listed => \A c \in Controller : Mine(holder, c) => c \in list \/ c \in late

(* Supported changes nobody but the device, which is free before it if it  *)
(* changes at all.                                                         *)
LEMMA SupportedIs ==
  ASSUME NEW h \in [Controller -> Holder], NEW c \in Controller,
         NEW r \in MyDriverSupported(h, c)
  PROVE  /\ r.holder \in [Controller -> Holder]
         /\ \A d \in Controller \ {c} : r.holder[d] = h[d]
         /\ r.ok \in BOOLEAN
<1>1. CASE r \in [holder : {h}, ok : {FALSE}]
  BY <1>1, Zenon
<1>2. CASE r \in [holder : {h}, ok : {TRUE}]
  BY <1>2, Zenon
<1>3. CASE r \in [holder : {[h EXCEPT ![c] = "asked"]}, ok : {FALSE}]
  BY <1>3, Zenon DEF Holder
<1> QED  BY <1>1, <1>2, <1>3, Zenon DEF MyDriverSupported

(* Nor does Start.                                                         *)
LEMMA StartIs ==
  ASSUME NEW h \in [Controller -> Holder], NEW c \in Controller,
         NEW g \in MyDriverStart(h, c)
  PROVE  /\ g \in [Controller -> Holder]
         /\ \A d \in Controller \ {c} : g[d] = h[d]
<1>1. CASE g = h
  BY <1>1
<1>2. CASE g = [h EXCEPT ![c] = "started"]
  BY <1>2 DEF Holder
<1> QED  BY <1>1, <1>2 DEF MyDriverStart

(* Stop lets go of the device and of no other.                             *)
LEMMA StopIs ==
  ASSUME NEW h \in [Controller -> Holder], NEW c \in Controller
  PROVE  /\ MyDriverStop(h, c) \in [Controller -> Holder]
         /\ \A d \in Controller \ {c} : MyDriverStop(h, c)[d] = h[d]
         /\ ~Mine(MyDriverStop(h, c), c)
         /\ h[c] = "none" => MyDriverStop(h, c)[c] = "none"
BY DEF MyDriverStop, Mine, Holder

(* The program's and the bus driver's steps keep UsbInv.                   *)
LEMMA UsbInvStep == UsbInv /\ [Next]_vars => UsbInv'
<1> SUFFICES ASSUME UsbInv, [Next]_vars PROVE UsbInv'
  OBVIOUS
<1> USE DEF UsbInv, TypeOK
<1>0. "none" \in Holder /\ "other" \in Holder
  BY DEF Holder
<1>1. CASE InstallMyDriver
  BY <1>1, Zenon DEF InstallMyDriver, Mine
<1>2. CASE LocateForConnect
  BY <1>2 DEF LocateForConnect, Mine
<1>3. CASE ConnectNext
  <2>1. PICK c \in list :
          /\ list' = list \ {c}
          /\ \/ c \notin present /\ UNCHANGED <<pc, current, holder>>
             \/ /\ c \in present /\ holder[c] = "none"
                /\ holder' = [holder EXCEPT ![c] = "other"]
                /\ UNCHANGED <<pc, current>>
             \/ /\ c \in present
                /\ \E r \in MyDriverSupported(holder, c) :
                     /\ holder' = r.holder
                     /\ pc' = IF r.ok THEN "start" ELSE "connect"
                     /\ current' = IF r.ok THEN c ELSE "none"
    BY <1>3 DEF ConnectNext
  <2>2. ~listed /\ pc = "connect"
        /\ UNCHANGED <<registered, listed, present, late, plugs>>
    BY <1>3 DEF ConnectNext
  <2>3. CASE c \notin present /\ UNCHANGED <<pc, current, holder>>
    BY <2>1, <2>2, <2>3
  <2>4. CASE /\ c \in present /\ holder[c] = "none"
             /\ holder' = [holder EXCEPT ![c] = "other"]
             /\ UNCHANGED <<pc, current>>
    BY <1>0, <2>1, <2>2, <2>4
  <2>5. ASSUME c \in present, NEW r \in MyDriverSupported(holder, c),
               holder' = r.holder, pc' = IF r.ok THEN "start" ELSE "connect",
               current' = IF r.ok THEN c ELSE "none"
        PROVE  UsbInv'
    <3>1. /\ holder' \in [Controller -> Holder]
          /\ \A d \in Controller \ {c} : holder'[d] = holder[d]
      BY <2>5, SupportedIs
    <3> QED  BY <2>1, <2>2, <2>5, <3>1
  <2> QED  BY <2>1, <2>3, <2>4, <2>5
<1>4. CASE StartCurrent
  <2>1. CASE current \in present
    <3>1. /\ holder' \in [Controller -> Holder]
          /\ \A d \in Controller \ {current} : holder'[d] = holder[d]
      BY <1>4, <2>1, StartIs DEF StartCurrent
    <3> QED  BY <1>4, <2>1, <3>1 DEF StartCurrent
  <2>2. CASE current \notin present
    BY <1>4, <2>2 DEF StartCurrent
  <2> QED  BY <2>1, <2>2
<1>5. CASE ConnectDone
  BY <1>5 DEF ConnectDone
<1>6. CASE LocateForDisconnect
  <2>1. ~listed /\ pc = "remove" /\ UNCHANGED <<present, holder, late, plugs>>
        /\ UNCHANGED <<current, registered>>
    BY <1>6 DEF LocateForDisconnect
  <2>2. CASE pc' = "uninstall" /\ UNCHANGED <<list, listed>>
    BY <2>1, <2>2
  <2>3. CASE list' = present /\ pc' = "disconnect" /\ listed' = TRUE
    <3>1. \A c \in Controller : Mine(holder, c) => c \in present
      BY DEF Mine
    <3> QED  BY <2>1, <2>3, <3>1 DEF Mine
  <2> QED  BY <1>6, <2>2, <2>3, Zenon DEF LocateForDisconnect
<1>7. CASE DisconnectNext
  <2>1. PICK c \in list : list' = list \ {c} /\ holder' = MyDriverStop(holder, c)
    BY <1>7 DEF DisconnectNext
  <2>2. /\ pc = "disconnect"
        /\ UNCHANGED <<pc, current, registered, listed, present, late, plugs>>
    BY <1>7 DEF DisconnectNext
  <2>3. /\ holder' \in [Controller -> Holder] /\ ~Mine(holder', c)
        /\ \A d \in Controller \ {c} : holder'[d] = holder[d]
        /\ holder[c] = "none" => holder'[c] = "none"
    BY <2>1, StopIs
  <2> QED  BY <2>1, <2>2, <2>3 DEF Mine
<1>8. CASE DisconnectDone
  BY <1>8 DEF DisconnectDone, Mine
<1>9. CASE Uninstall
  BY <1>9, Zenon DEF Uninstall, Mine
<1>10. CASE Exit
  BY <1>10 DEF Exit, Mine
<1>11. ASSUME NEW c \in Controller, Plug(c) PROVE UsbInv'
  <2>1. /\ holder' \in [Controller -> Holder]
        /\ \A d \in Controller \ {c} : holder'[d] = holder[d]
    <3>1. CASE holder' \in {holder, [holder EXCEPT ![c] = "other"]}
      BY <1>0, <3>1
    <3>2. ASSUME NEW r \in MyDriverSupported(holder, c),
                 holder' \in IF r.ok THEN MyDriverStart(r.holder, c) ELSE {r.holder}
          PROVE  /\ holder' \in [Controller -> Holder]
                 /\ \A d \in Controller \ {c} : holder'[d] = holder[d]
      <4>1. /\ r.holder \in [Controller -> Holder]
            /\ \A d \in Controller \ {c} : r.holder[d] = holder[d]
        BY SupportedIs
      <4>2. CASE holder' = r.holder
        BY <4>1, <4>2
      <4>3. CASE holder' \in MyDriverStart(r.holder, c)
        <5>1. /\ holder' \in [Controller -> Holder]
              /\ \A d \in Controller \ {c} : holder'[d] = r.holder[d]
          BY <4>1, <4>3, StartIs
        <5> QED  BY <4>1, <5>1
      <4> QED  BY <3>2, <4>2, <4>3
    <3> QED  BY <1>11, <3>1, <3>2 DEF Plug
  <2>2. /\ UNCHANGED <<pc, list, current, registered, listed>>
        /\ present' = present \cup {c} /\ plugs' \in 0 .. MaxPlugs
        /\ late' = IF listed THEN late \cup {c} ELSE late
    BY <1>11, UsbAssumption DEF Plug, driverVars
  <2> QED  BY <2>1, <2>2 DEF Mine
<1>12. ASSUME NEW c \in Controller, Unplug(c) PROVE UsbInv'
  <2>1. /\ UNCHANGED <<pc, list, current, registered, listed, late, plugs>>
        /\ present' = present \ {c} /\ holder' = [holder EXCEPT ![c] = "none"]
    BY <1>12 DEF Unplug, driverVars
  <2>2. /\ holder' \in [Controller -> Holder] /\ holder'[c] = "none"
        /\ \A d \in Controller \ {c} : holder'[d] = holder[d]
    BY <1>0, <2>1
  <2> QED  BY <2>1, <2>2 DEF Mine
<1>13. CASE UNCHANGED vars
  BY <1>13 DEF vars, driverVars, Mine
<1> QED
  BY <1>1, <1>2, <1>3, <1>4, <1>5, <1>6, <1>7, <1>8, <1>9, <1>10, <1>11, <1>12, <1>13
     DEF Next

-----------------------------------------------------------------------------
(* UsbInv holds while the program of usbtest.c runs.                       *)
LEMMA UsbInvHolds == Spec => []UsbInv
<1>1. Init => UsbInv
  <2> SUFFICES ASSUME Init PROVE UsbInv
    OBVIOUS
  <2>1. holder \in [Controller -> Holder] /\ 0 \in 0 .. MaxPlugs
    BY UsbAssumption DEF Init, Holder
  <2>2. TypeOK
    BY <2>1, Zenon DEF Init, TypeOK
  <2> QED  BY <2>2 DEF Init, UsbInv
<1> QED  BY <1>1, UsbInvStep, PTL DEF Spec

(* The variables keep their types, and the list is only non-empty while    *)
(* one of the two loops of usbtest.c is under way.                         *)
THEOREM UsbTypeCorrect == Spec => []TypeOK
<1>1. UsbInv => TypeOK
  BY DEF UsbInv
<1> QED  BY <1>1, UsbInvHolds, PTL

(* RemoveMyDriver leaves the driver on no device it could list: not on one *)
(* MyDriverSupported left open, nor on one plugged in meanwhile and        *)
(* started by the firmware.                                                *)
THEOREM RemovedFromListedHolds == Spec => []RemovedFromListed
<1>1. UsbInv => RemovedFromListed
  BY DEF UsbInv, TypeOK, RemovedFromListed, Mine
<1> QED  BY <1>1, UsbInvHolds, PTL
=============================================================================
