------------------------------ MODULE NetBoot ------------------------------
(***************************************************************************)
(* The device: netboot.c (request handling, advertising), together with    *)
(* what surrounds it in the boot loader: netboot_get_buffer and the main   *)
(* loop of efi_main (osboot.c), the timer and the poll of netifc.c.        *)
(*                                                                         *)
(* The device is one thread.  pc says where it is in the loop              *)
(*     efi_main -> netboot_poll -> netifc_poll -> udp6_recv                *)
(*   "poll"    in the loop; netboot_poll has no BOOT to report             *)
(*   "main"    netboot_poll is about to report a BOOT request              *)
(*   "app"     inside StartImage, the downloaded EFI program runs          *)
(*   "kernel"  the downloaded kernel runs                                  *)
(*   "failed"  boot_kernel returned, waiting for a key                     *)
(* Nothing else on the device runs between the timer test and the receive  *)
(* of one netboot_poll, and a pass that finds neither does nothing, so     *)
(* each of the two is an action at "poll".                                 *)
(***************************************************************************)
EXTENDS Link

CONSTANTS
  EfiByte,    \* first byte of an EFI program (the MZ and PE marks)
  MinKernel,  \* a smaller download is not booted: 32768 in efi_main
  FastTicks,  \* fast advertisements after going online: 20 in netboot_poll
  MaxResets   \* times the device may be reset

ASSUME DeviceAssumption ==
  /\ MinKernel \in Nat \ {0}
  /\ FastTicks \in Nat
  /\ MaxResets \in Nat

VARIABLES
  pc,
  last_cookie, last_cmd, last_arg, last_ack_cmd, last_ack_arg,
  nb_boot_now, nb_active,
  item,          \* the nbfile being downloaded, or NULL
  offset,        \* offset field of each nbfile
  data,          \* contents of each nbfile's buffer
  nb_online, nb_fastcount,
  net_timer,     \* "off", "fast" or "slow" while it runs, "expired"
  bootPort,      \* history: source port of the BOOT request obeyed last
  launched,      \* history: source ports whose BOOT request launched an image
  resets         \* resets so far

lastVars    == <<last_cookie, last_cmd, last_arg, last_ack_cmd, last_ack_arg>>
fileVars    == <<item, offset, data>>
tickVars    == <<nb_online, nb_fastcount, net_timer>>
historyVars == <<bootPort, launched, resets>>
deviceVars  == <<pc, lastVars, nb_boot_now, nb_active, fileVars, tickVars,
                 historyVars>>

DeviceTypeOK ==
  /\ pc \in {"poll", "main", "app", "kernel", "failed"}
  /\ last_cookie \in Nat /\ last_arg \in Nat /\ last_ack_arg \in Nat
  /\ last_cmd \in Cmd
  /\ last_ack_cmd \in AckCmd
  /\ nb_boot_now \in BOOLEAN /\ nb_active \in BOOLEAN
  /\ item \in Buffers \cup {NULL}
  /\ offset \in [Buffers -> Nat]
  /\ data \in [Buffers -> [Addr -> Byte \cup {NoByte}]]
  /\ nb_online \in BOOLEAN
  /\ nb_fastcount \in 0 .. FastTicks
  /\ net_timer \in {"off", "fast", "slow", "expired"}
  /\ bootPort \in Nat
  /\ launched \in SUBSET Nat
  /\ resets \in 0 .. MaxResets

-----------------------------------------------------------------------------
(* Static storage as it is when efi_main reaches its loop.                 *)
DeviceInit ==
  /\ pc = "poll"
  /\ last_cookie = 0 /\ last_cmd = NB_ACK /\ last_arg = 0
  /\ last_ack_cmd = NB_ACK /\ last_ack_arg = 0
  /\ nb_boot_now = FALSE /\ nb_active = FALSE
  /\ item = NULL
  /\ offset = [b \in Buffers |-> 0]
  /\ data = [b \in Buffers |-> [i \in Addr |-> NoByte]]
  /\ nb_online = FALSE /\ nb_fastcount = 0
  /\ net_timer = "off"
  /\ bootPort = 0 /\ launched = {} /\ resets = 0

-----------------------------------------------------------------------------
(* netboot_poll, up to the call of netifc_poll.  The interface stays       *)
(* active once netifc_open succeeded, so the offline branch is dead code.  *)

PollGoOnline ==
  /\ pc = "poll" /\ ~nb_online
  /\ nb_online' = TRUE
  /\ nb_fastcount' = FastTicks
  /\ net_timer' = "fast"
  /\ beacon' = TRUE
  /\ UNCHANGED <<pc, lastVars, nb_boot_now, nb_active, fileVars, historyVars,
                 toDevice, toHost, losses, dups>>

(* Mutant: a transfer is never taken to be over.                           *)
PollTimerExpired_staysActive ==
  /\ pc = "poll" /\ nb_online /\ net_timer = "expired"
  /\ net_timer' = IF nb_fastcount > 0 THEN "fast" ELSE "slow"
  /\ nb_fastcount' = IF nb_fastcount > 0 THEN nb_fastcount - 1 ELSE 0
  /\ beacon' = (beacon \/ ~nb_active)
  /\ UNCHANGED <<pc, lastVars, nb_boot_now, nb_active, fileVars, nb_online,
                 historyVars, toDevice, toHost, losses, dups>>

(* Mutant: the fast advertisements are counted down past zero.             *)
PollTimerExpired_countsOn ==
  /\ pc = "poll" /\ nb_online /\ net_timer = "expired"
  /\ net_timer' = IF nb_fastcount > 0 THEN "fast" ELSE "slow"
  /\ nb_fastcount' = nb_fastcount - 1
  /\ nb_active' = FALSE
  /\ beacon' = (beacon \/ ~nb_active)
  /\ UNCHANGED <<pc, lastVars, nb_boot_now, fileVars, nb_online, historyVars,
                 toDevice, toHost, losses, dups>>

PollTimerExpired ==
  /\ pc = "poll" /\ nb_online /\ net_timer = "expired"
  /\ net_timer' = IF nb_fastcount > 0 THEN "fast" ELSE "slow"
  /\ nb_fastcount' = IF nb_fastcount > 0 THEN nb_fastcount - 1 ELSE 0
  /\ nb_active' = FALSE
  /\ beacon' = (beacon \/ ~nb_active)
  /\ UNCHANGED <<pc, lastVars, nb_boot_now, fileVars, nb_online, historyVars,
                 toDevice, toHost, losses, dups>>

(* The firmware signals net_timer; CheckEvent in netboot_poll clears it.   *)
TimerFires ==
  /\ net_timer \in {"fast", "slow"}
  /\ net_timer' = "expired"
  /\ UNCHANGED <<pc, lastVars, nb_boot_now, nb_active, fileVars, nb_online,
                 nb_fastcount, historyVars, linkVars>>

-----------------------------------------------------------------------------
(* udp6_recv, called with request m.  A datagram for another port, or one  *)
(* too short for a request, returns before anything has changed.           *)

netboot_get_buffer(name) ==
  CASE name = "kernel.bin"                     -> "nbkernel"
    [] name \in {"ramdisk.bin", "ramdisk.bin~"} -> "nbramdisk"
    [] name \in {"cmdline", "cmdline~"}         -> "nbcmdline"
    [] OTHER                                    -> NULL

(* The first two conditions of the duplicate test.                         *)
SameCommand(m) == last_cookie = m.cookie /\ last_cmd = m.cmd

(* The third one, (last_arg = msg->arg), assigns: it is the argument       *)
(* itself that is tested against zero.                                     *)
IsDuplicate(m) == SameCommand(m) /\ m.arg # 0

Transmit(m, ackCmd, ackArg) ==
  /\ nb_active' = TRUE
  /\ toHost' = Push(toHost, [cmd |-> ackCmd, cookie |-> m.cookie,
                             arg |-> ackArg, dport |-> m.sport])

(* The common end of the handlers: remember the request and acknowledge.   *)
Acknowledge(m, ackCmd, ackArg) ==
  /\ last_cookie' = m.cookie
  /\ last_cmd' = m.cmd
  /\ last_arg' = m.arg
  /\ last_ack_cmd' = ackCmd
  /\ last_ack_arg' = ackArg
  /\ Transmit(m, ackCmd, ackArg)

ResendAck(m) ==
  /\ IsDuplicate(m)
  /\ last_arg' = m.arg
  /\ Transmit(m, last_ack_cmd, last_ack_arg)
  /\ UNCHANGED <<last_cookie, last_cmd, last_ack_cmd, last_ack_arg,
                 nb_boot_now, fileVars, bootPort>>

RecvCommand(m) ==
  /\ ~IsDuplicate(m)
  /\ m.cmd = NB_COMMAND /\ m.name # ""
  /\ Acknowledge(m, NB_ACK, 0)
  /\ UNCHANGED <<nb_boot_now, fileVars, bootPort>>

(* Mutant: a download goes on where the one before it ended.               *)
RecvSendFile_keepsOffset(m) ==
  /\ ~IsDuplicate(m)
  /\ m.cmd = NB_SEND_FILE /\ m.name # ""
  /\ item' = netboot_get_buffer(m.name)
  /\ Acknowledge(m, IF item' = NULL THEN NB_ERROR_BAD_FILE ELSE NB_ACK, 0)
  /\ UNCHANGED <<nb_boot_now, offset, data, bootPort>>

(* Mutant: a refused name leaves the download before it open.              *)
RecvSendFile_keepsItem(m) ==
  LET found == netboot_get_buffer(m.name) IN
  /\ ~IsDuplicate(m)
  /\ m.cmd = NB_SEND_FILE /\ m.name # ""
  /\ item' = IF found = NULL THEN item ELSE found
  /\ offset' = [b \in Buffers |-> IF b = found THEN 0 ELSE offset[b]]
  /\ Acknowledge(m, IF found = NULL THEN NB_ERROR_BAD_FILE ELSE NB_ACK, 0)
  /\ UNCHANGED <<nb_boot_now, data, bootPort>>

RecvSendFile(m) ==
  /\ ~IsDuplicate(m)
  /\ m.cmd = NB_SEND_FILE /\ m.name # ""
  /\ item' = netboot_get_buffer(m.name)
  /\ offset' = [b \in Buffers |-> IF b = item' THEN 0 ELSE offset[b]]
  /\ Acknowledge(m, IF item' = NULL THEN NB_ERROR_BAD_FILE ELSE NB_ACK, 0)
  /\ UNCHANGED <<nb_boot_now, data, bootPort>>

(* Mutant: the last byte of a block is not copied.                         *)
Copy_short(d, at, block) ==
  [i \in Addr |-> IF i \in at .. at + Len(block) - 2
                  THEN block[i - at + 1] ELSE d[i]]

(* Mutant: a block is copied one address too low.                          *)
Copy_early(d, at, block) ==
  [i \in Addr |-> IF i + 1 \in at .. at + Len(block) - 1
                  THEN block[i - at + 2] ELSE d[i]]

(* memcpy(d + at, block, len)                                              *)
Copy(d, at, block) ==
  [i \in Addr |-> IF i \in at .. at + Len(block) - 1
                  THEN block[i - at + 1] ELSE d[i]]

(* Mutant: arg is not compared with the offset reached.                    *)
InSequence_anyArg(m) == item # NULL

(* A block for the place the download has reached.                         *)
InSequence(m) == item # NULL /\ m.arg = offset[item]

(* Mutant: only the start of the block is compared with the size.          *)
TooLarge_startOnly(m) == offset[item] >= BufSize[item]

(* A block that does not fit behind what the buffer holds.                 *)
TooLarge(m) == offset[item] + Len(m.data) > BufSize[item]

StoreData(m) ==
  /\ data' = [data EXCEPT ![item] = Copy(@, offset[item], m.data)]
  /\ offset' = [offset EXCEPT ![item] = @ + Len(m.data)]
  /\ Acknowledge(m, NB_ACK, m.arg)

RefuseData(m) ==
  /\ Acknowledge(m, NB_ERROR_TOO_LARGE, m.arg)
  /\ UNCHANGED <<data, offset>>

RecvData(m) ==
  /\ ~IsDuplicate(m)
  /\ m.cmd = NB_DATA
  /\ InSequence(m)
  /\ IF TooLarge(m) THEN RefuseData(m) ELSE StoreData(m)
  /\ UNCHANGED <<nb_boot_now, item, bootPort>>

RecvBoot(m) ==
  /\ ~IsDuplicate(m)
  /\ m.cmd = NB_BOOT
  /\ nb_boot_now' = TRUE
  /\ bootPort' = m.sport
  /\ Acknowledge(m, NB_ACK, 0)
  /\ UNCHANGED fileVars

RecvBadCmd(m) ==
  /\ ~IsDuplicate(m)
  /\ m.cmd \notin {NB_COMMAND, NB_SEND_FILE, NB_DATA, NB_BOOT}
  /\ Acknowledge(m, NB_ERROR_BAD_CMD, 0)
  /\ UNCHANGED <<nb_boot_now, fileVars, bootPort>>

(* The early returns.  The assignment in the duplicate test has happened   *)
(* if its first two conditions held.                                       *)
RecvIgnored(m) ==
  /\ ~IsDuplicate(m)
  /\ \/ m.cmd \in {NB_COMMAND, NB_SEND_FILE} /\ m.name = ""
     \/ m.cmd = NB_DATA /\ ~InSequence(m)
  /\ last_arg' = IF SameCommand(m) THEN m.arg ELSE last_arg
  /\ UNCHANGED <<last_cookie, last_cmd, last_ack_cmd, last_ack_arg,
                 nb_boot_now, nb_active, fileVars, bootPort, toHost>>

udp6_recv(m) ==
  \/ ResendAck(m)
  \/ RecvCommand(m)
  \/ RecvSendFile(m)
  \/ RecvData(m)
  \/ RecvBoot(m)
  \/ RecvBadCmd(m)
  \/ RecvIgnored(m)

-----------------------------------------------------------------------------
(* netifc_poll: at most one datagram per call.  A BOOT request received    *)
(* makes netboot_poll return 1.                                            *)
Receive ==
  /\ pc = "poll" /\ nb_online
  /\ \E i \in Deliverable(toDevice) :
       /\ udp6_recv(toDevice[i])
       /\ toDevice' = Without(toDevice, i)
  /\ pc' = IF nb_boot_now' THEN "main" ELSE "poll"
  /\ UNCHANGED <<tickVars, launched, resets, beacon, losses, dups>>

-----------------------------------------------------------------------------
(* netboot_poll returned 1: the rest of efi_main's loop.                   *)

KernelIsEfi == data["nbkernel"][0] = EfiByte

(* BOOT was received: the image is too small or LoadImage refuses it.      *)
MainBootRefused ==
  /\ pc = "main"
  /\ nb_boot_now' = FALSE
  /\ offset["nbkernel"] < MinKernel \/ KernelIsEfi
  /\ pc' = "poll"
  /\ UNCHANGED <<lastVars, nb_active, fileVars, tickVars, historyVars,
                 linkVars>>

(* BOOT was received: LoadImage and StartImage of an EFI program.          *)
MainStartImage ==
  /\ pc = "main"
  /\ nb_boot_now' = FALSE
  /\ offset["nbkernel"] >= MinKernel /\ KernelIsEfi
  /\ pc' = "app"
  /\ launched' = launched \cup {bootPort}
  /\ UNCHANGED <<lastVars, nb_active, fileVars, tickVars, bootPort, resets,
                 linkVars>>

(* Mutant: the size of the download is not tested.                         *)
MainBootKernel_anySize ==
  /\ pc = "main"
  /\ nb_boot_now' = FALSE
  /\ ~KernelIsEfi
  /\ pc' = "kernel"
  /\ net_timer' = "off"
  /\ launched' = launched \cup {bootPort}
  /\ UNCHANGED <<lastVars, nb_active, fileVars, nb_online, nb_fastcount,
                 bootPort, resets, linkVars>>

(* BOOT was received: netboot_close, then boot_kernel.  Shutting the       *)
(* interface down may discard the acknowledgement queued last.             *)
MainBootKernel ==
  /\ pc = "main"
  /\ nb_boot_now' = FALSE
  /\ offset["nbkernel"] >= MinKernel /\ ~KernelIsEfi
  /\ pc' = "kernel"
  /\ net_timer' = "off"
  /\ launched' = launched \cup {bootPort}
  /\ toHost' \in {toHost, SubSeq(toHost, 1, Len(toHost) - 1)}
  /\ UNCHANGED <<lastVars, nb_active, fileVars, nb_online, nb_fastcount,
                 bootPort, resets, toDevice, beacon, losses, dups>>

(* StartImage returns, with or without success.                            *)
AppReturns ==
  /\ pc = "app"
  /\ pc' = "poll"
  /\ UNCHANGED <<lastVars, nb_boot_now, nb_active, fileVars, tickVars,
                 historyVars, linkVars>>

(* boot_kernel only returns when it could not start the kernel.            *)
BootKernelReturns ==
  /\ pc = "kernel"
  /\ pc' = "failed"
  /\ UNCHANGED <<lastVars, nb_boot_now, nb_active, fileVars, tickVars,
                 historyVars, linkVars>>

(* The machine is reset and the loader runs again: statics and buffers are *)
(* fresh, datagrams waiting in the interface may be gone.                  *)
DeviceReset ==
  /\ resets < MaxResets
  /\ resets' = resets + 1
  /\ pc' = "poll"
  /\ last_cookie' = 0 /\ last_cmd' = NB_ACK /\ last_arg' = 0
  /\ last_ack_cmd' = NB_ACK /\ last_ack_arg' = 0
  /\ nb_boot_now' = FALSE /\ nb_active' = FALSE
  /\ item' = NULL
  /\ offset' = [b \in Buffers |-> 0]
  /\ data' = [b \in Buffers |-> [i \in Addr |-> NoByte]]
  /\ nb_online' = FALSE /\ nb_fastcount' = 0
  /\ net_timer' = "off"
  /\ toDevice' \in {<<>>, toDevice}
  /\ UNCHANGED <<bootPort, launched, toHost, beacon, losses, dups>>

MainBoot ==
  \/ MainBootRefused
  \/ MainStartImage
  \/ MainBootKernel

DeviceNext ==
  \/ PollGoOnline
  \/ PollTimerExpired
  \/ TimerFires
  \/ Receive
  \/ MainBoot
  \/ AppReturns
  \/ BootKernelReturns
  \/ DeviceReset
=============================================================================
