----------------------------- MODULE LocalBoot ------------------------------
(***************************************************************************)
(* The whole path from efi_main to the kernel: OsBoot, with the files of   *)
(* try_local_boot loaded by LoadFile step by step.  While pc is "local"    *)
(* LoadFile runs; what it returned is then what boot_kernel is called      *)
(* with.                                                                   *)
(***************************************************************************)
EXTENDS OsBoot, LoadFile

localVars == <<vars, fileLoadVars>>

LocalInit == Init /\ LoadInit

LoadStep ==
  /\ pc = "local"
  /\ LoadNext
  /\ UNCHANGED vars

(* Mutant: a pointer is passed for a file that was not loaded.             *)
Passed_always(blob, f) ==
  blob.addr # 0 /\ (sz[f] # None => blob.sz = sz[f])

(* The pointer and size passed on for file f.  The size of a file that was *)
(* not loaded is uninitialized.                                            *)
Passed(blob, f) ==
  /\ blob.addr # 0 <=> data[f] # None
  /\ sz[f] # None => blob.sz = sz[f]

BootLoaded ==
  /\ lpc = "boot"
  /\ LocalFilesLoaded
  /\ kernel'.sz = sz[1]
  /\ Passed(ramdisk', 2)
  /\ Passed(cmdline', 3)
  /\ UNCHANGED fileLoadVars

NetbootInstead ==
  /\ lpc = "netboot"
  /\ LocalKernelMissing
  /\ UNCHANGED fileLoadVars

(* Everything behind try_local_boot's calls of LoadFile.                   *)
Behind ==
  /\ pc # "local"
  /\ Next
  /\ UNCHANGED fileLoadVars

LocalNext ==
  \/ LoadStep
  \/ BootLoaded
  \/ NetbootInstead
  \/ Behind

LoaderSteps ==
  \/ LoadStep
  \/ BootLoaded
  \/ NetbootInstead
  \/ pc \notin {"local", "netboot"} /\ LoaderNext /\ UNCHANGED fileLoadVars

(* The loader is one thread and runs on; nothing is assumed of the         *)
(* firmware's events, nor of the hosts that boot over the network.         *)
LocalSpec ==
  LocalInit /\ [][LocalNext]_localVars /\ WF_localVars(LoaderSteps)

-----------------------------------------------------------------------------
(* The variables of efi_main, boot_kernel and LoadFile keep their types.   *)
LocalTypeOK == TypeOK /\ LoadTypeOK

(* The zero page of a kernel from the boot medium describes the files that *)
(* LoadFile really delivered, whichever of its steps failed: a ramdisk and *)
(* a command line that could not be read leave no trace in it, although    *)
(* boot_kernel is then called with sizes nobody has set.  The ramdisk's    *)
(* size is what a 32-bit word holds of it.                                 *)
ZeropageFromFiles ==
  pc = "kernel" /\ lpc = "boot" =>
    /\ zpSize = IF data[2] # None THEN data[2] % Bytes32 ELSE 0
    /\ data[3] = None => cmdEnd = 0
    /\ data[3] # None => cmdEnd = IF data[3] < CmdlineSize THEN data[3] ELSE CmdlineSize - 1

(* The loader always gets to the kernel, to Boot Failure or to waiting for *)
(* a host: no failing file, stale key or changing map keeps it for ever.   *)
BootEnds == pc # "netboot" ~> pc \in {"kernel", "failed", "netboot"}
=============================================================================
