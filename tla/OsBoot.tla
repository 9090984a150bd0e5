------------------------------- MODULE OsBoot -------------------------------
(***************************************************************************)
(* osboot.c from the start of efi_main to the entry of the kernel:         *)
(* try_local_boot, the buffers of the network boot, load_kernel,           *)
(* boot_kernel and the hand-over of the machine.  The network boot itself  *)
(* is what module NetBoot models; here it delivers any files.              *)
(* process_memory_map comes from MemMap.                                   *)
(*                                                                         *)
(* The loader is one thread.  pc says where it is:                         *)
(*   "local"     in try_local_boot                                         *)
(*   "buffers"   allocating the network boot's buffers                     *)
(*   "netboot"   in the loop of efi_main                                   *)
(*   "check", "zeropage", "cmdline", "image"                               *)
(*               in load_kernel, about to do that part of it               *)
(*   "fill"      in boot_kernel, load_kernel has succeeded                 *)
(*   "map"       in a process_memory_map that boot_kernel called           *)
(*   "exit"      about to call ExitBootServices                            *)
(*   "kernel"    the kernel has been entered                               *)
(*   "failed"    Boot Failure, waiting for a key                           *)
(* Image sizes count paragraphs of 16 bytes, as the kernel's header does;  *)
(* a 32-bit byte count wraps at Word32 paragraphs.  File sizes count       *)
(* bytes, addresses gigabytes; 0 is NULL.                                  *)
(***************************************************************************)
EXTENDS MemMap

CONSTANTS
  Word32,         \* paragraphs of 2^32 bytes: 2^28
  KernelFiles,    \* the contents a kernel file may have
  RamdiskSizes, CmdlineSizes,  \* sizes of the other two files
  PoolAddr,       \* where LoadFile's memory may be
  QuietAfterExit  \* a refused ExitBootServices silences the firmware

Low         == 1 .. 3   \* addresses below four gigabytes
MinKernel   == 32768    \* bytes a kernel has at least
CmdlineSize == 4096     \* sizeof(cmdline)

(* What load_kernel reads of a kernel file: its size in bytes, whether     *)
(* magic and version are right, the number of setup sectors, and image_sz  *)
(* in paragraphs.                                                          *)
KernelFile ==
  [sz : Nat, valid : BOOLEAN, sects : 0 .. 255, syssize : 0 .. Word32 - 1]

Blob == [addr : Nat, sz : Nat]

ASSUME OsBootAssumption ==
  /\ Word32 \in Nat \ {0}
  /\ KernelFiles \subseteq KernelFile
  /\ RamdiskSizes \subseteq Nat
  /\ CmdlineSizes \subseteq Nat
  /\ PoolAddr \subseteq Nat \ {0}
  /\ QuietAfterExit \in BOOLEAN

VARIABLES
  pc,
  kernel, ramdisk, cmdline,  \* the files passed to boot_kernel
  held,          \* pages of memory behind k->zeropage, k->cmdline, k->image
  pages,         \* k->pages
  zpBase, zpSize,  \* ZP_RAMDISK_BASE and ZP_RAMDISK_SIZE
  cmdEnd,        \* where the kernel's command line is terminated
  tries          \* calls of process_memory_map so far

fileVars == <<kernel, ramdisk, cmdline>>
loadVars == <<held, pages, zpBase, zpSize, cmdEnd>>
vars     == <<firmwareVars, mapVars, pc, fileVars, loadVars, tries>>

LoaderTypeOK ==
  /\ pc \in {"local", "buffers", "netboot", "check", "zeropage", "cmdline",
             "image", "fill", "map", "exit", "kernel", "failed"}
  /\ kernel \in KernelFile
  /\ ramdisk \in Blob /\ cmdline \in Blob
  /\ held \in [zeropage : Int, cmdline : Int, image : Int]
  /\ pages \in Nat /\ zpBase \in Nat /\ zpSize \in Nat /\ cmdEnd \in Nat
  /\ tries \in 0 .. 2

TypeOK == MapTypeOK /\ LoaderTypeOK

NothingHeld == [zeropage |-> 0, cmdline |-> 0, image |-> 0]

Init ==
  /\ MapInit
  /\ pc = "local"
  /\ kernel = [sz |-> 0, valid |-> FALSE, sects |-> 0, syssize |-> 0]
  /\ ramdisk = [addr |-> 0, sz |-> 0] /\ cmdline = ramdisk
  /\ held = NothingHeld /\ pages = 0
  /\ zpBase = 0 /\ zpSize = 0 /\ cmdEnd = 0
  /\ tries = 0

Goto(label) == pc' = label

-----------------------------------------------------------------------------
(* try_local_boot.  A file that is missing leaves its size uninitialized.  *)

LocalKernelMissing ==
  /\ pc = "local"
  /\ Goto("buffers")
  /\ UNCHANGED <<firmwareVars, mapVars, fileVars, loadVars, tries>>

LocalFilesLoaded ==
  /\ pc = "local"
  /\ kernel' \in KernelFiles
  /\ ramdisk' \in [addr : PoolAddr \cup {0}, sz : RamdiskSizes]
  /\ cmdline' \in [addr : PoolAddr \cup {0}, sz : CmdlineSizes]
  /\ Goto("check")
  /\ UNCHANGED <<firmwareVars, mapVars, loadVars, tries>>

-----------------------------------------------------------------------------
(* efi_main behind try_local_boot.                                         *)

BuffersAllocated ==
  /\ pc = "buffers"
  /\ Goto("netboot")
  /\ UNCHANGED <<firmwareVars, mapVars, fileVars, loadVars, tries>>

(* Either AllocatePages or netboot_init fails.                             *)
NetbootImpossible ==
  /\ pc = "buffers"
  /\ Goto("failed")
  /\ UNCHANGED <<firmwareVars, mapVars, fileVars, loadVars, tries>>

(* A 32-bit word holds byte counts up to this.                             *)
Bytes32 == 16 * Word32

(* A BOOT request for what is neither too small nor an EFI program.  The   *)
(* ramdisk's buffer is far smaller than a 32-bit word can say; the command *)
(* line is the whole static buffer of 4096 bytes.                          *)
NetbootBoots ==
  /\ pc = "netboot"
  /\ kernel' \in {f \in KernelFiles : f.sz >= MinKernel}
  /\ ramdisk' \in [addr : Low, sz : {s \in RamdiskSizes : s < Bytes32}]
  /\ cmdline' \in [addr : Low, sz : {CmdlineSize}]
  /\ Goto("check")
  /\ UNCHANGED <<firmwareVars, mapVars, loadVars, tries>>

-----------------------------------------------------------------------------
(* load_kernel                                                             *)

Setup(f) == (f.sects + 1) * 32

(* Mutant: the image may end a paragraph behind the file.                  *)
ImageAccepted_roundedTwice(f) ==
  /\ f.sz >= 1024
  /\ f.valid
  /\ Setup(f) >= 64
  /\ (Setup(f) + f.syssize) % Word32 <= (f.sz + 15) \div 16 + 1

(* Comparing paragraphs is exact: the sum is a multiple of 16 bytes.       *)
ImageAccepted(f) ==
  /\ f.sz >= 1024
  /\ f.valid
  /\ Setup(f) >= 64
  /\ (Setup(f) + f.syssize) % Word32 <= (f.sz + 15) \div 16

CheckImage ==
  /\ pc = "check"
  /\ Goto(IF ImageAccepted(kernel) THEN "zeropage" ELSE "failed")
  /\ UNCHANGED <<firmwareVars, mapVars, fileVars, loadVars, tries>>

(* FreePages of count pages, unless the pointer is NULL.                   *)
Freed(h, count) == IF h # 0 THEN h - count ELSE h

(* Mutant: the zero page is only freed together with the command line.     *)
FreeAndFail_leaks ==
  /\ held' = [image    |-> Freed(held.image, pages'),
              cmdline  |-> Freed(held.cmdline, 1),
              zeropage |-> IF held.cmdline # 0 THEN Freed(held.zeropage, 1)
                           ELSE held.zeropage]
  /\ Goto("failed")
  /\ UNCHANGED <<zpBase, zpSize, cmdEnd>>

(* The label fail.                                                         *)
FreeAndFail ==
  /\ held' = [image    |-> Freed(held.image, pages'),
              cmdline  |-> Freed(held.cmdline, 1),
              zeropage |-> Freed(held.zeropage, 1)]
  /\ Goto("failed")
  /\ UNCHANGED <<zpBase, zpSize, cmdEnd>>

AllocateZeropage ==
  /\ pc = "zeropage"
  /\ UNCHANGED pages
  /\ \/ FreeAndFail
     \/ /\ held' = [held EXCEPT !.zeropage = 1]
        /\ Goto("cmdline")
        /\ UNCHANGED <<zpBase, zpSize, cmdEnd>>
  /\ UNCHANGED <<firmwareVars, mapVars, fileVars, tries>>

AllocateCmdline ==
  /\ pc = "cmdline"
  /\ UNCHANGED pages
  /\ \/ FreeAndFail
     \/ /\ held' = [held EXCEPT !.cmdline = 1]
        /\ Goto("image")
        /\ UNCHANGED <<zpBase, zpSize, cmdEnd>>
  /\ UNCHANGED <<firmwareVars, mapVars, fileVars, tries>>

PagesFor(f) == ((f.syssize + 255) % Word32) \div 256

(* The last allocation, the copies and the defaults of the zero page.      *)
AllocateImage ==
  /\ pc = "image"
  /\ pages' = PagesFor(kernel)
  /\ \/ FreeAndFail
     \/ /\ held' = [held EXCEPT !.image = pages' + 1]
        /\ zpBase' = 0 /\ zpSize' = 0 /\ cmdEnd' = 0
        /\ Goto("fill")
  /\ UNCHANGED <<firmwareVars, mapVars, fileVars, tries>>

-----------------------------------------------------------------------------
(* boot_kernel                                                             *)

CallMapFrom(label) ==
  /\ pc = label
  /\ mpc' = "call"
  /\ Goto("map")
  /\ tries' = tries + 1
  /\ UNCHANGED <<firmwareVars, scratch, mkey, off, table, n, key>>

Word(addr) == addr % 4

(* Mutant: the size of a missing ramdisk is used.                          *)
HasRamdisk_sizeOnly == ramdisk.sz > 0

HasRamdisk == ramdisk.addr # 0 /\ ramdisk.sz > 0

CutCmdline == IF cmdline.sz >= 4095 THEN 4095 ELSE cmdline.sz

FillZeropage ==
  /\ cmdEnd' = IF cmdline.addr # 0 THEN CutCmdline ELSE cmdEnd
  /\ zpBase' = IF HasRamdisk THEN Word(ramdisk.addr) ELSE zpBase
  /\ zpSize' = IF HasRamdisk THEN ramdisk.sz % Bytes32 ELSE zpSize
  /\ CallMapFrom("fill")
  /\ UNCHANGED <<fileVars, held, pages>>

RunMap ==
  /\ pc = "map"
  /\ process_memory_map
  /\ Goto(IF mpc' = "idle" THEN "exit" ELSE "map")
  /\ UNCHANGED <<fileVars, loadVars, tries>>

(* ExitBootServices succeeds; install_memmap and start_kernel.             *)
ExitSucceeds ==
  /\ pc = "exit"
  /\ key = fwkey
  /\ Goto("kernel")
  /\ UNCHANGED <<firmwareVars, mapVars, fileVars, loadVars, tries>>

(* Mutant: the map is fetched again as often as the key is stale.          *)
ExitStaleKey_always ==
  /\ key # fwkey
  /\ CallMapFrom("exit")
  /\ UNCHANGED <<fileVars, loadVars>>

(* Mutant: as before, and the attempts are not counted.                    *)
ExitStaleKey_forever ==
  /\ pc = "exit" /\ key # fwkey
  /\ mpc' = "call"
  /\ Goto("map")
  /\ UNCHANGED <<firmwareVars, scratch, mkey, off, table, n, key, fileVars,
                 loadVars, tries>>

(* Mutant: the second attempt reuses the table of the first.               *)
ExitStaleKey_newKeyOnly ==
  /\ pc = "exit"
  /\ key # fwkey
  /\ tries = 1
  /\ key' = fwkey
  /\ tries' = 2
  /\ UNCHANGED <<firmwareVars, pc, fileVars, loadVars, mpc, scratch, mkey,
                 off, table, n>>

(* EFI_INVALID_PARAMETER the first time: the map is fetched again.         *)
ExitStaleKey ==
  /\ key # fwkey
  /\ tries = 1
  /\ CallMapFrom("exit")
  /\ UNCHANGED <<fileVars, loadVars>>

(* EFI_INVALID_PARAMETER the second time, or another error.                *)
ExitFails ==
  /\ pc = "exit"
  /\ key # fwkey => tries = 2
  /\ Goto("failed")
  /\ UNCHANGED <<firmwareVars, mapVars, fileVars, loadVars, tries>>

(* Only from the first GetMemoryMap on does it matter that the map         *)
(* changes; what AllocatePages did before is part of the map found there.  *)
FirmwareActs ==
  /\ pc \in {"map", "exit"}
  /\ QuietAfterExit => tries < 2
  /\ FirmwareChangesMap
  /\ UNCHANGED <<pc, fileVars, loadVars, tries>>

LoaderNext ==
  \/ LocalKernelMissing
  \/ LocalFilesLoaded
  \/ BuffersAllocated
  \/ NetbootImpossible
  \/ NetbootBoots
  \/ CheckImage
  \/ AllocateZeropage
  \/ AllocateCmdline
  \/ AllocateImage
  \/ FillZeropage
  \/ RunMap
  \/ ExitSucceeds
  \/ ExitStaleKey
  \/ ExitFails

Next == LoaderNext \/ FirmwareActs

Spec == Init /\ [][Next]_vars

-----------------------------------------------------------------------------
(* Pages of type t in the firmware's map.                                  *)
FirmwarePages(t) ==
  UNION {Pages(fwmap[i].start, fwmap[i].pages) :
           i \in {j \in 1 .. Len(fwmap) : e820type(fwmap[j].type) = t}}

(* The memory map that install_memmap gives to the kernel is the           *)
(* firmware's map at the moment boot services ended, although events may   *)
(* change that map between GetMemoryMap and ExitBootServices, in either    *)
(* attempt.  (n is -1 if no attempt to read the map succeeded.)            *)
KernelMapCurrent ==
  pc = "kernel" /\ n # -1 =>
    /\ n = Len(table)
    /\ \A t \in E820Type : TablePages(t) = FirmwarePages(t)

(* A 32-bit pointer and a 32-bit size can describe this file in memory.    *)
FitsWords(blob) == blob.addr < 4 /\ blob.sz < Bytes32

(* The zero page names the ramdisk that was supplied, if there is one, and *)
(* no other, and the command line ends within its page and is complete     *)
(* unless it was too long: sizes of files that could not be read, which    *)
(* try_local_boot passes uninitialized, are never used.  A ramdisk is      *)
(* named truly if it starts below four gigabytes and is smaller than that; *)
(* LoadFile's AllocatePool may put it higher, and boot_kernel then stores  *)
(* what is left of its address in 32 bits.                                 *)
ParametersTrue ==
  pc = "kernel" =>
    /\ IF ramdisk.addr # 0 /\ ramdisk.sz > 0
       THEN FitsWords(ramdisk) => zpBase = ramdisk.addr /\ zpSize = ramdisk.sz
       ELSE zpBase = 0 /\ zpSize = 0
    /\ cmdEnd <= 4095
    /\ cmdline.addr = 0 => cmdEnd = 0
    /\ cmdline.addr # 0 /\ cmdline.sz < 4096 => cmdEnd = cmdline.sz

(* What the comment on ZP_RAMDISK_BASE, "word (ptr or 0)", says: the zero  *)
(* page has the pointer to the ramdisk or none, wherever LoadFile put it.  *)
RamdiskPtrOrZero == pc = "kernel" => zpBase \in {0, ramdisk.addr}

(* The sums that load_kernel forms of the sizes in the header do not wrap  *)
(* around in their 32 bits.                                                *)
SumsFit(f) == Setup(f) + f.syssize + 255 < Word32

(* The image that load_kernel copies lies within the kernel file, whose    *)
(* size may be rounded up by 15 bytes, and within the pages allocated,     *)
(* provided that the sum it compares with the file and the one it counts   *)
(* pages with do not wrap: load_kernel does not look for that.             *)
ImageWithinFile ==
  held.image # 0 /\ SumsFit(kernel) =>
    /\ Setup(kernel) + kernel.syssize <= (kernel.sz + 15) \div 16
    /\ kernel.syssize <= pages * 256

(* When load_kernel fails it has freed what it had allocated, page for     *)
(* page, and nothing else, whichever allocation failed; and a kernel is    *)
(* started with all of its memory.                                         *)
LoadIsAllOrNothing ==
  /\ pc = "failed" /\ tries = 0 => held = NothingHeld
  /\ pc = "kernel" => held = [zeropage |-> 1, cmdline |-> 1, image |-> pages + 1]

(* If the firmware is quiet after it has refused ExitBootServices, the key *)
(* of the second attempt is current whenever the map could be read: the    *)
(* one retry of boot_kernel is enough.                                     *)
SecondKeyCurrent == pc = "exit" /\ tries = 2 /\ n # -1 => key = fwkey
=============================================================================
