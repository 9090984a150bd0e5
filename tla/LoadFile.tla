------------------------------ MODULE LoadFile ------------------------------
(***************************************************************************)
(* LoadFile of loadfile.c, and the three calls of it in try_local_boot.    *)
(* Every call of the firmware may fail.  lpc is "idle" between two calls   *)
(* of LoadFile, "boot" or "netboot" when try_local_boot is through with    *)
(* them, and otherwise names what LoadFile does next.                      *)
(***************************************************************************)
EXTENDS Integers, Sequences, FiniteSets

CONSTANT Sizes   \* for each file, the sizes it may have

Files    == <<"magenta.bin", "ramdisk.bin", "cmdline">>
None     == -1   \* NULL, or a size that was never set
Resource == {"image", "fs", "root", "file"}

ASSUME SizesAssumption == Sizes \in [1 .. Len(Files) -> SUBSET Nat]

AnySize == UNION {Sizes[f] : f \in DOMAIN Sizes}

VARIABLES
  lpc,
  nth,       \* the file being loaded, or the last one: an index of Files
  open,      \* how often each resource has been opened and not closed
  FileSize,  \* finfo->FileSize
  data,      \* the block returned for each file: its size, or None
  sz,        \* ksz, rsz and csz of try_local_boot
  pool,      \* blocks allocated and not freed
  noInfo     \* calls in which GetInfo failed

fileLoadVars == <<lpc, nth, open, FileSize, data, sz, pool, noInfo>>

LoadTypeOK ==
  /\ lpc \in {"idle", "image", "fs", "root", "file", "info", "alloc", "read",
             "exit4", "exit3", "exit2", "exit1", "exit0", "boot", "netboot"}
  /\ nth \in 0 .. Len(Files)
  /\ open \in [Resource -> 0 .. Len(Files)]
  /\ FileSize \in AnySize \cup {None}
  /\ data \in [1 .. Len(Files) -> AnySize \cup {None}]
  /\ sz \in [1 .. Len(Files) -> AnySize \cup {None}]
  /\ pool \in 0 .. Len(Files) /\ noInfo \in 0 .. Len(Files)

LoadInit ==
  /\ lpc = "idle" /\ nth = 0
  /\ open = [r \in Resource |-> 0]
  /\ FileSize = None
  /\ data = [f \in 1 .. Len(Files) |-> None]
  /\ sz = data
  /\ pool = 0 /\ noInfo = 0

Label(label) == lpc' = label

(* try_local_boot: the other two files are only loaded if the first was.   *)
TryLocalBoot ==
  /\ lpc = "idle"
  /\ nth' = IF nth < Len(Files) /\ (nth = 0 \/ data[1] # None) THEN nth + 1 ELSE nth
  /\ Label(IF nth' # nth THEN "image" ELSE IF data[1] = None THEN "netboot" ELSE "boot")
  /\ UNCHANGED <<open, FileSize, data, sz, pool, noInfo>>

(* Opening resource r at lpc = r, with the labels behind it and of its exit.*)
Open(r, next, exit) ==
  /\ lpc = r
  /\ \/ Label(exit) /\ UNCHANGED open
     \/ Label(next) /\ open' = [open EXCEPT ![r] = @ + 1]
  /\ UNCHANGED <<nth, FileSize, data, sz, pool, noInfo>>

(* Mutant: without a file system, the image stays open.                    *)
OpenAll_fsExit0 ==
  \/ Open("image", "fs", "exit0")
  \/ Open("fs", "root", "exit0")
  \/ Open("root", "file", "exit2")
  \/ Open("file", "info", "exit3")

OpenAll ==
  \/ Open("image", "fs", "exit0")
  \/ Open("fs", "root", "exit1")
  \/ Open("root", "file", "exit2")
  \/ Open("file", "info", "exit3")

(* When GetInfo fails, the file is not closed.                             *)
GetInfo ==
  /\ lpc = "info"
  /\ \/ Label("exit3") /\ noInfo' = noInfo + 1 /\ UNCHANGED FileSize
     \/ Label("alloc") /\ FileSize' \in Sizes[nth] /\ UNCHANGED noInfo
  /\ UNCHANGED <<nth, open, data, sz, pool>>

AllocatePool ==
  /\ lpc = "alloc"
  /\ \/ Label("exit4") /\ UNCHANGED <<data, pool>>
     \/ /\ data' = [data EXCEPT ![nth] = FileSize]
        /\ pool' = pool + 1
        /\ Label("read")
  /\ UNCHANGED <<nth, open, FileSize, sz, noInfo>>

(* Mutant: the size is set before the read is known to be complete.        *)
ReadFails_setsSize ==
  /\ data' = [data EXCEPT ![nth] = None]
  /\ sz' = [sz EXCEPT ![nth] = FileSize]
  /\ pool' = pool - 1

(* The read fails, or is short.                                            *)
ReadFails ==
  /\ data' = [data EXCEPT ![nth] = None]
  /\ pool' = pool - 1
  /\ UNCHANGED sz

Read ==
  /\ lpc = "read"
  /\ \/ ReadFails
     \/ sz' = [sz EXCEPT ![nth] = FileSize] /\ UNCHANGED <<data, pool>>
  /\ Label("exit4")
  /\ UNCHANGED <<nth, open, FileSize, noInfo>>

Close(label, r, next) ==
  /\ lpc = label
  /\ open' = [open EXCEPT ![r] = @ - 1]
  /\ Label(next)
  /\ UNCHANGED <<nth, FileSize, data, sz, pool, noInfo>>

CloseAll ==
  \/ Close("exit4", "file", "exit3")
  \/ Close("exit3", "root", "exit2")
  \/ Close("exit2", "fs", "exit1")
  \/ Close("exit1", "image", "exit0")

LoadReturn ==
  /\ lpc = "exit0"
  /\ Label("idle")
  /\ UNCHANGED <<nth, open, FileSize, data, sz, pool, noInfo>>

LoadNext ==
  \/ TryLocalBoot
  \/ OpenAll
  \/ GetInfo
  \/ AllocatePool
  \/ Read
  \/ CloseAll
  \/ LoadReturn

-----------------------------------------------------------------------------
Returned == lpc \in {"idle", "boot", "netboot"}

(* Whichever of its steps fail, LoadFile has closed what it opened when it *)
(* returns, except for one file handle per call whose GetInfo failed.      *)
ClosesWhatItOpens ==
  Returned => /\ \A r \in Resource \ {"file"} : open[r] = 0
              /\ open["file"] = noInfo

(* What try_local_boot gets: a block and its size, or NULL and a size that *)
(* is left alone (which boot_kernel must not use).  No block is left over, *)
(* and boot_kernel is only reached with a kernel.                          *)
BlockAndSizeAgree ==
  /\ Returned => /\ data = sz
                 /\ pool = Cardinality({f \in DOMAIN data : data[f] # None})
  /\ lpc = "boot" => data[1] # None
=============================================================================
