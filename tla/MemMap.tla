------------------------------- MODULE MemMap -------------------------------
(***************************************************************************)
(* process_memory_map (osboot.c): the firmware's memory map is fetched     *)
(* into scratch and turned into the e820 table that the kernel will read.  *)
(*                                                                         *)
(* mpc says where the call is:                                             *)
(*   "idle"  not called; n is the value returned last                      *)
(*   "call"  about to call GetMemoryMap                                    *)
(*   "loop"  in the loop over the descriptors, off of them done            *)
(* Addresses and sizes are counted in pages.  table is e820table up to the *)
(* entry being filled; what lies behind it is never read.                  *)
(***************************************************************************)
EXTENDS Integers, Sequences

CONSTANTS
  MaxEntries,   \* entries of e820table: 128
  MaxRaw,       \* descriptors that fit into scratch
  MaxChanges,   \* bound: times the firmware changes its memory map
  FirmwareMaps  \* the memory maps the firmware may have

E820_IGNORE   == 0
E820_RAM      == 1
E820_RESERVED == 2
E820_ACPI     == 3
E820_NVS      == 4
E820_UNUSABLE == 5

E820Type == E820_RAM .. E820_UNUSABLE

(* Type of a descriptor; "LoaderDefined" stands for 0x80000000 and above,  *)
(* "Unassigned" for every other number the specification does not name.    *)
MemoryType ==
  {"ReservedMemoryType", "PalCode", "RuntimeServicesCode",
   "RuntimeServicesData", "ACPIReclaimMemory", "ACPIMemoryNVS", "LoaderCode",
   "LoaderData", "BootServicesCode", "BootServicesData",
   "ConventionalMemory", "MemoryMappedIO", "MemoryMappedIOPortSpace",
   "LoaderDefined", "Unassigned"}

Descriptor == [type : MemoryType, start : Nat, pages : Nat]
Entry      == [addr : Nat, size : Nat, type : E820Type]

ASSUME MemMapAssumption ==
  /\ MaxEntries \in Nat \ {0}
  /\ MaxRaw \in Nat
  /\ MaxChanges \in Nat
  /\ FirmwareMaps \subseteq Seq(Descriptor)

VARIABLES
  fwmap, fwkey,   \* the firmware's memory map and the key that names it
  mpc,
  scratch, mkey,  \* what GetMemoryMap delivered
  off, table,
  n,              \* the count returned, or -1
  key             \* the caller's variable that *_key points to

firmwareVars == <<fwmap, fwkey>>
mapVars      == <<mpc, scratch, mkey, off, table, n, key>>

e820type(t) ==
  CASE t \in {"ReservedMemoryType", "PalCode"} -> E820_RESERVED
    [] t = "ACPIReclaimMemory" -> E820_ACPI
    [] t = "ACPIMemoryNVS" -> E820_NVS
    [] t \in {"MemoryMappedIO", "MemoryMappedIOPortSpace"} -> E820_IGNORE
    [] t = "Unassigned" -> E820_UNUSABLE
    [] OTHER -> E820_RAM

-----------------------------------------------------------------------------
(* The variable that key points to is not initialized by the caller.       *)
MapInit ==
  /\ fwmap \in FirmwareMaps
  /\ fwkey = 1
  /\ mpc = "idle"
  /\ scratch = <<>> /\ mkey = 0
  /\ off = 0 /\ table = <<>>
  /\ n = 0
  /\ key \in 0 .. MaxChanges + 1

(* Firmware code run by timers and events, or called by the loader,        *)
(* allocates or frees memory: the map changes and gets a new key.          *)
FirmwareChangesMap ==
  /\ fwkey <= MaxChanges
  /\ fwmap' \in FirmwareMaps
  /\ fwkey' = fwkey + 1
  /\ UNCHANGED mapVars

Return(value) ==
  /\ mpc' = "idle"
  /\ n' = value

(* The map is larger than scratch, or GetMemoryMap fails otherwise.        *)
GetMemoryMapFails ==
  /\ mpc = "call"
  /\ Return(-1)
  /\ mkey' = 0
  /\ UNCHANGED <<firmwareVars, scratch, off, table, key>>

GetMemoryMap ==
  /\ mpc = "call"
  /\ Len(fwmap) <= MaxRaw
  /\ scratch' = fwmap /\ mkey' = fwkey
  /\ off' = 0 /\ table' = <<>>
  /\ mpc' = "loop"
  /\ UNCHANGED <<firmwareVars, n, key>>

Current     == scratch[off + 1]
CurrentType == e820type(Current.type)

InLoop == mpc = "loop" /\ off < Len(scratch)

SkipIgnored ==
  /\ InLoop
  /\ CurrentType = E820_IGNORE
  /\ off' = off + 1
  /\ UNCHANGED <<firmwareVars, mpc, scratch, mkey, table, n, key>>

(* Mutant: a gap between two entries is overlooked.                        *)
Extends_gap(e, d) ==
  /\ e.type = e820type(d.type)
  /\ e.addr + e.size <= d.start

(* Descriptor d continues entry e.                                         *)
Extends(e, d) ==
  /\ e.type = e820type(d.type)
  /\ e.addr + e.size = d.start

ExtendsLast == table # <<>> /\ Extends(table[Len(table)], Current)

MergeIntoLast ==
  /\ InLoop
  /\ CurrentType # E820_IGNORE
  /\ ExtendsLast
  /\ table' = [table EXCEPT ![Len(table)].size = @ + Current.pages]
  /\ off' = off + 1
  /\ UNCHANGED <<firmwareVars, mpc, scratch, mkey, n, key>>

NewEntry(d) == [addr |-> d.start, size |-> d.pages, type |-> e820type(d.type)]

(* Mutant: the table is only taken to be too large when it is overrun.     *)
AppendEntry_late ==
  /\ InLoop
  /\ CurrentType # E820_IGNORE
  /\ ~ExtendsLast
  /\ table' = Append(table, NewEntry(Current))
  /\ off' = off + 1
  /\ IF Len(table') > MaxEntries THEN Return(-1) ELSE UNCHANGED <<mpc, n>>
  /\ UNCHANGED <<firmwareVars, scratch, mkey, key>>

AppendEntry ==
  /\ InLoop
  /\ CurrentType # E820_IGNORE
  /\ ~ExtendsLast
  /\ table' = Append(table, NewEntry(Current))
  /\ off' = off + 1
  /\ IF Len(table') = MaxEntries THEN Return(-1) ELSE UNCHANGED <<mpc, n>>
  /\ UNCHANGED <<firmwareVars, scratch, mkey, key>>

MapDone ==
  /\ mpc = "loop"
  /\ off = Len(scratch)
  /\ Return(Len(table))
  /\ key' = mkey
  /\ UNCHANGED <<firmwareVars, scratch, mkey, off, table>>

process_memory_map ==
  \/ GetMemoryMapFails
  \/ GetMemoryMap
  \/ SkipIgnored
  \/ MergeIntoLast
  \/ AppendEntry
  \/ MapDone

(* boot_kernel calls it, here any number of times.                         *)
CallMap ==
  /\ mpc = "idle"
  /\ mpc' = "call"
  /\ UNCHANGED <<firmwareVars, scratch, mkey, off, table, n, key>>

MapNext == CallMap \/ process_memory_map \/ FirmwareChangesMap

MapSpec == MapInit /\ [][MapNext]_<<firmwareVars, mapVars>>

-----------------------------------------------------------------------------
MapTypeOK ==
  /\ fwmap \in Seq(Descriptor) /\ fwkey \in Nat
  /\ mpc \in {"idle", "call", "loop"}
  /\ scratch \in Seq(Descriptor) /\ mkey \in Nat
  /\ off \in 0 .. Len(scratch)
  /\ table \in Seq(Entry)
  /\ n \in Int
  /\ key \in Nat

Pages(first, count) == first .. first + count - 1

(* Pages that the first k descriptors of scratch give e820 type t.         *)
DescribedPages(k, t) ==
  UNION {Pages(scratch[i].start, scratch[i].pages) :
           i \in {j \in 1 .. k : e820type(scratch[j].type) = t}}

(* Pages of type t in the table.                                           *)
TablePages(t) ==
  UNION {Pages(table[i].addr, table[i].size) :
           i \in {j \in 1 .. Len(table) : table[j].type = t}}

(* At every moment of the loop of process_memory_map, and when it returns, *)
(* the e820 table describes exactly the pages of the descriptors that have *)
(* been read, each with its own type: nothing is lost, added, or given     *)
(* another type by merging neighbours and leaving out device memory.       *)
TableExact == \A t \in E820Type : TablePages(t) = DescribedPages(off, t)

(* Neighbours in the table could not have been one entry: a table that is  *)
(* refused as too large really has that many ranges.                       *)
TableMerged ==
  \A i \in 1 .. Len(table) - 1 :
    table[i].type = table[i + 1].type =>
      table[i].addr + table[i].size # table[i + 1].addr

(* process_memory_map never writes behind e820table, and a table it        *)
(* returns leaves the count within the byte that install_memmap stores.    *)
TableBound ==
  /\ Len(table) <= MaxEntries
  /\ mpc = "idle" /\ n >= 0 => n = Len(table) /\ n < MaxEntries
=============================================================================
