--------------------------- MODULE OsBoot_proofs ---------------------------
(***************************************************************************)
(* The hand-over of the machine to the kernel, for every memory map, every *)
(* kernel file and every change of the map by the firmware.                *)
(***************************************************************************)
EXTENDS OsBoot, TLAPS

-----------------------------------------------------------------------------
(* process_memory_map.                                                     *)

(* What holds at every moment of a call besides the three properties: the  *)
(* table has room for one more entry while the loop runs, and a count that *)
(* is returned belongs to a map that was read to its end.                  *)
MapProgress ==
  /\ Len(table) <= MaxEntries
  /\ mpc = "loop" => Len(table) < MaxEntries
  /\ mpc = "idle" /\ n >= 0 =>
       /\ n = Len(table) /\ n < MaxEntries
       /\ off = Len(scratch)

MapInv == MapTypeOK /\ TableExact /\ TableMerged /\ MapProgress

mapAll == <<firmwareVars, mapVars>>

(* Every memory type has an e820 type, E820_IGNORE or one of the table's.  *)
LEMMA E820TypeRange ==
  ASSUME NEW t \in MemoryType
  PROVE  e820type(t) = E820_IGNORE \/ e820type(t) \in E820Type
BY DEF e820type, E820Type, MemoryType, E820_IGNORE, E820_RAM,
           E820_RESERVED, E820_ACPI, E820_NVS, E820_UNUSABLE

(* E820_IGNORE is not a type that an entry of the table may have.          *)
LEMMA IgnoreNotInTable == E820_IGNORE \notin E820Type
BY DEF E820Type, E820_IGNORE, E820_RAM, E820_UNUSABLE

(* Reading one more descriptor adds its pages to those of its own type.    *)
LEMMA DescribedStep ==
  ASSUME MapTypeOK, InLoop, NEW t
  PROVE  DescribedPages(off + 1, t) =
           DescribedPages(off, t) \cup
             (IF CurrentType = t THEN Pages(Current.start, Current.pages)
                                 ELSE {})
<1> DEFINE Idx(k) == {j \in 1 .. k : e820type(scratch[j].type) = t}
           P(i) == Pages(scratch[i].start, scratch[i].pages)
<1>1. off \in Nat /\ off + 1 \in Nat
  BY DEF MapTypeOK
<1>2. Idx(off + 1) = Idx(off) \cup (IF CurrentType = t THEN {off + 1} ELSE {})
  <2>1. 1 .. off + 1 = (1 .. off) \cup {off + 1}
    BY <1>1
  <2> QED  BY <2>1, Zenon DEF CurrentType, Current
<1>3. DescribedPages(off + 1, t) = UNION {P(i) : i \in Idx(off + 1)}
  BY DEF DescribedPages
<1>4. DescribedPages(off, t) = UNION {P(i) : i \in Idx(off)}
  BY DEF DescribedPages
<1>5. P(off + 1) = Pages(Current.start, Current.pages)
  BY DEF Current
<1> HIDE DEF Idx, P
<1> QED  BY <1>2, <1>3, <1>4, <1>5

(* The pages of type t in any table T.                                     *)
PagesIn(T, t) ==
  UNION {Pages(T[i].addr, T[i].size) :
           i \in {j \in 1 .. Len(T) : T[j].type = t}}

(* A page is in a table exactly if one of its entries holds it.            *)
LEMMA InPagesIn ==
  ASSUME NEW T, NEW t, NEW p
  PROVE  p \in PagesIn(T, t) <=>
           \E i \in 1 .. Len(T) :
             T[i].type = t /\ p \in Pages(T[i].addr, T[i].size)
BY Zenon DEF PagesIn

(* Appending an entry adds exactly its pages, to its own type.             *)
LEMMA AppendPages ==
  ASSUME NEW T \in Seq(Entry), NEW e \in Entry, NEW t
  PROVE  PagesIn(Append(T, e), t) =
           PagesIn(T, t) \cup
             (IF e.type = t THEN Pages(e.addr, e.size) ELSE {})
<1> DEFINE U == Append(T, e)
<1>1. /\ Len(T) \in Nat /\ Len(U) = Len(T) + 1
      /\ U[Len(T) + 1] = e
      /\ \A i \in 1 .. Len(T) : U[i] = T[i]
  OBVIOUS
<1>2. 1 .. Len(U) = (1 .. Len(T)) \cup {Len(T) + 1}
  BY <1>1
<1> SUFFICES ASSUME NEW p
             PROVE  p \in PagesIn(U, t) <=>
                      \/ p \in PagesIn(T, t)
                      \/ e.type = t /\ p \in Pages(e.addr, e.size)
  OBVIOUS
<1> HIDE DEF U
<1>3. p \in PagesIn(U, t) <=>
        \E i \in 1 .. Len(U) : U[i].type = t /\ p \in Pages(U[i].addr, U[i].size)
  BY InPagesIn
<1>4. p \in PagesIn(T, t) <=>
        \E i \in 1 .. Len(T) : T[i].type = t /\ p \in Pages(T[i].addr, T[i].size)
  BY InPagesIn
<1> QED  BY <1>1, <1>2, <1>3, <1>4

(* Extending the last entry by the pages right behind it adds exactly      *)
(* those, to the entry's type.                                             *)
LEMMA MergePages ==
  ASSUME NEW T \in Seq(Entry), T # <<>>, NEW count \in Nat, NEW t
  PROVE  LET last == T[Len(T)]
             U == [T EXCEPT ![Len(T)].size = @ + count]
         IN  PagesIn(U, t) =
               PagesIn(T, t) \cup
                 (IF last.type = t
                  THEN Pages(last.addr + last.size, count) ELSE {})
<1> DEFINE last == T[Len(T)]
           U == [T EXCEPT ![Len(T)].size = @ + count]
<1>1. Len(T) \in 1 .. Len(T) /\ last \in Entry /\ Len(T) \in Nat
  OBVIOUS
<1>2. /\ Len(U) = Len(T)
      /\ \A i \in 1 .. Len(T) : i # Len(T) => U[i] = T[i]
      /\ U[Len(T)].addr = last.addr
      /\ U[Len(T)].type = last.type
      /\ U[Len(T)].size = last.size + count
  BY <1>1 DEF Entry
<1>3. Pages(last.addr, last.size + count) =
        Pages(last.addr, last.size) \cup Pages(last.addr + last.size, count)
  BY <1>1, SMTT(60) DEF Pages, Entry
<1> HIDE DEF U, last
<1>4. ASSUME NEW p
      PROVE  p \in PagesIn(U, t) <=>
               \/ p \in PagesIn(T, t)
               \/ /\ last.type = t
                  /\ p \in Pages(last.addr + last.size, count)
  <2>1. p \in Pages(last.addr, last.size + count) <=>
          \/ p \in Pages(last.addr, last.size)
          \/ p \in Pages(last.addr + last.size, count)
    BY <1>3
  <2>2. T[Len(T)] = last
    BY DEF last
  <2>3. p \in PagesIn(U, t) <=>
          \E i \in 1 .. Len(U) :
            U[i].type = t /\ p \in Pages(U[i].addr, U[i].size)
    BY InPagesIn
  <2>4. p \in PagesIn(T, t) <=>
          \E i \in 1 .. Len(T) :
            T[i].type = t /\ p \in Pages(T[i].addr, T[i].size)
    BY InPagesIn
  <2> QED  BY <1>1, <1>2, <2>1, <2>2, <2>3, <2>4
<1>5. PagesIn(U, t) =
        PagesIn(T, t) \cup
          (IF last.type = t THEN Pages(last.addr + last.size, count) ELSE {})
  BY <1>4
<1> QED  BY <1>5, Zenon DEF U, last

-----------------------------------------------------------------------------
(* The table of a call that has not begun is exact: nothing is in it.      *)
LEMMA InitMapInv == MapInit => MapInv
<1> SUFFICES ASSUME MapInit PROVE MapInv
  OBVIOUS
<1> USE MemMapAssumption
<1>1. MapTypeOK
  BY DEF MapInit, MapTypeOK
<1>2. Len(table) = 0 /\ off = 0 /\ Len(scratch) = 0
  BY DEF MapInit
<1>3. TableExact
  BY <1>2 DEF TableExact, TablePages, DescribedPages
<1>4. TableMerged /\ MapProgress
  BY <1>2 DEF MapInit, TableMerged, MapProgress
<1> QED  BY <1>1, <1>3, <1>4 DEF MapInv

(* What is known of a table holds as long as the table and the part of     *)
(* scratch it was made from are not touched.                               *)
LEMMA SameTable ==
  ASSUME TableExact, TableMerged, UNCHANGED <<scratch, off, table>>
  PROVE  TableExact' /\ TableMerged'
<1>1. ASSUME NEW t
      PROVE  /\ TablePages(t)' = TablePages(t)
             /\ DescribedPages(off, t)' = DescribedPages(off, t)
  BY DEF TablePages, DescribedPages
<1>2. TableExact'
  BY <1>1 DEF TableExact
<1>3. TableMerged'
  BY DEF TableMerged
<1> QED  BY <1>2, <1>3

(* A step that leaves the call's own variables alone, or only makes the    *)
(* call, keeps what is known of the table.                                 *)
LEMMA OutsideKeepsInv ==
  ASSUME MapInv, fwmap' \in Seq(Descriptor), fwkey' \in Nat,
         UNCHANGED <<scratch, mkey, off, table, n, key>>,
         mpc' = mpc \/ mpc' = "call"
  PROVE  MapInv'
<1>1. MapTypeOK'
  BY DEF MapInv, MapTypeOK
<1>2. TableExact' /\ TableMerged'
  BY SameTable DEF MapInv
<1>3. MapProgress'
  BY DEF MapInv, MapProgress
<1> QED  BY <1>1, <1>2, <1>3 DEF MapInv

(* A failed GetMemoryMap touches neither scratch nor the table.            *)
LEMMA GetMemoryMapFailsKeepsInv ==
  ASSUME MapInv, GetMemoryMapFails PROVE MapInv'
<1>1. MapTypeOK'
  BY DEF MapInv, MapTypeOK, GetMemoryMapFails, Return, firmwareVars
<1>2. TableExact' /\ TableMerged'
  BY SameTable DEF MapInv, GetMemoryMapFails
<1>3. MapProgress'
  BY DEF MapInv, MapProgress, GetMemoryMapFails, Return
<1> QED  BY <1>1, <1>2, <1>3 DEF MapInv

(* A successful one starts with an empty table.                            *)
LEMMA GetMemoryMapKeepsInv ==
  ASSUME MapInv, GetMemoryMap PROVE MapInv'
<1> USE MemMapAssumption
<1>1. MapTypeOK'
  BY DEF MapInv, MapTypeOK, GetMemoryMap, firmwareVars
<1>2. Len(table') = 0 /\ off' = 0
  BY DEF GetMemoryMap
<1>3. TableExact'
  BY <1>2 DEF TableExact, TablePages, DescribedPages
<1>4. TableMerged' /\ MapProgress'
  BY <1>2 DEF TableMerged, MapProgress, GetMemoryMap
<1> QED  BY <1>1, <1>3, <1>4 DEF MapInv

(* The descriptor at hand is one, and it is read by adding one to off.     *)
LEMMA CurrentFacts ==
  ASSUME MapInv, InLoop
  PROVE  /\ Current \in Descriptor
         /\ off + 1 \in 0 .. Len(scratch)
         /\ CurrentType = E820_IGNORE \/ CurrentType \in E820Type
<1>1. scratch \in Seq(Descriptor) /\ off \in 0 .. Len(scratch)
  BY DEF MapInv, MapTypeOK
<1>2. off + 1 \in 1 .. Len(scratch)
  BY <1>1 DEF InLoop
<1>3. Current \in Descriptor
  BY <1>1, <1>2 DEF Current
<1>4. Current.type \in MemoryType
  BY <1>3 DEF Descriptor
<1> QED  BY <1>2, <1>3, <1>4, E820TypeRange DEF CurrentType

(* Device memory is left out.                                              *)
LEMMA SkipIgnoredKeepsInv ==
  ASSUME MapInv, SkipIgnored PROVE MapInv'
<1>1. InLoop /\ CurrentType = E820_IGNORE /\ off' = off + 1
      /\ UNCHANGED <<fwmap, fwkey, mpc, scratch, mkey, table, n, key>>
  BY DEF SkipIgnored, firmwareVars
<1>2. MapTypeOK'
  BY <1>1, CurrentFacts DEF MapInv, MapTypeOK
<1>3. ASSUME NEW t \in E820Type PROVE TablePages(t)' = DescribedPages(off, t)'
  <2>1. DescribedPages(off + 1, t) = DescribedPages(off, t)
    BY <1>1, DescribedStep, IgnoreNotInTable, Zenon DEF MapInv
  <2>2. DescribedPages(off, t)' = DescribedPages(off + 1, t)
    BY <1>1 DEF DescribedPages
  <2>3. TablePages(t)' = TablePages(t)
    BY <1>1 DEF TablePages
  <2> QED  BY <2>1, <2>2, <2>3 DEF MapInv, TableExact
<1>4. TableMerged' /\ MapProgress'
  BY <1>1 DEF MapInv, TableMerged, MapProgress, InLoop
<1> QED  BY <1>2, <1>3, <1>4 DEF MapInv, TableExact

(* A descriptor that continues the last entry is merged into it.           *)
LEMMA MergeIntoLastKeepsInv ==
  ASSUME MapInv, MergeIntoLast PROVE MapInv'
<1> DEFINE last == table[Len(table)]
<1>1. /\ InLoop /\ CurrentType # E820_IGNORE /\ off' = off + 1
      /\ table # <<>>
      /\ last.type = CurrentType
      /\ last.addr + last.size = Current.start
      /\ table' = [table EXCEPT ![Len(table)].size = @ + Current.pages]
      /\ UNCHANGED <<fwmap, fwkey, mpc, scratch, mkey, n, key>>
  BY DEF MergeIntoLast, ExtendsLast, Extends, CurrentType, firmwareVars
<1>2. /\ table \in Seq(Entry) /\ Len(table) \in Nat
      /\ Len(table) \in 1 .. Len(table) /\ last \in Entry
  BY <1>1 DEF MapInv, MapTypeOK
<1>3. Current.pages \in Nat
  BY <1>1, CurrentFacts DEF Descriptor
<1>4. /\ table' \in Seq(Entry) /\ Len(table') = Len(table)
      /\ \A i \in 1 .. Len(table) :
           /\ table'[i].addr = table[i].addr
           /\ table'[i].type = table[i].type
           /\ i # Len(table) => table'[i] = table[i]
  <2> DEFINE grown == [last EXCEPT !.size = @ + Current.pages]
  <2>1. grown \in Entry /\ grown.addr = last.addr /\ grown.type = last.type
    BY <1>2, <1>3 DEF Entry
  <2>2. table' = [table EXCEPT ![Len(table)] = grown]
    BY <1>1
  <2> HIDE DEF grown, last
  <2>3. table' \in Seq(Entry) /\ Len(table') = Len(table)
    BY <1>2, <2>1, <2>2
  <2>4. \A i \in 1 .. Len(table) :
          table'[i] = IF i = Len(table) THEN grown ELSE table[i]
    BY <1>2, <2>2
  <2>5. last = table[Len(table)]
    BY DEF last
  <2> QED  BY <1>2, <2>1, <2>3, <2>4, <2>5
<1>5. MapTypeOK'
  BY <1>1, <1>4, CurrentFacts DEF MapInv, MapTypeOK
<1>6. ASSUME NEW t \in E820Type PROVE TablePages(t)' = DescribedPages(off, t)'
  <2>1. DescribedPages(off, t)' = DescribedPages(off + 1, t)
    BY <1>1 DEF DescribedPages
  <2>2. TablePages(t)' = PagesIn(table', t) /\ TablePages(t) = PagesIn(table, t)
    BY DEF TablePages, PagesIn
  <2>3. PagesIn(table', t) =
          PagesIn(table, t) \cup
            (IF last.type = t THEN Pages(last.addr + last.size, Current.pages)
                              ELSE {})
    BY <1>1, <1>2, <1>3, MergePages, ZenonT(60)
  <2>4. DescribedPages(off + 1, t) =
          DescribedPages(off, t) \cup
            (IF CurrentType = t THEN Pages(Current.start, Current.pages)
                                ELSE {})
    BY <1>1, DescribedStep DEF MapInv
  <2>5. TablePages(t) = DescribedPages(off, t)
    BY DEF MapInv, TableExact
  <2> QED  BY <1>1, <2>1, <2>2, <2>3, <2>4, <2>5, Zenon
<1>7. TableMerged'
  <2> SUFFICES ASSUME NEW i \in 1 .. Len(table') - 1,
                      table'[i].type = table'[i + 1].type
               PROVE  table'[i].addr + table'[i].size # table'[i + 1].addr
    BY DEF TableMerged
  <2>1. i \in 1 .. Len(table) /\ i + 1 \in 1 .. Len(table) /\ i # Len(table)
    BY <1>2, <1>4
  <2> QED  BY <1>4, <2>1 DEF MapInv, TableMerged
<1>8. MapProgress'
  BY <1>1, <1>4 DEF MapInv, MapProgress, InLoop
<1> QED  BY <1>5, <1>6, <1>7, <1>8 DEF MapInv, TableExact

(* Any other descriptor becomes an entry, which may fill the table.        *)
LEMMA AppendEntryKeepsInv ==
  ASSUME MapInv, AppendEntry PROVE MapInv'
<1> DEFINE e == NewEntry(Current)
<1>1. /\ InLoop /\ CurrentType # E820_IGNORE /\ off' = off + 1
      /\ ~ExtendsLast
      /\ table' = Append(table, e)
      /\ UNCHANGED <<fwmap, fwkey, scratch, mkey, key>>
  BY DEF AppendEntry, firmwareVars
<1>2. table \in Seq(Entry) /\ Len(table) \in Nat
  BY DEF MapInv, MapTypeOK
<1>3. /\ e \in Entry
      /\ e.type = CurrentType /\ e.addr = Current.start
      /\ e.size = Current.pages
  BY <1>1, CurrentFacts DEF NewEntry, Entry, Descriptor, CurrentType
<1> HIDE DEF e
<1>4. /\ table' \in Seq(Entry) /\ Len(table') = Len(table) + 1
      /\ table'[Len(table) + 1] = e
      /\ \A i \in 1 .. Len(table) : table'[i] = table[i]
  BY <1>1, <1>2, <1>3
<1>5. MapTypeOK'
  BY <1>1, <1>4, CurrentFacts
  DEF MapInv, MapTypeOK, AppendEntry, Return
<1>6. ASSUME NEW t \in E820Type PROVE TablePages(t)' = DescribedPages(off, t)'
  <2>1. DescribedPages(off, t)' = DescribedPages(off + 1, t)
    BY <1>1 DEF DescribedPages
  <2>2. TablePages(t)' = PagesIn(table', t) /\ TablePages(t) = PagesIn(table, t)
    BY DEF TablePages, PagesIn
  <2>3. PagesIn(table', t) =
          PagesIn(table, t) \cup
            (IF e.type = t THEN Pages(e.addr, e.size) ELSE {})
    BY <1>1, <1>2, <1>3, AppendPages
  <2>4. DescribedPages(off + 1, t) =
          DescribedPages(off, t) \cup
            (IF CurrentType = t THEN Pages(Current.start, Current.pages)
                                ELSE {})
    BY <1>1, DescribedStep DEF MapInv
  <2>5. TablePages(t) = DescribedPages(off, t)
    BY DEF MapInv, TableExact
  <2> QED  BY <1>3, <2>1, <2>2, <2>3, <2>4, <2>5, Zenon
<1>7. TableMerged'
  <2> SUFFICES ASSUME NEW i \in 1 .. Len(table') - 1,
                      table'[i].type = table'[i + 1].type
               PROVE  table'[i].addr + table'[i].size # table'[i + 1].addr
    BY DEF TableMerged
  <2>1. CASE i = Len(table)
    <3>1. table # <<>> /\ table[i].type = CurrentType
      BY <1>2, <1>3, <1>4, <2>1
    <3>2. table[i].addr + table[i].size # Current.start
      BY <1>1, <2>1, <3>1 DEF ExtendsLast, Extends, CurrentType
    <3> QED  BY <1>2, <1>3, <1>4, <2>1, <3>2
  <2>2. CASE i # Len(table)
    <3>1. i \in 1 .. Len(table) - 1 /\ i \in 1 .. Len(table)
          /\ i + 1 \in 1 .. Len(table)
      BY <1>2, <1>4, <2>2
    <3> QED  BY <1>4, <3>1 DEF MapInv, TableMerged
  <2> QED  BY <2>1, <2>2
<1>8. MapProgress'
  <2>1. Len(table) < MaxEntries
    BY <1>1 DEF MapInv, MapProgress, InLoop
  <2> QED  BY MemMapAssumption, <1>1, <1>2, <1>4, <2>1
           DEF AppendEntry, MapProgress, Return, InLoop
<1> QED  BY <1>5, <1>6, <1>7, <1>8 DEF MapInv, TableExact

(* The end of the loop returns the number of entries.                      *)
LEMMA MapDoneKeepsInv ==
  ASSUME MapInv, MapDone PROVE MapInv'
<1>1. MapTypeOK'
  BY DEF MapInv, MapTypeOK, MapDone, Return, firmwareVars
<1>2. TableExact' /\ TableMerged'
  BY SameTable DEF MapInv, MapDone
<1>3. MapProgress'
  BY DEF MapInv, MapProgress, MapDone, Return
<1> QED  BY <1>1, <1>2, <1>3 DEF MapInv

(* Every step of process_memory_map keeps the invariant.                   *)
LEMMA ProcessKeepsInv ==
  ASSUME MapInv, process_memory_map PROVE MapInv'
BY GetMemoryMapFailsKeepsInv, GetMemoryMapKeepsInv, SkipIgnoredKeepsInv,
   MergeIntoLastKeepsInv, AppendEntryKeepsInv, MapDoneKeepsInv
   DEF process_memory_map

(* So does every change the firmware makes to its own map.                 *)
LEMMA FirmwareKeepsInv ==
  ASSUME MapInv, FirmwareChangesMap PROVE MapInv'
<1>1. fwmap' \in Seq(Descriptor) /\ fwkey' \in Nat
  BY MemMapAssumption DEF FirmwareChangesMap, MapInv, MapTypeOK
<1> QED  BY <1>1, OutsideKeepsInv DEF FirmwareChangesMap, mapVars

-----------------------------------------------------------------------------
(* At every moment of process_memory_map (osboot.c) the table describes    *)
(* exactly the descriptors read so far (TableExact), has no two entries    *)
(* that could be one (TableMerged) and is never overrun (TableBound), for  *)
(* every memory map and every size of the table.                           *)
THEOREM MapCorrect == MapSpec => [](TableExact /\ TableMerged /\ TableBound)
<1>1. MapInit => MapInv
  BY InitMapInv
<1>2. MapInv /\ [MapNext]_mapAll => MapInv'
  <2> SUFFICES ASSUME MapInv, [MapNext]_mapAll PROVE MapInv'
    OBVIOUS
  <2>1. CASE CallMap
    BY <2>1, OutsideKeepsInv DEF CallMap, firmwareVars, MapInv, MapTypeOK
  <2>2. CASE UNCHANGED mapAll
    BY <2>2, OutsideKeepsInv
    DEF mapAll, firmwareVars, mapVars, MapInv, MapTypeOK
  <2> QED  BY <2>1, <2>2, ProcessKeepsInv, FirmwareKeepsInv DEF MapNext
<1>3. MapInv => TableExact /\ TableMerged /\ TableBound
  BY DEF MapInv, MapProgress, TableBound
<1> QED  BY <1>1, <1>2, <1>3, PTL DEF MapSpec, mapAll

-----------------------------------------------------------------------------
(* The loader.                                                             *)

Loading == {"local", "buffers", "netboot", "check", "zeropage", "cmdline",
            "image", "fill"}

(* How the loader's control relates to that of process_memory_map.         *)
Control ==
  /\ mpc = "idle" <=> pc # "map"
  /\ pc \in Loading => tries = 0
  /\ pc \in {"map", "exit", "kernel"} => tries \in 1 .. 2
  /\ n >= -1

(* A key names one map: as long as it is current, scratch still is the     *)
(* firmware's map.                                                         *)
KeyNamesMap ==
  /\ mkey <= fwkey
  /\ mpc = "loop" /\ mkey = fwkey => scratch = fwmap
  /\ pc \in {"exit", "kernel"} /\ n # -1 =>
       /\ key = mkey
       /\ key = fwkey => scratch = fwmap
  /\ pc = "kernel" => key = fwkey

BootInv == LoaderTypeOK /\ MapInv /\ Control /\ KeyNamesMap

(* Before anything is called no map is known.                              *)
LEMMA InitBootInv == Init => BootInv
<1> SUFFICES ASSUME Init PROVE BootInv
  OBVIOUS
<1>1. MapInv
  BY InitMapInv DEF Init
<1>2. LoaderTypeOK
  BY OsBootAssumption DEF Init, LoaderTypeOK, KernelFile, Blob, NothingHeld
<1>3. Control /\ KeyNamesMap
  BY DEF Init, MapInit, Control, KeyNamesMap, Loading
<1> QED  BY <1>1, <1>2, <1>3 DEF BootInv

(* A file that load_kernel accepts gets a whole number of pages.           *)
LEMMA PagesForType == ASSUME NEW f \in KernelFile PROVE PagesFor(f) \in Nat
<1>1. f.syssize \in Nat
  BY OsBootAssumption DEF KernelFile
<1>2. (f.syssize + 255) % Word32 \in Nat
  BY <1>1, OsBootAssumption
<1> QED  BY <1>2 DEF PagesFor

(* A record of an address and a size is a file in memory.                  *)
LEMMA BlobType ==
  ASSUME NEW A, NEW S, A \subseteq Nat, S \subseteq Nat,
         NEW b \in [addr : A, sz : S]
  PROVE  b \in Blob
<1>1. b = [addr |-> b.addr, sz |-> b.sz] /\ b.addr \in A /\ b.sz \in S
  OBVIOUS
<1>2. b.addr \in Nat /\ b.sz \in Nat
  BY <1>1, Zenon
<1> QED  BY <1>1, <1>2 DEF Blob

(* What the label fail of load_kernel leaves is counted in pages, too.     *)
LEMMA FreeAndFailType ==
  ASSUME LoaderTypeOK, FreeAndFail, pages' \in Nat
  PROVE  held' \in [zeropage : Int, cmdline : Int, image : Int]
<1>1. held.image \in Int /\ held.cmdline \in Int /\ held.zeropage \in Int
  BY DEF LoaderTypeOK
<1>2. /\ Freed(held.image, pages') \in Int
      /\ Freed(held.cmdline, 1) \in Int /\ Freed(held.zeropage, 1) \in Int
  BY <1>1 DEF Freed
<1> QED  BY <1>2 DEF FreeAndFail

(* Every step keeps the loader's variables within their types.             *)
LEMMA LoaderTypes ==
  ASSUME LoaderTypeOK, Control, Next
  PROVE  LoaderTypeOK'
<1> USE OsBootAssumption DEF LoaderTypeOK, Goto
<1>1. CASE LocalKernelMissing \/ BuffersAllocated \/ NetbootImpossible
  BY <1>1, Zenon DEF LocalKernelMissing, BuffersAllocated, NetbootImpossible,
              fileVars, loadVars
<1>2. CASE LocalFilesLoaded
  <2>1. kernel' \in KernelFile
    BY <1>2 DEF LocalFilesLoaded
  <2>2. ramdisk' \in Blob /\ cmdline' \in Blob
    <3>1. PoolAddr \cup {0} \subseteq Nat
      OBVIOUS
    <3> QED  BY <1>2, <3>1, BlobType, Zenon DEF LocalFilesLoaded
  <2> QED  BY <1>2, <2>1, <2>2 DEF LocalFilesLoaded, loadVars
<1>3. CASE NetbootBoots
  <2>1. kernel' \in KernelFile
    BY <1>3 DEF NetbootBoots
  <2>2. ramdisk' \in Blob /\ cmdline' \in Blob
    <3>1. Low \subseteq Nat /\ {CmdlineSize} \subseteq Nat
      BY DEF Low, CmdlineSize
    <3>2. {s \in RamdiskSizes : s < Bytes32} \subseteq Nat
      BY Zenon
    <3> QED  BY <1>3, <3>1, <3>2, BlobType, Zenon DEF NetbootBoots
  <2> QED  BY <1>3, <2>1, <2>2 DEF NetbootBoots, loadVars
<1>4. CASE CheckImage
  BY <1>4 DEF CheckImage, fileVars, loadVars
<1>5. CASE AllocateZeropage \/ AllocateCmdline
  <2>1. /\ UNCHANGED <<kernel, ramdisk, cmdline, tries, pages, zpBase, zpSize, cmdEnd>>
        /\ pc' \in {"failed", "cmdline", "image"}
    BY <1>5 DEF AllocateZeropage, AllocateCmdline, FreeAndFail, fileVars
  <2>2. \/ FreeAndFail
        \/ held' = [held EXCEPT !.zeropage = 1]
        \/ held' = [held EXCEPT !.cmdline = 1]
    BY <1>5, Zenon DEF AllocateZeropage, AllocateCmdline
  <2>3. held' \in [zeropage : Int, cmdline : Int, image : Int]
    BY <2>1, <2>2, FreeAndFailType
  <2> QED  BY <2>1, <2>3
<1>6. CASE AllocateImage
  <2>1. PagesFor(kernel) \in Nat
    BY PagesForType
  <2>2. CASE FreeAndFail
    <3>1. /\ pages' = PagesFor(kernel) /\ pc' = "failed"
          /\ UNCHANGED <<kernel, ramdisk, cmdline, tries, zpBase, zpSize, cmdEnd>>
      BY <1>6, <2>2 DEF AllocateImage, FreeAndFail, fileVars
    <3>2. held' \in [zeropage : Int, cmdline : Int, image : Int]
      BY <2>1, <2>2, <3>1, FreeAndFailType
    <3> QED  BY <2>1, <3>1, <3>2
  <2>3. CASE ~FreeAndFail
    <3>1. /\ pages' = PagesFor(kernel) /\ held' = [held EXCEPT !.image = pages' + 1]
          /\ zpBase' = 0 /\ zpSize' = 0 /\ cmdEnd' = 0 /\ pc' = "fill"
          /\ UNCHANGED <<kernel, ramdisk, cmdline, tries>>
      BY <1>6, <2>3 DEF AllocateImage, fileVars
    <3> QED  BY <2>1, <3>1
  <2> QED  BY <2>2, <2>3
<1>7. CASE FillZeropage
  <2>1. CutCmdline \in Nat /\ Word(ramdisk.addr) \in Nat /\ ramdisk.sz % Bytes32 \in Nat
    BY DEF Blob, CutCmdline, Word, Bytes32
  <2>2. cmdEnd' \in Nat /\ zpBase' \in Nat /\ zpSize' \in Nat
    BY <1>7, <2>1, Zenon DEF FillZeropage
  <2>3. tries' \in 0 .. 2
    BY <1>7 DEF FillZeropage, CallMapFrom, Control, Loading
  <2> QED  BY <1>7, <2>2, <2>3 DEF FillZeropage, CallMapFrom, fileVars
<1>8. CASE RunMap
  BY <1>8 DEF RunMap, fileVars, loadVars
<1>9. CASE ExitSucceeds \/ ExitFails
  BY <1>9, Zenon DEF ExitSucceeds, ExitFails, fileVars, loadVars
<1>10. CASE ExitStaleKey
  BY <1>10 DEF ExitStaleKey, CallMapFrom, fileVars, loadVars
<1>11. CASE FirmwareActs
  BY <1>11 DEF FirmwareActs, fileVars, loadVars
<1> QED  BY <1>1, <1>2, <1>3, <1>4, <1>5, <1>6, <1>7, <1>8, <1>9, <1>10,
            <1>11 DEF Next, LoaderNext

(* What the loader's steps outside process_memory_map have in common.      *)
Outside ==
  /\ UNCHANGED <<fwmap, fwkey, scratch, mkey, off, table, n, key>>
  /\ \/ /\ mpc' = mpc /\ tries' = tries /\ pc # "map" /\ pc' # "map"
        /\ pc' = "exit" => FALSE
        /\ pc' \in Loading => pc \in Loading
        /\ pc' = "kernel" => pc = "exit" /\ key = fwkey
     \/ /\ pc = "fill" \/ (pc = "exit" /\ tries = 1)
        /\ mpc' = "call" /\ tries' = tries + 1 /\ pc' = "map"

(* Every step of the loader but those of process_memory_map is of that     *)
(* kind: in particular the kernel is only entered from a successful        *)
(* ExitBootServices.                                                       *)
LEMMA LoaderOutside ==
  ASSUME LoaderTypeOK, LoaderNext, ~RunMap
  PROVE  Outside
<1> USE DEF LoaderTypeOK, Goto, Outside, Loading, firmwareVars, mapVars
<1>1. CASE LocalKernelMissing \/ BuffersAllocated \/ NetbootImpossible
  BY <1>1 DEF LocalKernelMissing, BuffersAllocated, NetbootImpossible
<1>2. CASE LocalFilesLoaded \/ NetbootBoots \/ CheckImage
  <2>1. /\ UNCHANGED <<fwmap, fwkey, scratch, mkey, off, table, n, key>>
        /\ mpc' = mpc /\ tries' = tries
        /\ pc \in {"local", "netboot", "check"}
        /\ pc' \in {"check", "zeropage", "failed"}
    BY <1>2 DEF LocalFilesLoaded, NetbootBoots, CheckImage
  <2> QED  BY <2>1
<1>3. CASE AllocateZeropage \/ AllocateCmdline \/ AllocateImage
  <2>1. /\ UNCHANGED <<fwmap, fwkey, scratch, mkey, off, table, n, key>>
        /\ mpc' = mpc /\ tries' = tries
        /\ pc \in {"zeropage", "cmdline", "image"}
        /\ pc' \in {"cmdline", "image", "fill", "failed"}
    <3>1. CASE AllocateZeropage
      BY <3>1 DEF AllocateZeropage, FreeAndFail
    <3>2. CASE AllocateCmdline
      BY <3>2 DEF AllocateCmdline, FreeAndFail
    <3>3. CASE AllocateImage
      BY <3>3 DEF AllocateImage, FreeAndFail
    <3> QED  BY <1>3, <3>1, <3>2, <3>3
  <2> QED  BY <2>1
<1>4. CASE FillZeropage \/ ExitStaleKey
  <2>1. /\ UNCHANGED <<fwmap, fwkey, scratch, mkey, off, table, n, key>>
        /\ pc = "fill" \/ (pc = "exit" /\ tries = 1)
        /\ mpc' = "call" /\ tries' = tries + 1 /\ pc' = "map"
    <3>1. CASE FillZeropage
      <4>1. CallMapFrom("fill")
        BY <3>1, Zenon DEF FillZeropage
      <4> QED  BY <4>1 DEF CallMapFrom
    <3>2. CASE ExitStaleKey
      BY <3>2 DEF ExitStaleKey, CallMapFrom
    <3> QED  BY <1>4, <3>1, <3>2
  <2> QED  BY <2>1
<1>5. CASE ExitSucceeds \/ ExitFails
  BY <1>5 DEF ExitSucceeds, ExitFails
<1> QED  BY <1>1, <1>2, <1>3, <1>4, <1>5 DEF LoaderNext

(* Such a step keeps the invariant.                                        *)
LEMMA OutsideKeepsBootInv ==
  ASSUME BootInv, Outside
  PROVE  MapInv' /\ Control' /\ KeyNamesMap'
<1>1. MapInv'
  BY OutsideKeepsInv DEF Outside, BootInv, MapInv, MapTypeOK
<1>2. Control'
  BY DEF Outside, BootInv, Control, Loading, LoaderTypeOK
<1>3. KeyNamesMap'
  BY DEF Outside, BootInv, Control, KeyNamesMap
<1> QED  BY <1>1, <1>2, <1>3

(* So does a step of process_memory_map: it returns -1, or the key of the  *)
(* map that scratch holds.                                                 *)
LEMMA RunMapKeepsBootInv ==
  ASSUME BootInv, RunMap
  PROVE  MapInv' /\ Control' /\ KeyNamesMap'
<1> USE DEF BootInv, RunMap, Goto, Control, Return, firmwareVars
<1>1. MapInv'
  BY ProcessKeepsInv
<1>2. CASE GetMemoryMapFails
  <2>1. Control'
    BY <1>2 DEF GetMemoryMapFails, Loading
  <2>2. KeyNamesMap'
    BY <1>2 DEF GetMemoryMapFails, KeyNamesMap, MapInv, MapTypeOK
  <2> QED  BY <1>1, <2>1, <2>2
<1>3. CASE GetMemoryMap
  <2>1. Control'
    BY <1>3 DEF GetMemoryMap, Loading
  <2>2. KeyNamesMap'
    BY <1>3 DEF GetMemoryMap, KeyNamesMap, MapInv, MapTypeOK
  <2> QED  BY <1>1, <2>1, <2>2
<1>4. CASE SkipIgnored \/ MergeIntoLast
  <2>1. UNCHANGED <<fwmap, fwkey, mpc, scratch, mkey, n, key>> /\ mpc = "loop"
    BY <1>4 DEF SkipIgnored, MergeIntoLast, InLoop
  <2>2. Control'
    BY <2>1 DEF Loading
  <2>3. KeyNamesMap'
    BY <2>1 DEF KeyNamesMap
  <2> QED  BY <1>1, <2>2, <2>3
<1>5. CASE AppendEntry
  <2>1. UNCHANGED <<fwmap, fwkey, scratch, mkey, key>> /\ mpc = "loop"
    BY <1>5 DEF AppendEntry, InLoop
  <2>2. \/ mpc' = "idle" /\ n' = -1
        \/ mpc' = mpc /\ n' = n
    BY <1>5 DEF AppendEntry
  <2>3. Control'
    BY <2>1, <2>2 DEF Loading
  <2>4. KeyNamesMap'
    BY <2>1, <2>2 DEF KeyNamesMap
  <2> QED  BY <1>1, <2>3, <2>4
<1>6. CASE MapDone
  <2>1. Control'
    <3>1. Len(table) \in Nat
      BY DEF MapInv, MapTypeOK
    <3> QED  BY <1>6, <3>1 DEF MapDone, Loading
  <2>2. KeyNamesMap'
    BY <1>6 DEF MapDone, KeyNamesMap
  <2> QED  BY <1>1, <2>1, <2>2
<1> QED  BY <1>2, <1>3, <1>4, <1>5, <1>6 DEF process_memory_map

(* A change of the firmware's map makes every key that was handed out      *)
(* stale, so it claims nothing any more.                                   *)
LEMMA FirmwareKeepsBootInv ==
  ASSUME BootInv, FirmwareActs
  PROVE  MapInv' /\ Control' /\ KeyNamesMap'
<1>1. MapInv'
  BY FirmwareKeepsInv DEF FirmwareActs, BootInv
<1>2. Control'
  BY DEF FirmwareActs, FirmwareChangesMap, BootInv, Control, mapVars, Loading
<1>3. fwkey' = fwkey + 1 /\ fwkey \in Nat /\ mkey \in Nat
  BY DEF FirmwareActs, FirmwareChangesMap, BootInv, MapInv, MapTypeOK
<1>4. KeyNamesMap'
  BY <1>3 DEF FirmwareActs, FirmwareChangesMap, BootInv, KeyNamesMap, mapVars
<1> QED  BY <1>1, <1>2, <1>4

(* BootInv is inductive.                                                   *)
LEMMA NextBootInv == BootInv /\ [Next]_vars => BootInv'
<1> SUFFICES ASSUME BootInv, [Next]_vars PROVE BootInv'
  OBVIOUS
<1>1. CASE LoaderNext /\ ~RunMap
  <2>1. Outside
    BY <1>1, LoaderOutside DEF BootInv
  <2> QED  BY <1>1, <2>1, LoaderTypes, OutsideKeepsBootInv DEF BootInv, Next
<1>2. CASE RunMap
  BY <1>2, RunMapKeepsBootInv, LoaderTypes DEF BootInv, Next, LoaderNext
<1>3. CASE FirmwareActs
  BY <1>3, FirmwareKeepsBootInv, LoaderTypes DEF BootInv, Next
<1>4. CASE UNCHANGED vars
  <2>1. MapInv'
    BY <1>4, OutsideKeepsInv
    DEF vars, firmwareVars, mapVars, BootInv, MapInv, MapTypeOK
  <2>2. LoaderTypeOK' /\ Control' /\ KeyNamesMap'
    BY <1>4 DEF vars, firmwareVars, mapVars, fileVars, loadVars, BootInv,
                LoaderTypeOK, Control, KeyNamesMap
  <2> QED  BY <2>1, <2>2 DEF BootInv
<1> QED  BY <1>1, <1>2, <1>3, <1>4 DEF Next

(* BootInv holds in every state.                                           *)
LEMMA BootInvHolds == Spec => []BootInv
BY InitBootInv, NextBootInv, PTL DEF Spec

-----------------------------------------------------------------------------
(* The map that boot_kernel (osboot.c) hands to the kernel is exactly the  *)
(* firmware's at the moment boot services ended, for every map and however *)
(* often the firmware changes it before and between the two attempts.      *)
THEOREM KernelMapCurrentHolds == Spec => []KernelMapCurrent
<1>1. BootInv => KernelMapCurrent
  <2> SUFFICES ASSUME BootInv, pc = "kernel", n # -1
               PROVE  /\ n = Len(table)
                      /\ \A t \in E820Type : TablePages(t) = FirmwarePages(t)
    BY DEF KernelMapCurrent
  <2>1. mpc = "idle" /\ n >= 0
    BY DEF BootInv, Control, MapInv, MapTypeOK
  <2>2. n = Len(table) /\ off = Len(scratch) /\ scratch = fwmap
    BY <2>1 DEF BootInv, MapInv, MapProgress, KeyNamesMap
  <2>3. ASSUME NEW t \in E820Type PROVE TablePages(t) = FirmwarePages(t)
    BY <2>2 DEF BootInv, MapInv, TableExact, DescribedPages, FirmwarePages
  <2> QED  BY <2>2, <2>3
<1> QED  BY <1>1, BootInvHolds, PTL

-----------------------------------------------------------------------------
(* How many pages load_kernel holds at each of its steps.                  *)
HeldInv ==
  /\ pc \in {"local", "buffers", "netboot", "check", "zeropage"} =>
       held = NothingHeld
  /\ pc = "cmdline" => held = [zeropage |-> 1, cmdline |-> 0, image |-> 0]
  /\ pc = "image" => held = [zeropage |-> 1, cmdline |-> 1, image |-> 0]
  /\ pc \in {"fill", "map", "exit", "kernel"} =>
       held = [zeropage |-> 1, cmdline |-> 1, image |-> pages + 1]
  /\ pc = "failed" /\ tries = 0 => held = NothingHeld

(* The steps that neither allocate nor free.                               *)
LEMMA HeldElsewhere ==
  ASSUME LoaderTypeOK, Control, HeldInv, Next,
         ~AllocateZeropage, ~AllocateCmdline, ~AllocateImage
  PROVE  HeldInv'
<1> USE DEF LoaderTypeOK, HeldInv, Goto, loadVars
<1>1. CASE LocalKernelMissing \/ BuffersAllocated \/ NetbootImpossible
  BY <1>1, Zenon DEF LocalKernelMissing, BuffersAllocated, NetbootImpossible
<1>2. CASE LocalFilesLoaded
  BY <1>2 DEF LocalFilesLoaded
<1>3. CASE NetbootBoots
  BY <1>3 DEF NetbootBoots
<1>4. CASE CheckImage
  BY <1>4 DEF CheckImage
<1>5. CASE FillZeropage
  <2>1. pc = "fill" /\ pc' = "map" /\ held' = held /\ pages' = pages
    BY <1>5, Zenon DEF FillZeropage, CallMapFrom
  <2> QED  BY <2>1
<1>6. CASE RunMap
  BY <1>6 DEF RunMap
<1>7. CASE ExitSucceeds
  BY <1>7 DEF ExitSucceeds
<1>8. CASE ExitFails
  BY <1>8 DEF ExitFails, Control
<1>9. CASE ExitStaleKey
  BY <1>9 DEF ExitStaleKey, CallMapFrom
<1>10. CASE FirmwareActs
  BY <1>10 DEF FirmwareActs
<1> QED  BY <1>1, <1>2, <1>3, <1>4, <1>5, <1>6, <1>7, <1>8, <1>9, <1>10
         DEF Next, LoaderNext

(* Every step keeps what is known of the memory held.                      *)
LEMMA NextHeldInv == BootInv /\ HeldInv /\ [Next]_vars => HeldInv'
<1> SUFFICES ASSUME BootInv, HeldInv, [Next]_vars PROVE HeldInv'
  OBVIOUS
<1>1. CASE AllocateZeropage
  <2>1. pc = "zeropage" /\ held = NothingHeld
    BY <1>1 DEF AllocateZeropage, HeldInv
  <2>2. \/ pc' = "failed" /\ held' = NothingHeld
        \/ pc' = "cmdline" /\ held' = [zeropage |-> 1, cmdline |-> 0, image |-> 0]
    BY <1>1, <2>1 DEF AllocateZeropage, FreeAndFail, Freed, NothingHeld, Goto
  <2> QED  BY <2>2 DEF HeldInv
<1>2. CASE AllocateCmdline
  <2>1. held = [zeropage |-> 1, cmdline |-> 0, image |-> 0]
    BY <1>2 DEF AllocateCmdline, HeldInv
  <2>2. \/ pc' = "failed" /\ held' = NothingHeld
        \/ pc' = "image" /\ held' = [zeropage |-> 1, cmdline |-> 1, image |-> 0]
    BY <1>2, <2>1 DEF AllocateCmdline, FreeAndFail, Freed, NothingHeld, Goto
  <2> QED  BY <2>2 DEF HeldInv
<1>3. CASE AllocateImage
  <2>1. held = [zeropage |-> 1, cmdline |-> 1, image |-> 0]
    BY <1>3 DEF AllocateImage, HeldInv
  <2>2. \/ pc' = "failed" /\ held' = NothingHeld
        \/ pc' = "fill" /\ held' = [zeropage |-> 1, cmdline |-> 1, image |-> pages' + 1]
    BY <1>3, <2>1 DEF AllocateImage, FreeAndFail, Freed, NothingHeld, Goto
  <2> QED  BY <2>2 DEF HeldInv
<1>4. CASE UNCHANGED vars
  BY <1>4 DEF vars, loadVars, HeldInv
<1> QED  BY <1>1, <1>2, <1>3, <1>4, HeldElsewhere DEF BootInv

(* HeldInv holds in every state.                                           *)
LEMMA HeldInvHolds == Spec => []HeldInv
<1>1. Init => HeldInv
  BY DEF Init, HeldInv
<1> QED  BY <1>1, NextHeldInv, BootInvHolds, PTL DEF Spec

(* load_kernel gives back every page when one of its allocations fails,    *)
(* and the kernel is started with all of them.                             *)
THEOREM LoadIsAllOrNothingHolds == Spec => []LoadIsAllOrNothing
<1>1. HeldInv => LoadIsAllOrNothing
  BY DEF HeldInv, LoadIsAllOrNothing
<1> QED  BY <1>1, HeldInvHolds, PTL

-----------------------------------------------------------------------------
(* A refused ExitBootServices silences the firmware: what the second       *)
(* attempt reads stays current.                                            *)
SecondTry ==
  tries = 2 =>
    /\ mpc = "loop" => mkey = fwkey
    /\ pc = "exit" /\ n # -1 => key = fwkey

(* Every step keeps SecondTry if the firmware is quiet.                    *)
LEMMA NextSecondTry ==
  QuietAfterExit /\ BootInv /\ SecondTry /\ [Next]_vars => SecondTry'
<1> SUFFICES ASSUME QuietAfterExit, BootInv, SecondTry, [Next]_vars
             PROVE  SecondTry'
  OBVIOUS
<1>1. CASE LoaderNext /\ ~RunMap
  <2>1. Outside
    BY <1>1, LoaderOutside DEF BootInv
  <2> QED  BY <2>1 DEF Outside, SecondTry, BootInv, Control
<1>2. CASE RunMap
  <2>1. tries' = tries /\ pc = "map" /\ (pc' = "exit" <=> mpc' = "idle")
    BY <1>2 DEF RunMap, Goto
  <2>2. CASE GetMemoryMapFails
    BY <2>1, <2>2 DEF GetMemoryMapFails, Return, SecondTry
  <2>3. CASE GetMemoryMap
    BY <2>1, <2>3 DEF GetMemoryMap, SecondTry, firmwareVars
  <2>4. CASE SkipIgnored \/ MergeIntoLast
    BY <2>1, <2>4 DEF SkipIgnored, MergeIntoLast, InLoop, SecondTry,
                      firmwareVars
  <2>5. CASE AppendEntry
    <3>1. fwkey' = fwkey /\ mkey' = mkey /\ mpc = "loop"
          /\ ((mpc' = "idle" /\ n' = -1) \/ mpc' = mpc)
      BY <2>5 DEF AppendEntry, Return, InLoop, firmwareVars
    <3> QED  BY <2>1, <3>1 DEF SecondTry
  <2>6. CASE MapDone
    BY <2>1, <2>6 DEF MapDone, Return, SecondTry, firmwareVars
  <2> QED  BY <1>2, <2>2, <2>3, <2>4, <2>5, <2>6 DEF RunMap, process_memory_map
<1>3. CASE FirmwareActs
  BY <1>3 DEF FirmwareActs, SecondTry, BootInv, LoaderTypeOK
<1>4. CASE UNCHANGED vars
  BY <1>4 DEF vars, firmwareVars, mapVars, SecondTry
<1> QED  BY <1>1, <1>2, <1>3, <1>4 DEF Next

(* The one retry of boot_kernel is enough if the firmware is quiet after   *)
(* it has refused ExitBootServices.                                        *)
THEOREM OneRetryIsEnough ==
  ASSUME QuietAfterExit
  PROVE  Spec => []SecondKeyCurrent
<1>1. Init => SecondTry
  BY DEF Init, SecondTry
<1>2. SecondTry => SecondKeyCurrent
  BY DEF SecondTry, SecondKeyCurrent
<1>3. BootInv /\ SecondTry /\ [Next]_vars => SecondTry'
  BY NextSecondTry
<1> QED  BY <1>1, <1>2, <1>3, BootInvHolds, PTL DEF Spec

-----------------------------------------------------------------------------
Chosen == {"check", "zeropage", "cmdline", "image"}

(* What has been checked of the kernel file when its image is copied.      *)
ImageInv ==
  /\ pc \in Chosen => kernel \in KernelFiles
  /\ pc \in Chosen \ {"check"} => ImageAccepted(kernel)
  /\ ImageWithinFile

(* An accepted file without wrapping sizes has its image inside, and gets  *)
(* enough pages for it.                                                    *)
LEMMA AcceptedFits ==
  ASSUME NEW f \in KernelFiles, SumsFit(f), ImageAccepted(f)
  PROVE  /\ Setup(f) + f.syssize <= (f.sz + 15) \div 16
         /\ f.syssize <= PagesFor(f) * 256
<1>1. f.syssize \in Nat /\ Setup(f) \in Nat /\ Word32 \in Nat
  BY OsBootAssumption DEF KernelFile, Setup
<1>2. Setup(f) + f.syssize + 255 < Word32
  BY DEF SumsFit
<1> DEFINE sum == Setup(f) + f.syssize
           up == f.syssize + 255
<1>3. sum \in Nat /\ up \in Nat /\ sum < Word32 /\ up < Word32
  BY <1>1, <1>2
<1>4. \A a \in Nat : a < Word32 => a % Word32 = a
  BY <1>1
<1>5. sum % Word32 = sum /\ up % Word32 = up
  BY <1>3, <1>4
<1>6. sum <= (f.sz + 15) \div 16
  BY <1>5 DEF ImageAccepted
<1>7. PagesFor(f) = up \div 256
  BY <1>5 DEF PagesFor
<1>8. f.syssize <= (up \div 256) * 256
  BY <1>1
<1> QED  BY <1>6, <1>7, <1>8

(* Every step keeps ImageInv.                                              *)
LEMMA NextImageInv ==
  ASSUME BootInv, HeldInv, ImageInv, [Next]_vars
  PROVE  ImageInv'
<1>1. CASE LocalFilesLoaded \/ NetbootBoots
  <2>1. kernel' \in KernelFiles /\ pc' = "check" /\ held'.image = 0
    BY <1>1 DEF LocalFilesLoaded, NetbootBoots, HeldInv, NothingHeld, Goto, loadVars
  <2> QED  BY <2>1 DEF ImageInv, ImageWithinFile, Chosen
<1>2. CASE CheckImage
  <2>1. /\ kernel' = kernel /\ kernel \in KernelFiles /\ held'.image = 0
        /\ pc' = "zeropage" => ImageAccepted(kernel)
        /\ pc' \in {"zeropage", "failed"}
    BY <1>2 DEF CheckImage, HeldInv, NothingHeld, ImageInv, Goto, loadVars,
                fileVars, Chosen
  <2> QED  BY <2>1 DEF ImageInv, ImageWithinFile, Chosen, ImageAccepted, Setup
<1>3. CASE AllocateZeropage \/ AllocateCmdline
  <2>1. held'.image = 0
    BY <1>3, NextHeldInv DEF AllocateZeropage, AllocateCmdline, FreeAndFail,
                Freed, HeldInv, NothingHeld
  <2>2. /\ kernel' = kernel /\ pc \in Chosen \ {"check"}
        /\ pc' \in {"cmdline", "image", "failed"}
    BY <1>3 DEF AllocateZeropage, AllocateCmdline, FreeAndFail, Goto, fileVars, Chosen
  <2> QED  BY <2>1, <2>2 DEF ImageInv, ImageWithinFile, Chosen, ImageAccepted, Setup
<1>4. CASE AllocateImage
  <2>1. kernel' = kernel /\ pc = "image"
    BY <1>4 DEF AllocateImage, fileVars
  <2>2. CASE FreeAndFail
    <3>1. held'.image = 0 /\ pc' = "failed"
      BY <2>1, <2>2 DEF FreeAndFail, Freed, HeldInv, Goto
    <3> QED  BY <3>1 DEF ImageInv, ImageWithinFile, Chosen
  <2>3. CASE ~FreeAndFail
    <3>1. pages' = PagesFor(kernel) /\ pc' = "fill"
      BY <1>4, <2>3 DEF AllocateImage, Goto
    <3>2. kernel \in KernelFiles /\ ImageAccepted(kernel)
      BY <2>1 DEF ImageInv, Chosen
    <3>3. SumsFit(kernel) =>
            /\ Setup(kernel) + kernel.syssize <= (kernel.sz + 15) \div 16
            /\ kernel.syssize <= PagesFor(kernel) * 256
      BY <3>2, AcceptedFits
    <3>4. ImageWithinFile'
      BY <2>1, <3>1, <3>3, Zenon DEF ImageWithinFile, Setup, SumsFit
    <3> QED  BY <3>1, <3>4 DEF ImageInv, Chosen
  <2> QED  BY <2>2, <2>3
<1>5. ASSUME UNCHANGED <<kernel, held, pages>>, pc' \notin Chosen
      PROVE  ImageInv'
  BY <1>5 DEF ImageInv, ImageWithinFile, Setup, SumsFit
<1>6. CASE LocalKernelMissing \/ BuffersAllocated \/ NetbootImpossible
  BY <1>5, <1>6 DEF LocalKernelMissing, BuffersAllocated, NetbootImpossible,
                    Goto, fileVars, loadVars, Chosen
<1>7. CASE FillZeropage
  <2>1. UNCHANGED <<kernel, held, pages>> /\ pc' = "map"
    BY <1>7, Zenon DEF FillZeropage, CallMapFrom, Goto, fileVars
  <2> QED  BY <1>5, <2>1 DEF Chosen
<1>8. CASE ExitSucceeds \/ ExitFails \/ RunMap
  BY <1>5, <1>8 DEF ExitSucceeds, ExitFails, RunMap, Goto, fileVars, loadVars,
                    Chosen
<1>9. CASE ExitStaleKey
  BY <1>5, <1>9 DEF ExitStaleKey, CallMapFrom, Goto, fileVars, loadVars, Chosen
<1>10. CASE FirmwareActs
  BY <1>5, <1>10 DEF FirmwareActs, fileVars, loadVars, Chosen
<1>11. CASE UNCHANGED vars
  BY <1>11 DEF vars, fileVars, loadVars, ImageInv, ImageWithinFile, Setup,
               SumsFit, ImageAccepted
<1> QED  BY <1>1, <1>2, <1>3, <1>4, <1>6, <1>7, <1>8, <1>9, <1>10, <1>11
         DEF Next, LoaderNext

(* The image that load_kernel copies lies within the file and its pages,   *)
(* for every kernel file whose header holds sizes that do not wrap around. *)
THEOREM ImageWithinFileHolds == Spec => []ImageWithinFile
<1>1. Init => ImageInv
  BY DEF Init, NothingHeld, ImageInv, ImageWithinFile, Chosen
<1>2. BootInv /\ HeldInv /\ ImageInv /\ [Next]_vars => ImageInv'
  BY NextImageInv
<1>3. ImageInv => ImageWithinFile
  BY DEF ImageInv
<1> QED  BY <1>1, <1>2, <1>3, BootInvHolds, HeldInvHolds, PTL DEF Spec

-----------------------------------------------------------------------------
(* The parameters in the zero page and the command line page are right.    *)
Params ==
  /\ IF ramdisk.addr # 0 /\ ramdisk.sz > 0
     THEN FitsWords(ramdisk) => zpBase = ramdisk.addr /\ zpSize = ramdisk.sz
     ELSE zpBase = 0 /\ zpSize = 0
  /\ cmdEnd <= 4095
  /\ cmdline.addr = 0 => cmdEnd = 0
  /\ cmdline.addr # 0 /\ cmdline.sz < 4096 => cmdEnd = cmdline.sz

Filled == {"map", "exit", "kernel"}

ParamInv ==
  /\ pc = "fill" => zpBase = 0 /\ zpSize = 0 /\ cmdEnd = 0
  /\ pc \in Filled => Params

(* boot_kernel fills them in from the defaults that load_kernel left.      *)
LEMMA FillGivesParams ==
  ASSUME LoaderTypeOK, ParamInv, FillZeropage
  PROVE  Params'
<1>1. /\ pc = "fill"
      /\ cmdEnd' = IF cmdline.addr # 0 THEN CutCmdline ELSE cmdEnd
      /\ zpBase' = IF HasRamdisk THEN Word(ramdisk.addr) ELSE zpBase
      /\ zpSize' = IF HasRamdisk THEN ramdisk.sz % Bytes32 ELSE zpSize
      /\ ramdisk' = ramdisk /\ cmdline' = cmdline
  BY Zenon DEF FillZeropage, CallMapFrom, fileVars
<1>2. zpBase = 0 /\ zpSize = 0 /\ cmdEnd = 0
  BY <1>1, Zenon DEF ParamInv
<1>3. FitsWords(ramdisk) =>
        Word(ramdisk.addr) = ramdisk.addr /\ ramdisk.sz % Bytes32 = ramdisk.sz
  <2>1. ramdisk.addr \in Nat /\ ramdisk.sz \in Nat /\ Bytes32 \in Nat
    BY OsBootAssumption DEF LoaderTypeOK, Blob, Bytes32
  <2>2. \A a, b \in Nat : a < b => a % b = a
    OBVIOUS
  <2> QED  BY <2>1, <2>2 DEF FitsWords, Word
<1>4. cmdline.sz \in Nat
  BY DEF LoaderTypeOK, Blob
<1>5. IF ramdisk.addr # 0 /\ ramdisk.sz > 0
      THEN FitsWords(ramdisk) => zpBase' = ramdisk.addr /\ zpSize' = ramdisk.sz
      ELSE zpBase' = 0 /\ zpSize' = 0
  BY <1>1, <1>2, <1>3, Zenon DEF HasRamdisk
<1>6. /\ cmdEnd' <= 4095
      /\ cmdline.addr = 0 => cmdEnd' = 0
      /\ cmdline.addr # 0 /\ cmdline.sz < 4096 => cmdEnd' = cmdline.sz
  BY <1>1, <1>2, <1>4 DEF CutCmdline
<1> QED  BY <1>1, <1>5, <1>6 DEF Params, FitsWords

(* Every step keeps ParamInv.                                              *)
LEMMA NextParamInv ==
  ASSUME BootInv, ParamInv, [Next]_vars
  PROVE  ParamInv'
<1> USE DEF Filled
<1>1. ASSUME pc' \notin Filled \cup {"fill"} PROVE ParamInv'
  BY <1>1 DEF ParamInv
<1>2. ASSUME pc \in Filled, pc' \in Filled,
             UNCHANGED <<ramdisk, cmdline, zpBase, zpSize, cmdEnd>>
      PROVE  ParamInv'
  BY <1>2 DEF ParamInv, Params, FitsWords
<1>3. CASE LocalFilesLoaded \/ NetbootBoots
  <2>1. pc' = "check"
    BY <1>3, Zenon DEF LocalFilesLoaded, NetbootBoots, Goto
  <2> QED  BY <1>1, <2>1
<1>4. CASE CheckImage \/ AllocateZeropage \/ AllocateCmdline
  <2>1. pc' \in {"zeropage", "cmdline", "image", "failed"}
    BY <1>4 DEF CheckImage, AllocateZeropage, AllocateCmdline, FreeAndFail, Goto
  <2> QED  BY <1>1, <2>1
<1>5. CASE AllocateImage
  <2>1. \/ pc' = "failed"
        \/ pc' = "fill" /\ zpBase' = 0 /\ zpSize' = 0 /\ cmdEnd' = 0
    BY <1>5, Zenon DEF AllocateImage, FreeAndFail, Goto
  <2> QED  BY <1>1, <2>1 DEF ParamInv
<1>6. CASE FillZeropage
  <2>1. pc' = "map"
    BY <1>6, Zenon DEF FillZeropage, CallMapFrom, Goto
  <2>2. Params'
    BY <1>6, FillGivesParams DEF BootInv
  <2> QED  BY <2>1, <2>2 DEF ParamInv
<1>7. CASE LocalKernelMissing \/ BuffersAllocated \/ NetbootImpossible \/ ExitFails
  BY <1>1, <1>7 DEF LocalKernelMissing, BuffersAllocated, NetbootImpossible,
                    ExitFails, Goto
<1>8. CASE RunMap \/ ExitSucceeds \/ ExitStaleKey \/ FirmwareActs
  <2>1. /\ pc \in Filled /\ pc' \in Filled
        /\ UNCHANGED <<ramdisk, cmdline, zpBase, zpSize, cmdEnd>>
    BY <1>8 DEF RunMap, ExitSucceeds, ExitStaleKey, CallMapFrom, FirmwareActs,
                 Goto, fileVars, loadVars
  <2> QED  BY <1>2, <2>1
<1>9. CASE UNCHANGED vars
  BY <1>9 DEF vars, fileVars, loadVars, ParamInv, Params, FitsWords
<1> QED  BY <1>3, <1>4, <1>5, <1>6, <1>7, <1>8, <1>9
         DEF Next, LoaderNext

(* The zero page names the ramdisk that was supplied, if its address and   *)
(* size fit into 32 bits, and no other, and the command line ends in its   *)
(* page; the uninitialized sizes of missing files are never used.          *)
THEOREM ParametersTrueHolds == Spec => []ParametersTrue
<1>1. Init => ParamInv
  BY DEF Init, ParamInv, Filled
<1>2. BootInv /\ ParamInv /\ [Next]_vars => ParamInv'
  BY NextParamInv
<1>3. ParamInv => ParametersTrue
  BY DEF ParamInv, ParametersTrue, Params, Filled
<1> QED  BY <1>1, <1>2, <1>3, BootInvHolds, PTL DEF Spec
=============================================================================
