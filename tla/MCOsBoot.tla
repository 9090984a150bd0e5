------------------------------ MODULE MCOsBoot ------------------------------
(* Values of the constants for model-checking LocalBoot.                   *)
EXTENDS LocalBoot

Pages1(type, start) == [type |-> type, start |-> start, pages |-> 1]

(* Maps of three to five descriptors: merged and with a hole, overlapping  *)
(* and with device memory, with more ranges than the table has entries,    *)
(* too many for scratch.                                                   *)
MCMaps ==
  {<<Pages1("ConventionalMemory", 0), Pages1("LoaderData", 1),
     Pages1("LoaderData", 3)>>,
   <<Pages1("MemoryMappedIO", 0), Pages1("BootServicesData", 1),
     Pages1("RuntimeServicesCode", 1)>>,
   <<Pages1("PalCode", 0), Pages1("LoaderData", 1), Pages1("ACPIMemoryNVS", 2),
     Pages1("LoaderCode", 3)>>,
   [i \in 1 .. 5 |-> Pages1("LoaderData", i)]}

Kernel(size, valid, sects, syssize) ==
  [sz |-> size, valid |-> valid, sects |-> sects, syssize |-> syssize]

(* Kernel files on both sides of the limits of load_kernel's checks: the   *)
(* size of the file, magic and version, the setup sectors, the image size; *)
(* and one with sums that 32 bits do not hold.                             *)
MCKernelFiles ==
  {Kernel(1023, TRUE, 1, 0), Kernel(1024, TRUE, 1, 1),
   Kernel(32768, FALSE, 1, 0), Kernel(32768, TRUE, 0, 1),
   Kernel(32768, TRUE, 1, 1985),
   Kernel(32769, TRUE, 1, 1985), Kernel(32769, TRUE, 3, 1985),
   Kernel(1024, TRUE, 1, Word32 - 64)}

(* The sizes of the three files; one ramdisk has as many bytes as a word   *)
(* has values.                                                             *)
MCRamdiskSizes == {0, 5, Bytes32}

MCSizes == <<{1023, 1024, 32768, 32769}, MCRamdiskSizes, {4094, 4097}>>
=============================================================================
