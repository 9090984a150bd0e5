-------------------------- MODULE LocalBoot_proofs --------------------------
(***************************************************************************)
(* Booting from the boot medium, for every set of files of every size and  *)
(* every failure of the firmware's file calls.                             *)
(***************************************************************************)
EXTENDS LocalBoot, OsBoot_proofs, FiniteSetTheorems

-----------------------------------------------------------------------------
(* LoadFile.                                                               *)

Opening == {"image", "fs", "root", "file", "info", "alloc"}

(* Labels at which LoadFile has opened the resource in this call and still *)
(* has to close it.                                                        *)
WithFile  == {"info", "alloc", "read", "exit4"}
WithRoot  == WithFile \cup {"file", "exit3"}
WithFs    == WithRoot \cup {"root", "exit2"}
WithImage == WithFs \cup {"fs", "exit1"}

One(b) == IF b THEN 1 ELSE 0

(* Each label stands for what is open there.                               *)
OpenInv ==
  /\ open["image"] = One(lpc \in WithImage)
  /\ open["fs"] = One(lpc \in WithFs)
  /\ open["root"] = One(lpc \in WithRoot)
  /\ open["file"] = noInfo + One(lpc \in WithFile)

(* At most one file handle is lost in a call, and none before GetInfo.     *)
CallInv ==
  /\ lpc # "idle" => nth >= 1
  /\ noInfo <= nth
  /\ lpc \in Opening \cup {"read", "exit4"} => noInfo <= nth - 1

(* The files of which try_local_boot has a block, given data.              *)
LoadedIn(d) == {f \in 1 .. Len(Files) : d[f] # None}

(* Only while the file is read is there a block without a size.            *)
DataInv ==
  /\ \A f \in 1 .. Len(Files) :
       /\ f > nth \/ (f = nth /\ lpc \in Opening) => data[f] = None
       /\ f # nth \/ lpc # "read" => data[f] = sz[f]
  /\ lpc \in {"alloc", "read"} => FileSize # None
  /\ lpc = "read" => data[nth] = FileSize /\ sz[nth] = None
  /\ pool = Cardinality(LoadedIn(data))
  /\ lpc = "boot" => data[1] # None

LoadInv == LoadTypeOK /\ OpenInv /\ CallInv /\ DataInv

(* There are three files.                                                  *)
LEMMA ThreeFiles == Len(Files) = 3
BY Zenon DEF Files

(* No file has the size that stands for no size.                           *)
LEMMA SizesAreNat ==
  /\ \A f \in 1 .. Len(Files) : Sizes[f] \subseteq AnySize
  /\ AnySize \subseteq Nat /\ None \notin AnySize
<1>1. AnySize \subseteq Nat /\ \A f \in 1 .. Len(Files) : Sizes[f] \subseteq AnySize
  BY SizesAssumption, Zenon DEF AnySize
<1> QED  BY <1>1 DEF None

(* AllocatePool adds a block to those held for try_local_boot, and         *)
(* FreePool takes one away.                                                *)
LEMMA CountLoaded ==
  ASSUME NEW d \in [1 .. Len(Files) -> AnySize \cup {None}],
         NEW f \in 1 .. Len(Files), NEW v \in AnySize \cup {None}
  PROVE  /\ Cardinality(LoadedIn([d EXCEPT ![f] = v])) \in 0 .. Len(Files)
         /\ d[f] = None /\ v # None =>
              Cardinality(LoadedIn([d EXCEPT ![f] = v])) = Cardinality(LoadedIn(d)) + 1
         /\ d[f] # None /\ v = None =>
              Cardinality(LoadedIn([d EXCEPT ![f] = v])) = Cardinality(LoadedIn(d)) - 1
<1> DEFINE L == LoadedIn(d)
           M == LoadedIn([d EXCEPT ![f] = v])
<1>1. IsFiniteSet(1 .. Len(Files)) /\ Cardinality(1 .. Len(Files)) = Len(Files)
  <2>1. 1 \in Int /\ Len(Files) \in Int /\ ~(1 > Len(Files))
    BY ThreeFiles
  <2>2. /\ IsFiniteSet(1 .. Len(Files))
        /\ Cardinality(1 .. Len(Files)) =
             IF 1 > Len(Files) THEN 0 ELSE Len(Files) - 1 + 1
    BY <2>1, FS_Interval, Zenon
  <2> QED  BY <2>1, <2>2, ThreeFiles
<1>2. \A K \in SUBSET (1 .. Len(Files)) :
        IsFiniteSet(K) /\ Cardinality(K) \in Nat /\ Cardinality(K) <= Len(Files)
  <2> TAKE K \in SUBSET (1 .. Len(Files))
  <2>1. IsFiniteSet(K) /\ Cardinality(K) <= Cardinality(1 .. Len(Files))
    BY <1>1, FS_Subset, Zenon
  <2> QED  BY <1>1, <2>1, FS_CardinalityType, Zenon
<1>3. L \in SUBSET (1 .. Len(Files)) /\ M \in SUBSET (1 .. Len(Files))
  BY Zenon DEF LoadedIn
<1>4. ASSUME d[f] = None, v # None PROVE Cardinality(M) = Cardinality(L) + 1
  <2>1. M = L \cup {f} /\ f \notin L
    BY <1>4, Zenon DEF LoadedIn
  <2> QED  BY <1>2, <1>3, <2>1, FS_AddElement, Zenon
<1>5. ASSUME d[f] # None, v = None PROVE Cardinality(M) = Cardinality(L) - 1
  <2>1. M = L \ {f} /\ f \in L
    BY <1>5, Zenon DEF LoadedIn
  <2> QED  BY <1>2, <1>3, <2>1, FS_RemoveElement, Zenon
<1> HIDE DEF L, M
<1>6. Cardinality(M) \in 0 .. Len(Files)
  BY <1>2, <1>3, ThreeFiles
<1> QED  BY <1>4, <1>5, <1>6, Zenon DEF L, M

(* Before the first call nothing is open and nothing is loaded.            *)
LEMMA LoadInitInv == LoadInit => LoadInv
<1> SUFFICES ASSUME LoadInit PROVE LoadInv
  BY Zenon
<1>1. LoadTypeOK
  BY ThreeFiles DEF LoadInit, LoadTypeOK
<1>2. OpenInv /\ CallInv
  BY DEF LoadInit, OpenInv, CallInv, One, WithImage, WithFs, WithRoot, WithFile,
         Resource, Opening
<1>3. LoadedIn(data) = {}
  BY Zenon DEF LoadInit, LoadedIn
<1>4. DataInv
  BY <1>3, FS_EmptySet, Zenon DEF LoadInit, DataInv, Opening
<1> QED  BY <1>1, <1>2, <1>4, Zenon DEF LoadInv

(* What LoadFile counts are numbers.                                       *)
LEMMA LoadCounts ==
  ASSUME LoadTypeOK
  PROVE  /\ open["image"] \in Int /\ open["fs"] \in Int
         /\ open["root"] \in Int /\ open["file"] \in Int
         /\ DOMAIN open = Resource /\ noInfo \in Nat /\ nth \in 0 .. 3
BY ThreeFiles DEF LoadTypeOK, Resource

(* A step that leaves the blocks alone keeps DataInv, unless it begins a   *)
(* call or goes on to a read.                                              *)
LEMMA BlocksAlone ==
  ASSUME LoadInv, UNCHANGED <<nth, data, sz, pool>>,
         lpc \notin {"alloc", "read"}, lpc' \notin {"alloc", "read", "boot"},
         lpc' \in Opening => lpc \in Opening
  PROVE  DataInv'
BY Zenon DEF LoadInv, DataInv

(* try_local_boot begins the next call, or is through.                     *)
LEMMA TryLocalBootInv ==
  ASSUME LoadInv, TryLocalBoot PROVE LoadInv'
<1> USE DEF LoadInv, TryLocalBoot, Label
<1>1. /\ nth \in 0 .. 3 /\ nth' \in 1 .. 3 /\ nth' >= nth
      /\ lpc' \in {"image", "boot", "netboot"}
      /\ lpc' = "image" => nth' = nth + 1
      /\ lpc' = "boot" => data[1] # None
      /\ lpc' # "image" => nth' = nth
  BY ThreeFiles DEF LoadTypeOK
<1>2. LoadTypeOK'
  BY <1>1, ThreeFiles DEF LoadTypeOK
<1>3. OpenInv'
  BY <1>1, Zenon DEF OpenInv, One, WithImage, WithFs, WithRoot, WithFile
<1>4. CallInv'
  BY <1>1, LoadCounts DEF CallInv, Opening
<1>5. DataInv'
  BY <1>1, ThreeFiles DEF DataInv, Opening
<1> QED  BY <1>2, <1>3, <1>4, <1>5, Zenon

(* Opening something.                                                      *)
LEMMA OpenAllInv ==
  ASSUME LoadInv, OpenAll PROVE LoadInv'
<1>1. LoadTypeOK
  BY Zenon DEF LoadInv
<1>2. /\ lpc \in {"image", "fs", "root", "file"}
      /\ UNCHANGED <<nth, FileSize, data, sz, pool, noInfo>>
      /\ lpc' \in {"fs", "root", "file", "info", "exit0", "exit1", "exit2", "exit3"}
  BY Zenon DEF OpenAll, Open, Label
<1>3. OpenInv'
  BY <1>1, LoadCounts
  DEF OpenAll, Open, Label, LoadInv, OpenInv, One, WithImage, WithFs, WithRoot,
      WithFile, Resource
<1>4. CallInv'
  BY <1>1, <1>2, LoadCounts, Zenon DEF LoadInv, CallInv, Opening
<1>5. DataInv'
  BY <1>2, BlocksAlone, Zenon DEF Opening
<1>6. open' \in [Resource -> Int]
  BY <1>1 DEF OpenAll, Open, LoadTypeOK
<1>7. LoadTypeOK'
  BY <1>1, <1>2, <1>3, <1>4, <1>6, ThreeFiles
  DEF LoadTypeOK, OpenInv, CallInv, One, Resource, Opening, WithFile
<1> QED  BY <1>3, <1>4, <1>5, <1>7, Zenon DEF LoadInv

(* GetInfo: a failure loses the file handle, once in a call.               *)
LEMMA GetInfoInv ==
  ASSUME LoadInv, GetInfo PROVE LoadInv'
<1>1. LoadTypeOK
  BY DEF LoadInv
<1>2. /\ lpc = "info" /\ UNCHANGED <<nth, open, data, sz, pool>>
      /\ \/ lpc' = "exit3" /\ noInfo' = noInfo + 1 /\ FileSize' = FileSize
         \/ lpc' = "alloc" /\ noInfo' = noInfo /\ FileSize' \in Sizes[nth]
  BY Zenon DEF GetInfo, Label
<1>3. nth \in 1 .. 3 /\ noInfo <= nth - 1
  BY <1>1, <1>2, LoadCounts DEF LoadInv, CallInv, Opening
<1>4. FileSize' \in AnySize \cup {None} /\ (lpc' = "alloc" => FileSize' # None)
  BY <1>1, <1>2, <1>3, SizesAreNat, ThreeFiles, ZenonT(60) DEF LoadTypeOK
<1>5. OpenInv'
  BY <1>1, <1>2, LoadCounts
  DEF LoadInv, OpenInv, One, WithImage, WithFs, WithRoot, WithFile
<1>6. CallInv'
  BY <1>1, <1>2, <1>3, LoadCounts DEF CallInv, Opening
<1>7. DataInv'
  BY <1>2, <1>4, Zenon DEF LoadInv, DataInv, Opening
<1>8. LoadTypeOK'
  BY <1>1, <1>2, <1>3, <1>4, LoadCounts, ThreeFiles DEF LoadTypeOK
<1> QED  BY <1>5, <1>6, <1>7, <1>8 DEF LoadInv

(* AllocatePool: a new block belongs to the file that is being loaded.     *)
LEMMA AllocatePoolInv ==
  ASSUME LoadInv, AllocatePool PROVE LoadInv'
<1>1. LoadTypeOK
  BY DEF LoadInv
<1>2. /\ lpc = "alloc" /\ lpc' \in {"exit4", "read"}
      /\ UNCHANGED <<nth, open, FileSize, sz, noInfo>>
  BY Zenon DEF AllocatePool, Label
<1>3. /\ nth \in 1 .. Len(Files) /\ noInfo <= nth - 1
      /\ FileSize # None /\ FileSize \in AnySize \cup {None}
      /\ data[nth] = None /\ sz[nth] = None
      /\ data \in [1 .. Len(Files) -> AnySize \cup {None}]
      /\ pool = Cardinality(LoadedIn(data))
  BY <1>1, <1>2, ThreeFiles DEF LoadInv, LoadTypeOK, CallInv, DataInv, Opening
<1>4. OpenInv'
  BY <1>2, Zenon DEF LoadInv, OpenInv, One, WithImage, WithFs, WithRoot, WithFile
<1>5. CallInv'
  BY <1>1, <1>2, <1>3, LoadCounts, ThreeFiles DEF CallInv
<1>6. CASE lpc' = "exit4"
  <2>1. UNCHANGED <<data, pool>>
    BY <1>6, Zenon DEF AllocatePool, Label
  <2>2. DataInv'
    BY <1>2, <1>6, <2>1, Zenon DEF LoadInv, DataInv, Opening
  <2>3. LoadTypeOK'
    BY <1>1, <1>2, <1>6, <2>1, ZenonT(60) DEF LoadTypeOK
  <2> QED  BY <1>4, <1>5, <2>2, <2>3 DEF LoadInv
<1>7. CASE lpc' = "read"
  <2>1. data' = [data EXCEPT ![nth] = FileSize] /\ pool' = pool + 1
    BY <1>7, Zenon DEF AllocatePool, Label
  <2>2. pool' = Cardinality(LoadedIn(data')) /\ pool' \in 0 .. Len(Files)
    <3> DEFINE d == [data EXCEPT ![nth] = FileSize]
    <3>1. /\ Cardinality(LoadedIn(d)) \in 0 .. Len(Files)
          /\ Cardinality(LoadedIn(d)) = Cardinality(LoadedIn(data)) + 1
      BY <1>3, CountLoaded, Zenon
    <3> QED  BY <1>3, <2>1, <3>1, Zenon
  <2>3. data' \in [1 .. Len(Files) -> AnySize \cup {None}]
    BY <1>3, <2>1, Zenon
  <2>4. DataInv'
    BY <1>1, <1>2, <1>3, <1>7, <2>1, <2>2, ThreeFiles
    DEF LoadInv, DataInv, Opening, LoadTypeOK
  <2>5. LoadTypeOK'
    BY <1>1, <1>2, <1>7, <2>2, <2>3, Zenon DEF LoadTypeOK
  <2> QED  BY <1>4, <1>5, <2>4, <2>5 DEF LoadInv
<1> QED  BY <1>2, <1>6, <1>7, Zenon

(* Read: either the size is set or the block is gone.                      *)
LEMMA ReadInv ==
  ASSUME LoadInv, Read PROVE LoadInv'
<1>1. LoadTypeOK
  BY DEF LoadInv
<1>2. /\ lpc = "read" /\ lpc' = "exit4"
      /\ UNCHANGED <<nth, open, FileSize, noInfo>>
  BY Zenon DEF Read, Label
<1>3. /\ nth \in 1 .. Len(Files) /\ noInfo <= nth - 1
      /\ FileSize # None /\ FileSize \in AnySize \cup {None}
      /\ data[nth] = FileSize /\ sz[nth] = None
      /\ data \in [1 .. Len(Files) -> AnySize \cup {None}]
      /\ sz \in [1 .. Len(Files) -> AnySize \cup {None}]
      /\ pool = Cardinality(LoadedIn(data))
  BY <1>1, <1>2, ThreeFiles DEF LoadInv, LoadTypeOK, CallInv, DataInv, Opening
<1>4. OpenInv'
  BY <1>2, Zenon DEF LoadInv, OpenInv, One, WithImage, WithFs, WithRoot, WithFile
<1>5. CallInv'
  BY <1>1, <1>2, <1>3, LoadCounts, ThreeFiles DEF CallInv
<1>6. CASE ReadFails
  <2>1. data' = [data EXCEPT ![nth] = None] /\ pool' = pool - 1 /\ sz' = sz
    BY <1>6, Zenon DEF ReadFails
  <2>2. pool' = Cardinality(LoadedIn(data')) /\ pool' \in 0 .. Len(Files)
    <3> DEFINE d == [data EXCEPT ![nth] = None]
    <3>1. /\ Cardinality(LoadedIn(d)) \in 0 .. Len(Files)
          /\ Cardinality(LoadedIn(d)) = Cardinality(LoadedIn(data)) - 1
      BY <1>3, CountLoaded, ZenonT(60)
    <3> QED  BY <1>3, <2>1, <3>1, Zenon
  <2>3. data' \in [1 .. Len(Files) -> AnySize \cup {None}]
    BY <1>3, <2>1, Zenon
  <2>4. DataInv'
    BY <1>2, <1>3, <2>1, <2>2, ThreeFiles, Zenon DEF LoadInv, DataInv, Opening
  <2>5. LoadTypeOK'
    BY <1>1, <1>2, <2>1, <2>2, <2>3, ZenonT(60) DEF LoadTypeOK
  <2> QED  BY <1>4, <1>5, <2>4, <2>5 DEF LoadInv
<1>7. CASE ~ReadFails
  <2>1. sz' = [sz EXCEPT ![nth] = FileSize] /\ UNCHANGED <<data, pool>>
    BY <1>7, Zenon DEF Read
  <2>2. sz' \in [1 .. Len(Files) -> AnySize \cup {None}]
    BY <1>3, <2>1, Zenon
  <2>3. DataInv'
    BY <1>2, <1>3, <2>1, ThreeFiles, Zenon DEF LoadInv, DataInv, Opening
  <2>4. LoadTypeOK'
    BY <1>1, <1>2, <2>1, <2>2, Zenon DEF LoadTypeOK
  <2> QED  BY <1>4, <1>5, <2>3, <2>4 DEF LoadInv
<1> QED  BY <1>6, <1>7, Zenon

(* The exits close what was opened, each what its label stands for.        *)
LEMMA CloseAllInv ==
  ASSUME LoadInv, CloseAll \/ LoadReturn PROVE LoadInv'
<1>1. LoadTypeOK
  BY Zenon DEF LoadInv
<1>2. /\ lpc \in {"exit4", "exit3", "exit2", "exit1", "exit0"}
      /\ lpc' \in {"exit3", "exit2", "exit1", "exit0", "idle"}
      /\ UNCHANGED <<nth, FileSize, data, sz, pool, noInfo>>
  BY Zenon DEF CloseAll, Close, LoadReturn, Label
<1>3. OpenInv'
  BY <1>1, LoadCounts
  DEF CloseAll, Close, LoadReturn, Label, LoadInv, OpenInv, One, WithImage,
      WithFs, WithRoot, WithFile, Resource
<1>4. CallInv'
  BY <1>1, <1>2, LoadCounts, Zenon DEF LoadInv, CallInv, Opening
<1>5. DataInv'
  BY <1>2, BlocksAlone, Zenon DEF Opening
<1>6. open' \in [Resource -> Int]
  BY <1>1 DEF CloseAll, Close, LoadReturn, LoadTypeOK
<1>7. LoadTypeOK'
  BY <1>1, <1>2, <1>3, <1>4, <1>6, LoadCounts, ThreeFiles
  DEF LoadTypeOK, OpenInv, CallInv, One, Resource, WithFile
<1> QED  BY <1>3, <1>4, <1>5, <1>7, Zenon DEF LoadInv

(* Every step of LoadFile and of try_local_boot keeps LoadInv.             *)
LEMMA LoadNextInv == LoadInv /\ [LoadNext]_fileLoadVars => LoadInv'
<1>1. ASSUME LoadInv, UNCHANGED fileLoadVars PROVE LoadInv'
  BY <1>1
  DEF fileLoadVars, LoadInv, LoadTypeOK, OpenInv, CallInv, DataInv
<1> QED
  BY <1>1, TryLocalBootInv, OpenAllInv, GetInfoInv, AllocatePoolInv, ReadInv,
     CloseAllInv, ZenonT(60)
  DEF LoadNext

(* When a call has returned, the properties of LoadFile are what the       *)
(* invariant says.                                                         *)
LEMMA LoadInvImplies ==
  LoadInv => ClosesWhatItOpens /\ BlockAndSizeAgree
<1> SUFFICES ASSUME LoadInv PROVE ClosesWhatItOpens /\ BlockAndSizeAgree
  BY Zenon
<1>1. LoadTypeOK
  BY Zenon DEF LoadInv
<1>2. ClosesWhatItOpens
  BY <1>1, LoadCounts
  DEF LoadInv, OpenInv, ClosesWhatItOpens, Returned, One, WithImage, WithFs,
      WithRoot, WithFile, Resource
<1>3. ASSUME Returned PROVE data = sz
  BY <1>1, <1>3 DEF LoadInv, DataInv, LoadTypeOK, Returned
<1>4. {f \in DOMAIN data : data[f] # None} = LoadedIn(data)
  BY <1>1, Zenon DEF LoadTypeOK, LoadedIn
<1> QED
  BY <1>2, <1>3, <1>4, Zenon DEF BlockAndSizeAgree, LoadInv, DataInv

-----------------------------------------------------------------------------
(* LocalBoot.                                                              *)

(* boot_kernel is only reached with the files that LoadFile returned, or   *)
(* over the network.                                                       *)
PassedInv ==
  /\ pc # "local" => lpc \in {"boot", "netboot"}
  /\ pc \in {"buffers", "netboot"} => lpc = "netboot"
  /\ pc # "local" /\ lpc = "boot" => Passed(ramdisk, 2) /\ Passed(cmdline, 3)

(* load_kernel clears the parameters, boot_kernel fills them in.           *)
FilledInv ==
  /\ pc = "fill" => zpSize = 0 /\ cmdEnd = 0
  /\ pc \in Filled /\ lpc = "boot" =>
       /\ zpSize = IF data[2] # None THEN data[2] % Bytes32 ELSE 0
       /\ data[3] = None => cmdEnd = 0
       /\ data[3] # None =>
            cmdEnd = IF data[3] < CmdlineSize THEN data[3] ELSE CmdlineSize - 1

LocalInv == LoadInv /\ PassedInv /\ FilledInv

(* A step of LocalBoot is one of OsBoot or leaves its state alone, and     *)
(* likewise for LoadFile.                                                  *)
LEMMA LocalStep ==
  ASSUME [LocalNext]_localVars
  PROVE  [Next]_vars /\ [LoadNext]_fileLoadVars
<1>1. CASE UNCHANGED localVars
  BY <1>1, Zenon DEF localVars
<1>2. CASE LoadStep
  BY <1>2, Zenon DEF LoadStep
<1>3. CASE BootLoaded \/ NetbootInstead \/ Behind
  BY <1>3, Zenon DEF BootLoaded, NetbootInstead, Behind, Next, LoaderNext
<1> QED  BY <1>1, <1>2, <1>3, Zenon DEF LocalNext

(* Loading the files step by step implements the single step in which      *)
(* OsBoot gets them: all that holds of OsBoot holds of LocalBoot.          *)
THEOREM LocalImplementsBoot == LocalSpec => Spec
<1>1. LocalInit => Init
  BY Zenon DEF LocalInit
<1>2. [LocalNext]_localVars => [Next]_vars
  BY LocalStep, Zenon
<1> QED  BY <1>1, <1>2, PTL DEF LocalSpec, Spec

(* LoadInv is an invariant.                                                *)
LEMMA LoadInvHolds == LocalSpec => []LoadInv
<1>1. LocalInit => LoadInv
  BY LoadInitInv, Zenon DEF LocalInit
<1>2. LoadInv /\ [LocalNext]_localVars => LoadInv'
  BY LocalStep, LoadNextInv, Zenon
<1> QED  BY <1>1, <1>2, PTL DEF LocalSpec

(* Every variable of the boot path keeps its type, whatever fails.         *)
THEOREM LocalTypeCorrect == LocalSpec => []LocalTypeOK
<1>1. BootInv /\ LoadInv => LocalTypeOK
  BY Zenon DEF BootInv, MapInv, LoadInv, LocalTypeOK, TypeOK
<1> QED  BY <1>1, LocalImplementsBoot, BootInvHolds, LoadInvHolds, PTL

(* Whichever calls fail and whatever the sizes of the files, LoadFile has  *)
(* closed what it opened when it returns, but for one file handle for each *)
(* failure of GetInfo.                                                     *)
THEOREM ClosesWhatItOpensHolds == LocalSpec => []ClosesWhatItOpens
BY LoadInvHolds, LoadInvImplies, PTL

(* try_local_boot gets a block together with its size or neither, no block *)
(* is left over, and boot_kernel is only called with a kernel.             *)
THEOREM BlockAndSizeAgreeHolds == LocalSpec => []BlockAndSizeAgree
BY LoadInvHolds, LoadInvImplies, PTL

(* The table of memory never overruns its array on the way to the kernel.  *)
THEOREM LocalTableCorrect == LocalSpec => [](TableBound /\ TableExact)
<1>1. BootInv => TableBound /\ TableExact
  BY Zenon DEF BootInv, MapInv, MapProgress, TableBound
<1> QED  BY <1>1, LocalImplementsBoot, BootInvHolds, PTL

(* What OsBoot shows of the hand-over holds on the path from the files to  *)
(* the kernel: it is entered with boot services exited under the map it is *)
(* given, and a load that fails keeps no page.                             *)
THEOREM LocalHandOver == LocalSpec => [](KernelMapCurrent /\ LoadIsAllOrNothing)
BY LocalImplementsBoot, KernelMapCurrentHolds, LoadIsAllOrNothingHolds, PTL

-----------------------------------------------------------------------------
(* Every step keeps PassedInv.                                             *)
LEMMA PassedInvStep ==
  ASSUME PassedInv, [LocalNext]_localVars PROVE PassedInv'
<1>1. CASE UNCHANGED localVars \/ LoadStep
  BY <1>1, Zenon DEF localVars, vars, fileVars, fileLoadVars, LoadStep, LoadNext,
              TryLocalBoot, PassedInv, Passed
<1>2. CASE BootLoaded
  BY <1>2, Zenon DEF BootLoaded, LocalFilesLoaded, Goto, fileLoadVars, PassedInv, Passed
<1>3. CASE NetbootInstead
  BY <1>3, Zenon DEF NetbootInstead, LocalKernelMissing, Goto, fileLoadVars, PassedInv
<1>4. CASE Behind
  <2>1. pc # "local" /\ UNCHANGED fileLoadVars /\ Next
    BY <1>4, Zenon DEF Behind
  <2>2. CASE pc \in {"buffers", "netboot"}
    BY <2>1, <2>2, Zenon DEF PassedInv, fileLoadVars
  <2>3. CASE pc \notin {"buffers", "netboot"}
    <3>1. UNCHANGED fileVars
      BY <2>1, <2>3, ZenonT(60)
      DEF Next, LoaderNext, LocalKernelMissing, LocalFilesLoaded,
          BuffersAllocated, NetbootImpossible, NetbootBoots, CheckImage,
          AllocateZeropage, AllocateCmdline, AllocateImage, FillZeropage,
          RunMap, ExitSucceeds, ExitStaleKey, ExitFails, FirmwareActs
    <3>2. pc' \notin {"local", "buffers", "netboot"}
      BY <2>1, <2>3, Zenon
      DEF Next, LoaderNext, LocalKernelMissing, LocalFilesLoaded,
          BuffersAllocated, NetbootImpossible, NetbootBoots, CheckImage,
          AllocateZeropage, AllocateCmdline, AllocateImage, FillZeropage,
          FreeAndFail, CallMapFrom, Goto, RunMap, ExitSucceeds, ExitStaleKey,
          ExitFails, FirmwareActs
    <3> QED  BY <2>1, <3>1, <3>2, Zenon DEF PassedInv, Passed, fileVars, fileLoadVars
  <2> QED  BY <2>2, <2>3, Zenon
<1> QED  BY <1>1, <1>2, <1>3, <1>4, Zenon DEF LocalNext

(* boot_kernel uses the size of a file exactly if LoadFile delivered it.   *)
LEMMA FillFromFiles ==
  ASSUME BootInv, LoadInv, PassedInv, FilledInv, FillZeropage,
         UNCHANGED fileLoadVars
  PROVE  FilledInv'
<1>1. /\ pc = "fill" /\ pc' = "map"
      /\ cmdEnd' = IF cmdline.addr # 0 THEN CutCmdline ELSE cmdEnd
      /\ zpSize' = IF HasRamdisk THEN ramdisk.sz % Bytes32 ELSE zpSize
  BY Zenon DEF FillZeropage, CallMapFrom, Goto
<1>2. zpSize = 0 /\ cmdEnd = 0
  BY <1>1, Zenon DEF FilledInv
<1>3. lpc' = lpc /\ data' = data
  BY Zenon DEF fileLoadVars
<1>4. CASE lpc = "boot"
  <2>1. /\ ramdisk.addr # 0 <=> data[2] # None
        /\ data[2] # None => ramdisk.sz = data[2]
        /\ cmdline.addr # 0 <=> data[3] # None
        /\ data[3] # None => cmdline.sz = data[3]
    BY <1>1, <1>4, LoadInvImplies, Zenon DEF PassedInv, Passed, BlockAndSizeAgree, Returned
  <2>2. ramdisk.sz \in Nat /\ cmdline.sz \in Nat
    BY Zenon DEF BootInv, LoaderTypeOK, Blob
  <2>3. zpSize' = IF data[2] # None THEN data[2] % Bytes32 ELSE 0
    <3>1. 0 % Bytes32 = 0
      BY OsBootAssumption DEF Bytes32
    <3> QED  BY <1>1, <1>2, <2>1, <2>2, <3>1 DEF HasRamdisk
  <2>4. cmdEnd' = IF data[3] # None THEN CutCmdline ELSE 0
    BY <1>1, <1>2, <2>1
  <2>5. data[3] # None =>
          CutCmdline = IF data[3] < CmdlineSize THEN data[3] ELSE CmdlineSize - 1
    BY <2>1, <2>2 DEF CutCmdline, CmdlineSize
  <2> QED  BY <1>1, <1>3, <2>3, <2>4, <2>5, Zenon DEF FilledInv
<1>5. CASE lpc # "boot"
  BY <1>1, <1>3, <1>5, Zenon DEF FilledInv
<1> QED  BY <1>4, <1>5, Zenon

(* Every step keeps FilledInv.                                             *)
LEMMA FilledInvStep ==
  ASSUME BootInv, LoadInv, PassedInv, FilledInv, [LocalNext]_localVars
  PROVE  FilledInv'
<1>1. CASE UNCHANGED localVars \/ LoadStep
  BY <1>1, Zenon DEF localVars, vars, loadVars, fileLoadVars, LoadStep, FilledInv, Filled
<1>2. ASSUME pc' \notin Filled \cup {"fill"} PROVE FilledInv'
  BY <1>2, Zenon DEF FilledInv
<1>3. CASE BootLoaded \/ NetbootInstead
  BY <1>2, <1>3, Zenon DEF BootLoaded, LocalFilesLoaded, NetbootInstead,
                    LocalKernelMissing, Goto, Filled
<1>4. CASE Behind
  <2>1. UNCHANGED fileLoadVars /\ lpc' = lpc /\ data' = data
        /\ pc # "local" /\ Next
    BY <1>4, Zenon DEF Behind, fileLoadVars
  <2>2. CASE FillZeropage
    BY <2>1, <2>2, FillFromFiles, Zenon
  <2>3. CASE AllocateImage
    <3>1. pc' = "failed" \/ (pc' = "fill" /\ zpSize' = 0 /\ cmdEnd' = 0)
      BY <2>3, Zenon DEF AllocateImage, FreeAndFail, Goto
    <3> QED  BY <3>1, Zenon DEF FilledInv, Filled
  <2>4. CASE \/ BuffersAllocated \/ NetbootImpossible \/ NetbootBoots
             \/ CheckImage \/ AllocateZeropage \/ AllocateCmdline \/ ExitFails
    BY <1>2, <2>4, Zenon
    DEF BuffersAllocated, NetbootImpossible, NetbootBoots, CheckImage,
        AllocateZeropage, AllocateCmdline, ExitFails, FreeAndFail, Goto, Filled
  <2>5. CASE RunMap \/ ExitSucceeds \/ ExitStaleKey \/ FirmwareActs
    <3>1. /\ pc \in Filled /\ pc' \in Filled
          /\ zpSize' = zpSize /\ cmdEnd' = cmdEnd
      BY <2>5, Zenon
      DEF RunMap, ExitSucceeds, ExitStaleKey, CallMapFrom, FirmwareActs, Goto,
          loadVars, Filled
    <3> QED  BY <2>1, <3>1, Zenon DEF FilledInv, Filled
  <2> QED
    BY <2>1, <2>2, <2>3, <2>4, <2>5, Zenon
    DEF Next, LoaderNext, LocalKernelMissing, LocalFilesLoaded
<1> QED  BY <1>1, <1>3, <1>4, Zenon DEF LocalNext

(* The zero page describes the files that LoadFile delivered, for files of *)
(* every size, and the sizes nobody has set leave no trace in it.          *)
THEOREM ZeropageFromFilesHolds == LocalSpec => []ZeropageFromFiles
<1>1. LocalInit => PassedInv /\ FilledInv
  BY Zenon DEF LocalInit, Init, PassedInv, FilledInv, Filled
<1>2. BootInv /\ LoadInv /\ PassedInv /\ FilledInv /\ [LocalNext]_localVars
        => (PassedInv /\ FilledInv)'
  BY PassedInvStep, FilledInvStep, Zenon
<1>3. FilledInv => ZeropageFromFiles
  BY Zenon DEF FilledInv, Filled, ZeropageFromFiles
<1> QED
  BY <1>1, <1>2, <1>3, LocalImplementsBoot, BootInvHolds, LoadInvHolds, PTL
  DEF LocalSpec

-----------------------------------------------------------------------------
(* The loader comes to an end: a measure of the steps it has left.         *)

(* Steps of LoadFile from a label to the return of the call.               *)
LoadLeft ==
  [image |-> 13, fs |-> 12, root |-> 11, file |-> 10, info |-> 9, alloc |-> 8,
   read |-> 7, exit4 |-> 6, exit3 |-> 5, exit2 |-> 4, exit1 |-> 3, exit0 |-> 2,
   idle |-> 1, boot |-> 0, netboot |-> 0]

(* Steps of try_local_boot, with a whole call for each file that is left.  *)
FilesLeft == 13 * (Len(Files) - nth) + LoadLeft[lpc]

(* Steps of process_memory_map to its return.                              *)
MapLeft == IF mpc = "call" THEN MaxRaw + 2 ELSE Len(scratch) - off + 1

(* A map read again costs less than this.                                  *)
MapSteps == MaxRaw + 4

(* The steps left at label p with t attempts to read the map made, m steps *)
(* of process_memory_map and f of try_local_boot to be done.               *)
Left(p, t, m, f) ==
  CASE p = "local"    -> 2 * MapSteps + 7 + f
    [] p = "buffers"  -> 2 * MapSteps + 6
    [] p = "netboot"  -> 2 * MapSteps + 5
    [] p = "check"    -> 2 * MapSteps + 4
    [] p = "zeropage" -> 2 * MapSteps + 3
    [] p = "cmdline"  -> 2 * MapSteps + 2
    [] p = "image"    -> 2 * MapSteps + 1
    [] p = "fill"     -> 2 * MapSteps
    [] p = "map"      -> (2 - t) * MapSteps + 1 + m
    [] p = "exit"     -> (2 - t) * MapSteps + 1
    [] OTHER          -> 0

LoaderLeft == Left(pc, tries, MapLeft, FilesLeft)

(* What is left in the first state.                                        *)
MaxLoaderSteps == 2 * MaxRaw + 55

(* The map being read fitted into scratch.                                 *)
ScratchFits == mpc = "loop" => Len(scratch) <= MaxRaw

(* The measure, label by label.                                            *)
LeftValues(t, m, f) ==
  /\ Left("local", t, m, f) = 2 * MaxRaw + 15 + f
  /\ Left("buffers", t, m, f) = 2 * MaxRaw + 14
  /\ Left("netboot", t, m, f) = 2 * MaxRaw + 13
  /\ Left("check", t, m, f) = 2 * MaxRaw + 12
  /\ Left("zeropage", t, m, f) = 2 * MaxRaw + 11
  /\ Left("cmdline", t, m, f) = 2 * MaxRaw + 10
  /\ Left("image", t, m, f) = 2 * MaxRaw + 9
  /\ Left("fill", t, m, f) = 2 * MaxRaw + 8
  /\ t = 1 => Left("map", t, m, f) = MaxRaw + 5 + m /\ Left("exit", t, m, f) = MaxRaw + 5
  /\ t = 2 => Left("map", t, m, f) = 1 + m /\ Left("exit", t, m, f) = 1
  /\ Left("kernel", t, m, f) = 0 /\ Left("failed", t, m, f) = 0

(* LeftValues spells the measure out.                                      *)
LEMMA LeftAt ==
  ASSUME NEW t \in 0 .. 2, NEW m \in Int, NEW f \in Int PROVE LeftValues(t, m, f)
<1>1. MaxRaw \in Nat /\ MapSteps = MaxRaw + 4
  BY MemMapAssumption, Zenon DEF MapSteps
<1>2. /\ Left("local", t, m, f) = 2 * MaxRaw + 15 + f
      /\ Left("buffers", t, m, f) = 2 * MaxRaw + 14
      /\ Left("netboot", t, m, f) = 2 * MaxRaw + 13
      /\ Left("check", t, m, f) = 2 * MaxRaw + 12
      /\ Left("zeropage", t, m, f) = 2 * MaxRaw + 11
      /\ Left("cmdline", t, m, f) = 2 * MaxRaw + 10
      /\ Left("image", t, m, f) = 2 * MaxRaw + 9
      /\ Left("fill", t, m, f) = 2 * MaxRaw + 8
  BY <1>1 DEF Left
<1>3. t = 1 => Left("map", t, m, f) = MaxRaw + 5 + m /\ Left("exit", t, m, f) = MaxRaw + 5
  BY <1>1 DEF Left
<1>4. t = 2 => Left("map", t, m, f) = 1 + m /\ Left("exit", t, m, f) = 1
  BY <1>1 DEF Left
<1>5. Left("kernel", t, m, f) = 0 /\ Left("failed", t, m, f) = 0
  BY Zenon DEF Left
<1> QED  BY <1>2, <1>3, <1>4, <1>5, Zenon DEF LeftValues

(* Every step of LoadFile and of try_local_boot brings the end nearer.     *)
LEMMA FilesLeftFalls ==
  ASSUME LoadInv
  PROVE  FilesLeft \in 0 .. 40 /\ (LoadNext => FilesLeft' < FilesLeft)
<1> USE ThreeFiles
<1>1. LoadTypeOK /\ nth \in 0 .. 3 /\ (lpc # "idle" => nth >= 1)
  BY Zenon DEF LoadInv, LoadTypeOK, CallInv
<1>2. LoadLeft[lpc] \in 0 .. 13 /\ (lpc = "idle" => LoadLeft[lpc] = 1)
  BY <1>1 DEF LoadTypeOK, LoadLeft
<1>3. FilesLeft \in 0 .. 40
  BY <1>1, <1>2 DEF FilesLeft
<1>4. ASSUME LoadNext PROVE FilesLeft' < FilesLeft
  <2>1. CASE TryLocalBoot
    <3>1. \/ nth' = nth + 1 /\ lpc' = "image"
          \/ nth' = nth /\ lpc' \in {"boot", "netboot"}
      BY <1>1, <2>1, Zenon DEF TryLocalBoot, Label
    <3>2. lpc = "idle"
      BY <2>1, Zenon DEF TryLocalBoot
    <3> QED  BY <1>1, <3>1, <3>2 DEF FilesLeft, LoadLeft
  <2>2. CASE LoadNext /\ ~TryLocalBoot
    <3>1. nth' = nth
      BY <2>2, Zenon DEF LoadNext, OpenAll, Open, GetInfo, AllocatePool, Read, CloseAll,
                  Close, LoadReturn
    <3>2. CASE OpenAll
      <4>1. \/ lpc = "image" /\ lpc' \in {"fs", "exit0"}
            \/ lpc = "fs" /\ lpc' \in {"root", "exit1"}
            \/ lpc = "root" /\ lpc' \in {"file", "exit2"}
            \/ lpc = "file" /\ lpc' \in {"info", "exit3"}
        BY <3>2, Zenon DEF OpenAll, Open, Label
      <4>2. LoadLeft[lpc'] < LoadLeft[lpc] /\ LoadLeft[lpc'] \in Nat
        BY <4>1 DEF LoadLeft
      <4> QED  BY <1>1, <1>2, <3>1, <4>2 DEF FilesLeft
    <3>3. CASE GetInfo \/ AllocatePool \/ Read \/ LoadReturn
      <4>1. \/ lpc = "info" /\ lpc' \in {"alloc", "exit3"}
            \/ lpc = "alloc" /\ lpc' \in {"read", "exit4"}
            \/ lpc = "read" /\ lpc' = "exit4"
            \/ lpc = "exit0" /\ lpc' = "idle"
        BY <3>3, Zenon DEF GetInfo, AllocatePool, Read, LoadReturn, Label
      <4>2. LoadLeft[lpc'] < LoadLeft[lpc] /\ LoadLeft[lpc'] \in Nat
        BY <4>1 DEF LoadLeft
      <4> QED  BY <1>1, <1>2, <3>1, <4>2 DEF FilesLeft
    <3>4. CASE CloseAll
      <4>1. \/ lpc = "exit4" /\ lpc' = "exit3"
            \/ lpc = "exit3" /\ lpc' = "exit2"
            \/ lpc = "exit2" /\ lpc' = "exit1"
            \/ lpc = "exit1" /\ lpc' = "exit0"
        BY <3>4, Zenon DEF CloseAll, Close, Label
      <4>2. LoadLeft[lpc'] < LoadLeft[lpc] /\ LoadLeft[lpc'] \in Nat
        BY <4>1 DEF LoadLeft
      <4> QED  BY <1>1, <1>2, <3>1, <4>2 DEF FilesLeft
    <3> QED  BY <2>2, <3>2, <3>3, <3>4, Zenon DEF LoadNext
  <2> QED  BY <1>4, <2>1, <2>2, ZenonT(60)
<1> QED  BY <1>3, <1>4, Zenon

(* Every step of process_memory_map returns or brings the return nearer.   *)
LEMMA MapLeftFalls ==
  ASSUME MapTypeOK, MapTypeOK', ScratchFits, process_memory_map
  PROVE  /\ ScratchFits' /\ MapLeft \in 1 .. MaxRaw + 2
         /\ mpc' \in {"idle", "loop"} /\ (mpc' = "loop" => MapLeft' < MapLeft)
<1> DEFINE N == Len(scratch)
           M == Len(scratch')
<1>1. MaxRaw \in Nat /\ N \in Nat /\ off \in 0 .. N /\ M \in Nat /\ off' \in 0 .. M
  BY MemMapAssumption, SMTT(60) DEF MapTypeOK
<1>2. CASE GetMemoryMapFails
  BY <1>1, <1>2 DEF GetMemoryMapFails, Return, ScratchFits, MapLeft
<1>3. CASE GetMemoryMap
  <2>1. mpc = "call" /\ mpc' = "loop" /\ M <= MaxRaw
    BY <1>3, Zenon DEF GetMemoryMap
  <2> QED  BY <1>1, <2>1 DEF ScratchFits, MapLeft
<1>4. CASE SkipIgnored \/ MergeIntoLast \/ AppendEntry
  <2>1. mpc = "loop" /\ off < N /\ scratch' = scratch /\ off' = off + 1
    BY <1>4, Zenon DEF SkipIgnored, MergeIntoLast, AppendEntry, InLoop
  <2>2. mpc' \in {"idle", "loop"}
    BY <1>4, <2>1, Zenon DEF SkipIgnored, MergeIntoLast, AppendEntry, Return
  <2> QED  BY <1>1, <2>1, <2>2 DEF ScratchFits, MapLeft
<1>5. CASE MapDone
  BY <1>1, <1>5 DEF MapDone, Return, ScratchFits, MapLeft
<1> QED  BY <1>2, <1>3, <1>4, <1>5 DEF process_memory_map

(* The map that is read always fits.                                       *)
LEMMA ScratchFitsHolds == LocalSpec => []ScratchFits
<1>1. LocalInit => ScratchFits
  BY Zenon DEF LocalInit, Init, MapInit, ScratchFits
<1>2. ASSUME BootInv, BootInv', ScratchFits, [Next]_vars PROVE ScratchFits'
  <2>1. CASE UNCHANGED vars
    BY <1>2, <2>1, Zenon DEF vars, mapVars, ScratchFits
  <2>2. CASE RunMap
    BY <1>2, <2>2, MapLeftFalls, Zenon DEF RunMap, BootInv, MapInv
  <2>3. CASE LoaderNext /\ ~RunMap
    BY <1>2, <2>3, LoaderOutside, Zenon DEF Outside, BootInv, ScratchFits
  <2>4. CASE FirmwareActs
    BY <1>2, <2>4, Zenon DEF FirmwareActs, FirmwareChangesMap, mapVars, ScratchFits
  <2> QED  BY <1>2, <2>1, <2>2, <2>3, <2>4, ZenonT(60) DEF Next
<1>3. BootInv /\ BootInv' /\ ScratchFits /\ [LocalNext]_localVars => ScratchFits'
  BY <1>2, LocalStep, Zenon
<1> QED  BY <1>1, <1>3, LocalImplementsBoot, BootInvHolds, PTL DEF LocalSpec

MeasureInv == BootInv /\ LoadInv /\ ScratchFits

(* The parts of the measure are numbers.                                   *)
LEMMA PartsAreNumbers ==
  ASSUME MeasureInv
  PROVE  /\ MaxRaw \in Nat /\ tries \in 0 .. 2 /\ FilesLeft \in 0 .. 40 /\ MapLeft \in Nat
         /\ (pc = "map" => MapLeft <= MaxRaw + 2)
<1>1. MapTypeOK /\ MaxRaw \in Nat /\ tries \in 0 .. 2 /\ FilesLeft \in 0 .. 40
  BY FilesLeftFalls, MemMapAssumption, Zenon DEF MeasureInv, BootInv, MapInv, LoaderTypeOK
<1>2. Len(scratch) \in Nat /\ off \in 0 .. Len(scratch)
  BY <1>1 DEF MapTypeOK
<1>3. pc = "map" => mpc \in {"call", "loop"}
  BY <1>1, Zenon DEF MeasureInv, BootInv, Control, MapTypeOK
<1> QED  BY <1>1, <1>2, <1>3 DEF MeasureInv, ScratchFits, MapLeft

(* The measure is never larger than in the first state, and it is zero     *)
(* only when the kernel runs or Boot Failure is shown.                     *)
LEMMA LeftIsBounded ==
  ASSUME MeasureInv
  PROVE  /\ LoaderLeft \in 0 .. MaxLoaderSteps
         /\ LoaderLeft = 0 <=> pc \in {"kernel", "failed"}
<1> DEFINE t == tries
           m == MapLeft
           f == FilesLeft
<1>1. /\ MaxRaw \in Nat /\ t \in 0 .. 2 /\ f \in 0 .. 40 /\ m \in Nat
      /\ (pc = "map" => m <= MaxRaw + 2)
  BY PartsAreNumbers, Zenon
<1>2. pc \in {"map", "exit"} => t \in {1, 2}
  BY DEF MeasureInv, BootInv, Control
<1>3. pc \in {"local", "buffers", "netboot", "check", "zeropage", "cmdline",
              "image", "fill", "map", "exit", "kernel", "failed"}
  BY Zenon DEF MeasureInv, BootInv, LoaderTypeOK
<1> HIDE DEF t, m, f
<1>4. LoaderLeft = Left(pc, t, m, f)
  BY Zenon DEF LoaderLeft, t, m, f
<1>5. LeftValues(t, m, f)
  <2>1. m \in Int /\ f \in Int
    BY <1>1
  <2> QED  BY <1>1, <2>1, LeftAt, Zenon
<1>6. CASE pc \in {"kernel", "failed"}
  BY <1>1, <1>4, <1>5, <1>6 DEF LeftValues, MaxLoaderSteps
<1>7. CASE pc = "map"
  BY <1>1, <1>2, <1>4, <1>5, <1>7 DEF LeftValues, MaxLoaderSteps
<1>8. CASE pc = "exit"
  BY <1>1, <1>2, <1>4, <1>5, <1>8 DEF LeftValues, MaxLoaderSteps
<1>9. CASE pc = "local"
  BY <1>1, <1>4, <1>5, <1>9 DEF LeftValues, MaxLoaderSteps
<1>10. CASE pc \in {"buffers", "netboot", "check", "zeropage", "cmdline", "image", "fill"}
  <2>1. LoaderLeft \in 2 * MaxRaw + 8 .. 2 * MaxRaw + 14
    BY <1>1, <1>4, <1>5, <1>10 DEF LeftValues
  <2> QED  BY <1>1, <1>10, <2>1 DEF MaxLoaderSteps
<1> QED  BY <1>3, <1>6, <1>7, <1>8, <1>9, <1>10, ZenonT(60)

(* A step of the loader behind try_local_boot and outside                  *)
(* process_memory_map brings the end nearer.                               *)
LEMMA OutsideFalls ==
  ASSUME BootInv, LoaderNext, ~RunMap, pc # "local",
         NEW m \in Int, NEW m1 \in Int, NEW f \in Int, MaxRaw \in Nat,
         mpc' = "call" => m1 = MaxRaw + 2
  PROVE  Left(pc', tries', m1, f) < Left(pc, tries, m, f)
<1> USE DEF Goto
<1>1. tries \in 0 .. 2 /\ (pc = "exit" => tries \in {1, 2}) /\ (pc = "fill" => tries = 0)
  BY DEF BootInv, Control, LoaderTypeOK, Loading
<1>2. LeftValues(tries, m, f)
  BY <1>1, LeftAt, ZenonT(60)
<1>3. CASE BuffersAllocated \/ NetbootImpossible \/ NetbootBoots \/ CheckImage
  <2>1. /\ tries' = tries
        /\ \/ pc = "buffers" /\ pc' \in {"netboot", "failed"}
           \/ pc = "netboot" /\ pc' = "check"
           \/ pc = "check" /\ pc' \in {"zeropage", "failed"}
    BY <1>3, Zenon DEF BuffersAllocated, NetbootImpossible, NetbootBoots, CheckImage
  <2>2. LeftValues(tries', m1, f)
    BY <1>1, <2>1, LeftAt, ZenonT(60)
  <2> QED  BY <1>2, <2>1, <2>2 DEF LeftValues
<1>4. CASE AllocateZeropage \/ AllocateCmdline \/ AllocateImage
  <2>1. /\ tries' = tries
        /\ \/ pc = "zeropage" /\ pc' \in {"cmdline", "failed"}
           \/ pc = "cmdline" /\ pc' \in {"image", "failed"}
           \/ pc = "image" /\ pc' \in {"fill", "failed"}
    <3>1. CASE AllocateZeropage
      BY <3>1, Zenon DEF AllocateZeropage, FreeAndFail
    <3>2. CASE AllocateCmdline
      BY <3>2, Zenon DEF AllocateCmdline, FreeAndFail
    <3>3. CASE AllocateImage
      BY <3>3, Zenon DEF AllocateImage, FreeAndFail
    <3> QED  BY <1>4, <3>1, <3>2, <3>3, Zenon
  <2>2. LeftValues(tries', m1, f)
    BY <1>1, <2>1, LeftAt, Zenon
  <2> QED  BY <1>2, <2>1, <2>2 DEF LeftValues
<1>5. CASE FillZeropage \/ ExitStaleKey
  <2>1. /\ pc' = "map" /\ tries' = tries + 1 /\ mpc' = "call"
        /\ pc = "fill" \/ (pc = "exit" /\ tries = 1)
    <3>1. CASE FillZeropage
      <4>1. CallMapFrom("fill")
        BY <3>1, Zenon DEF FillZeropage
      <4> QED  BY <4>1, Zenon DEF CallMapFrom
    <3>2. CASE ExitStaleKey
      BY <3>2, Zenon DEF ExitStaleKey, CallMapFrom
    <3> QED  BY <1>5, <3>1, <3>2, Zenon
  <2>2. tries' \in {1, 2} /\ m1 = MaxRaw + 2 /\ (pc = "fill" => tries' = 1)
        /\ (pc = "exit" => tries' = 2)
    BY <1>1, <2>1
  <2>3. LeftValues(tries', m1, f)
    BY <2>2, LeftAt
  <2>4. CASE pc = "fill"
    <3>1. /\ Left(pc, tries, m, f) = 2 * MaxRaw + 8
          /\ Left(pc', tries', m1, f) = MaxRaw + 5 + m1
      BY <1>2, <2>1, <2>2, <2>3, <2>4, Zenon DEF LeftValues
    <3> QED  BY <2>2, <3>1
  <2>5. CASE pc = "exit" /\ tries = 1
    <3>1. /\ Left(pc, tries, m, f) = MaxRaw + 5
          /\ Left(pc', tries', m1, f) = 1 + m1
      BY <1>2, <2>1, <2>2, <2>3, <2>5, Zenon DEF LeftValues
    <3> QED  BY <2>2, <3>1
  <2> QED  BY <2>1, <2>4, <2>5, Zenon
<1>6. CASE ExitSucceeds \/ ExitFails
  <2>1. pc = "exit" /\ pc' \in {"kernel", "failed"} /\ tries' = tries
    BY <1>6, Zenon DEF ExitSucceeds, ExitFails
  <2>2. LeftValues(tries', m1, f)
    BY <1>1, <2>1, LeftAt, Zenon
  <2> QED  BY <1>1, <1>2, <2>1, <2>2 DEF LeftValues
<1>7. ~LocalKernelMissing /\ ~LocalFilesLoaded
  BY Zenon DEF LocalKernelMissing, LocalFilesLoaded
<1> QED  BY <1>3, <1>4, <1>5, <1>6, <1>7, ZenonT(60) DEF LoaderNext

(* So does every other step, but for those of the firmware.                *)
LEMMA LeftFalls ==
  ASSUME MeasureInv, MeasureInv', LocalNext
  PROVE  LoaderLeft' < LoaderLeft \/ (FirmwareActs /\ LoaderLeft' = LoaderLeft)
<1> DEFINE t == tries
           m == MapLeft
           f == FilesLeft
           t1 == tries'
           m1 == MapLeft'
           f1 == FilesLeft'
<1>1. BootInv /\ BootInv' /\ LoadInv /\ ScratchFits /\ MapTypeOK /\ MapTypeOK'
  BY Zenon DEF MeasureInv, BootInv, MapInv
<1>2. MaxRaw \in Nat /\ t \in 0 .. 2 /\ f \in Int /\ m \in Int
  BY PartsAreNumbers
<1>3. t1 \in 0 .. 2 /\ f1 \in Int /\ m1 \in Int
  <2>1. nth' \in 0 .. 3 /\ LoadLeft[lpc'] \in Int
    BY ThreeFiles DEF MeasureInv, LoadInv, LoadTypeOK, LoadLeft
  <2>2. Len(scratch') \in Nat /\ off' \in 0 .. Len(scratch')
    BY <1>1 DEF MapTypeOK
  <2>3. t1 \in 0 .. 2
    BY <1>1, Zenon DEF BootInv, LoaderTypeOK
  <2>4. f1 \in Int
    BY <2>1, ThreeFiles DEF FilesLeft
  <2>5. m1 \in Int
    BY <1>2, <2>2 DEF MapLeft
  <2> QED  BY <2>3, <2>4, <2>5, ZenonT(60)
<1>4. LoaderLeft = Left(pc, t, m, f) /\ LoaderLeft' = Left(pc', t1, m1, f1)
  BY Zenon DEF LoaderLeft
<1>5. LeftValues(t, m, f) /\ LeftValues(t1, m1, f1)
  <2> HIDE DEF t, m, f, t1, m1, f1
  <2> QED  BY <1>2, <1>3, LeftAt, ZenonT(60)
<1>6. CASE LoadStep
  <2>1. pc = "local" /\ pc' = "local"
    BY <1>6, Zenon DEF LoadStep, vars
  <2>2. f1 < f
    BY <1>1, <1>6, FilesLeftFalls, ZenonT(60) DEF LoadStep
  <2> HIDE DEF t, m, f, t1, m1, f1
  <2> QED  BY <1>2, <1>3, <1>4, <1>5, <2>1, <2>2 DEF LeftValues
<1>7. CASE BootLoaded \/ NetbootInstead
  <2>1. pc = "local" /\ pc' \in {"check", "buffers"}
    BY <1>7, Zenon DEF BootLoaded, NetbootInstead, LocalFilesLoaded,
                       LocalKernelMissing, Goto
  <2>2. f >= 0
    BY PartsAreNumbers
  <2> HIDE DEF t, m, f, t1, m1, f1
  <2> QED  BY <1>2, <1>3, <1>4, <1>5, <2>1, <2>2 DEF LeftValues
<1>8. CASE Behind
  <2>1. pc # "local" /\ Next /\ f1 = f
    BY <1>8, Zenon DEF Behind, fileLoadVars, FilesLeft
  <2>2. CASE RunMap
    <3>1. pc = "map" /\ t1 = t /\ process_memory_map
          /\ pc' = IF mpc' = "idle" THEN "exit" ELSE "map"
      BY <2>2, Zenon DEF RunMap, Goto
    <3>2. m \in 1 .. MaxRaw + 2 /\ mpc' \in {"idle", "loop"} /\ (mpc' = "loop" => m1 < m)
      BY <1>1, <3>1, MapLeftFalls, ZenonT(60)
    <3>3. t \in {1, 2}
      BY <1>1, <3>1, SMTT(60) DEF BootInv, Control
    <3> HIDE DEF t, m, f, t1, m1, f1
    <3>a. /\ t = 1 => Left("map", t, m, f) = MaxRaw + 5 + m
          /\ t1 = 1 => /\ Left("map", t1, m1, f1) = MaxRaw + 5 + m1
                       /\ Left("exit", t1, m1, f1) = MaxRaw + 5
          /\ t = 2 => Left("map", t, m, f) = 1 + m
          /\ t1 = 2 => /\ Left("map", t1, m1, f1) = 1 + m1
                       /\ Left("exit", t1, m1, f1) = 1
      BY <1>5, ZenonT(60) DEF LeftValues
    <3>4. CASE mpc' = "idle"
      <4>1. \/ LoaderLeft = MaxRaw + 5 + m /\ LoaderLeft' = MaxRaw + 5
            \/ LoaderLeft = 1 + m /\ LoaderLeft' = 1
        BY <1>4, <3>a, <3>1, <3>3, <3>4, Zenon
      <4> QED  BY <1>2, <3>2, <4>1
    <3>5. CASE mpc' = "loop"
      <4>1. ~(mpc' = "idle")
        BY <3>5
      <4>2. \/ LoaderLeft = MaxRaw + 5 + m /\ LoaderLeft' = MaxRaw + 5 + m1
            \/ LoaderLeft = 1 + m /\ LoaderLeft' = 1 + m1
        BY <1>4, <3>a, <3>1, <3>3, <4>1, Zenon
      <4> QED  BY <1>2, <1>3, <3>2, <3>5, <4>2
    <3> QED  BY <3>2, <3>4, <3>5, Zenon
  <2>3. CASE LoaderNext /\ ~RunMap
    <3>1. mpc' = "call" => m1 = MaxRaw + 2
      BY Zenon DEF MapLeft
    <3> HIDE DEF m, f, m1, f1
    <3>2. Left(pc', tries', m1, f) < Left(pc, tries, m, f)
      BY <1>1, <1>2, <1>3, <2>1, <2>3, <3>1, OutsideFalls, ZenonT(60)
    <3> QED  BY <1>4, <2>1, <3>2
  <2>4. CASE FirmwareActs
    <3>1. pc' = pc /\ t1 = t /\ m1 = m
      BY <2>4, Zenon DEF FirmwareActs, FirmwareChangesMap, mapVars, MapLeft
    <3> HIDE DEF t, m, f, t1, m1, f1
    <3> QED  BY <1>4, <2>1, <2>4, <3>1, ZenonT(60)
  <2> QED  BY <2>1, <2>2, <2>3, <2>4, Zenon DEF Next
<1> QED  BY <1>6, <1>7, <1>8, Zenon DEF LocalNext

(* The safety half of BootEnds, with a bound: every step of the loader,    *)
(* from efi_main to the kernel, brings it nearer to its end, whichever     *)
(* calls fail and however often the map changes; the firmware's own steps  *)
(* do not take it back.  It therefore takes at most 2 * MaxRaw + 55 of     *)
(* them, and none of its loops, over the descriptors or over a stale key,  *)
(* runs for ever.                                                          *)
THEOREM LoaderStepsBounded ==
  LocalSpec =>
    /\ [](/\ LoaderLeft \in 0 .. MaxLoaderSteps
          /\ LoaderLeft = 0 <=> pc \in {"kernel", "failed"})
    /\ [][LoaderLeft' < LoaderLeft \/ (FirmwareActs /\ LoaderLeft' = LoaderLeft)]_localVars
<1>1. MeasureInv => /\ LoaderLeft \in 0 .. MaxLoaderSteps
                    /\ LoaderLeft = 0 <=> pc \in {"kernel", "failed"}
  BY LeftIsBounded, Zenon
<1>2. MeasureInv /\ MeasureInv' /\ [LocalNext]_localVars =>
        [LoaderLeft' < LoaderLeft \/ (FirmwareActs /\ LoaderLeft' = LoaderLeft)]_localVars
  BY LeftFalls, Zenon
<1>3. BootInv /\ LoadInv /\ ScratchFits => MeasureInv
  BY Zenon DEF MeasureInv
<1> QED  BY <1>1, <1>2, <1>3, LocalImplementsBoot, BootInvHolds, LoadInvHolds,
            ScratchFitsHolds, PTL DEF LocalSpec
=============================================================================
