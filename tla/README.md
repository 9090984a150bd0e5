# A TLA+ verification of the UEFI netboot loader

The repository holds a UEFI boot loader (`osboot`) that downloads a kernel over
IPv6/UDP from a host program (`nbserver`), and a few UEFI demos. This directory
models the download, from the server's file to the image the loader launches,
the network interface and the packets below it, the loading of the kernel and
the hand-over of the machine, and two smaller parts (address formatting, a USB
driver); checks the models with TLC;
and proves their main properties with TLAPS.

## The system

| part | source | state | operations |
| --- | --- | --- | --- |
| messages | `src/src/netboot.h` | – | `nbmsg`, commands, error codes, `nbfile` |
| netboot device | `src/src/netboot.c` | last request and its acknowledgement, `item`, `nb_boot_now`, `nb_active`, `nb_online`, `nb_fastcount` | `udp6_recv`, `advertise`, `netboot_init/poll/close` |
| main loop | `src/src/osboot.c` | the three `nbfile` buffers | `netboot_get_buffer`, `efi_main` |
| server | `src/src/nbserver.c` | `cookie`, the request under way, retries, position in the file | `io`, `xfer`, `drain`, `main` |
| network interface | `src/src/netifc.c` | free transmit buffers, multicast filters, timer, the firmware's protocol state | `eth_get_buffer`, `eth_put_buffer`, `eth_send`, `eth_add_mcast_filter`, `netifc_open/poll/close`, timer |
| IPv6 stack | `src/src/inet6.c` | own addresses, address of the last sender | `ip6_init`, `resolve_ip6`, `udp6_send`, `icmp6_send`, `eth_recv`, `icmp6_recv`, checksums, `ip6toa` |
| memory map, kernel hand-over | `src/src/osboot.c` | `e820table`, `scratch`, pages allocated | `process_memory_map`, `load_kernel`, `boot_kernel` |
| file loading | `src/lib/loadfile.c` | open handles, the buffer | `LoadFile` |
| console | `src/lib/console-printf.c` | a buffer of 126 characters | `_printf` |
| USB driver demo | `src/src/usbtest.c` | the registered binding, who has a device open | `MyDriverSupported/Start/Stop`, `InstallMyDriver`, `RemoveMyDriver` |
| other demos | `src/src/{hello,fileio,showmem}.c` | – | – |

How they interact: the device advertises itself to all nodes; the server
answers a beacon with a transfer: SEND_FILE, then DATA blocks, then BOOT, each
a stop-and-wait exchange over UDP with up to five writes. The device polls its
interface in a loop without blocking; a datagram goes through `eth_recv`,
`_udp6_recv` and `udp6_recv`, which answers at once from inside the poll. After
BOOT the main loop runs the image: an EFI program returns to the loop, a kernel
does not. Before any of this the loader looks for a kernel on its boot medium.
`boot_kernel` copies the image, fills the zero page, reads the firmware's memory
map and ends boot services with the key of that map; the firmware refuses when
the map has changed since.

What makes it hard: datagrams are lost, duplicated and reordered; a timeout
races a late acknowledgement; both ends restart and forget; the server's
cookies repeat after a restart; buffers are taken and given back on different
paths, some of them error paths; one poll handles one buffer and one frame; the
memory map changes under the loader; sizes and checksums have edges.
`PROJECT.json` lists these hazards at their lines.

## The modules

| module | models | kind |
| --- | --- | --- |
| `NbMsg` | the datagrams of `netboot.h` and the receive buffers | data |
| `Link` | the Ethernet segment with both receive queues (external) | component |
| `NetBoot` | `netboot.c` and the loop of `efi_main` | component |
| `NbServer` | `nbserver.c` | component |
| `NetBootSystem` | server + network + device | composition |
| `NetBootDevice` | the device facing arbitrary hosts | composition |
| `NetIfc` | `netifc.c` and the part of `inet6.c` that runs in a poll, beside the firmware's driver | component |
| `TxPool` | the buffer pool as `inet6.h` expects it | abstract specification |
| `Delivery` | what network booting promises as a whole | abstract specification |
| `Inet6Packet` | the bytes of `inet6.c`: lengths, checksums, cutting and answering a packet | component |
| `Ip6toa` | `ip6toa` | algorithm |
| `MemMap` | `process_memory_map` beside a firmware that changes its map | component |
| `OsBoot` | `try_local_boot`, `load_kernel`, `boot_kernel`, with `MemMap` | composition |
| `LoadFile` | `loadfile.c` and its three calls in `try_local_boot` | component |
| `LocalBoot` | `efi_main` from the first `LoadFile` to the kernel: `LoadFile` + `OsBoot` | composition |
| `UsbDriver` | `usbtest.c` beside the firmware's bus driver | component |
| `MCNetBoot`, `MCNetBootDevice`, `MCNetIfc`, `MCInet6Packet`, `MCOsBoot` | values of the constants | TLC |
| `NetBoot_proofs`, `NetBootFifo_proofs`, `NetIfc_proofs`, `OsBoot_proofs`, `LocalBoot_proofs`, `Inet6Packet_lemmas`, `Inet6Packet_proofs`, `UsbDriver_proofs` | theorems | TLAPS |

Definitions whose comment begins with "Mutant" are plausible bugs. They are not
part of any specification; putting one in the place of the definition it is
named after makes TLC report the property it is meant to break.

### `NetBoot`: the device

The variables are the statics of `netboot.c` (`last_cookie` ... `item`,
`nb_boot_now`, `nb_active`, `nb_online`, `nb_fastcount`) and the contents and
offsets of the three buffers. `pc` distinguishes polling, `netboot_poll` having
returned 1, a running EFI program, a running kernel, and failure. Buffers have
`Mem` addresses, more than their size, so that an overrun would be visible.
Actions: one per outcome of `netboot_poll` (`PollGoOnline`, `PollTimerExpired`,
`Receive`) and of the rest of the loop (`MainBootRefused`, `MainStartImage`,
`MainBootKernel`, `AppReturns`, `BootKernelReturns`). `Receive` runs
`udp6_recv`, which has one disjunct per command and one for its early returns.
The third condition of the duplicate test, `(last_arg = msg->arg)`, is an
assignment and is modelled as one: a request with argument 0 is never a
duplicate (`IsDuplicate`). `DeviceReset` is a reset of the machine.

Abstractions: a payload is a short sequence of bytes; a file name is one of
seven, told apart as `netboot_get_buffer` tells them apart; the four bytes that
mark an EFI program are one byte, `EfiByte`; 32768 is `MinKernel`; cookies are
natural numbers (the code's 32-bit counter would need 2^32 requests to wrap).
`netifc_active` is true once `netifc_open` has succeeded, so the offline branch
of `netboot_poll` is dead code. `NB_DATA`'s argument is a byte offset, as the
code has it, not the "blocknum" of the comment in `netboot.h`.

### `NbServer`: the host

`hpc` is the place in `main`, `xfer` and `io`; `msg` is the request `io` is
sending, `xferFile` remembers the file each transfer opened. Every transfer has
a socket of its own, so acknowledgements of an earlier one are discarded.
`IoTimeout` is the read's 250 ms timeout, `IoError` any other error of a socket,
`FreadFails` one of the file and `ListenFails` one of `main`'s own socket, after
which the server exits. A write that would block is tried again, which changes
nothing. `HostRestart` is a kill and a new start, which sets `cookie` back to 1.

### `Link`

Queues hold `Capacity` datagrams and drop the rest. The link loses at most
`MaxLoss` and duplicates at most `MaxDup` datagrams; with `Ordered = FALSE` it
delivers in any order.

### `NetIfc` and `TxPool`

`eth_buffers` is the free list, `tx` what the driver has not sent yet, `txdone`
what it has sent and not reported. `netifc_open` has three steps
(`OpenProtocol`, `OpenBuffers`, `OpenFilters`), each with its failures;
`netifc_poll` has two, since `GetStatus` and `Receive` are separate calls
between which the driver runs. A received frame carries the outcome of the
header tests (`sane`) and of the protocol's tests (`valid`) instead of bytes.
`TxComplete` and `RxArrives` are the firmware's driver. `LevelIrq` says whether
it reports a receive interrupt as long as a frame waits or once per arrival;
only `AllRead` depends on it. `Pool` is the refinement mapping: `free` is the
set of buffers on the list, `busy` those in `tx` or `txdone`.

### `Delivery`

The files the server has begun to send and the image that runs, if any.
`NetBootSystem` maps `offered` to `xferFile` and `running` to the contents of
the kernel buffer while the device is in an EFI program or a kernel
(`Running`). That it implements `Delivery` says that nothing is ever launched
but a whole file of one transfer, that it does not change while it runs, and
that nothing else is launched meanwhile.

### `Inet6Packet`

A host sends a UDP datagram, a ping or a neighbor solicitation; the wire pads
it, changes one byte or cuts it; the device handles it and may answer. A byte
has `Base` values and an address is one word of two bytes: the code's
arithmetic (little-endian words, the odd byte, folding, the two zeros of the
one's complement) is kept for any `Base`, and TLC runs it with bytes of two bits
so that every carry and both zeros occur in short packets. The protocol numbers
are small accordingly. `Sums` adds up the bytes one by one, a byte at an even
place counting `Base` times, which is the sum of the words the code loads;
`FoldSum` is its second loop. Payloads are at most `MaxPayload` bytes, as in an
Ethernet frame, so that lengths fit a word. `icmp6_recv` has no test that a packet holds a header;
`Stale` is what an earlier frame left there. Buffers, MACs and the sender cache
are in `NetIfc`.

### `Ip6toa`

`ip6toa` as an operator. A text is a sequence of numbers and colons; `Denotes`
is the reference definition of the address a text stands for, and `Length` counts
the characters `sprintf` writes for it. The code loads the word behind the
address, so that word (`Behind`) varies too. `Inet6Packet` states its contract,
of the moment `ip6_init` prints the addresses.

### `MemMap` and `OsBoot`

`MemMap` has one action per outcome of a round of `process_memory_map`'s loop;
`fwmap` and `fwkey` are the firmware's map and its key, and
`FirmwareChangesMap` may happen between any two steps, with a new key. Sizes
count pages. `key`, the caller's uninitialised variable, starts with any value
up to the last key the firmware may reach.

`OsBoot` follows `efi_main` from `try_local_boot` to the kernel's entry. The
download is reduced to its outcome, files of any content; `NetBoot` models how
they get there. Of a kernel file it keeps what `load_kernel` reads: size,
validity of magic and version, setup sectors and image size in paragraphs of 16
bytes; the 32-bit sums wrap at `Word32` paragraphs and a size in bytes at
`Bytes32`. Addresses count gigabytes, so that the cut to 32 bits is modulo four.
`held` counts the pages behind each of `load_kernel`'s three pointers, which the
label `fail` frees one by one. `tries` counts the calls of
`process_memory_map`. `QuietAfterExit` is the promise of the UEFI specification
that a refused `ExitBootServices` has stopped the firmware's timers. Only the
theorem `OneRetryIsEnough` assumes it; the run has a firmware that goes on.

### `LoadFile`, `LocalBoot`, `UsbDriver`

`LoadFile` counts what is open and what is allocated, over the three calls of
`try_local_boot`, with every firmware call failing or not; the exit labels are
values of `lpc`. In `LocalBoot` it runs while `OsBoot` is in `try_local_boot`,
and the pointers and sizes it returned are what `boot_kernel` is called with
(`Passed`: the size of a file that was not loaded is any). Every step of
`LocalBoot` is one of `OsBoot` or leaves its variables alone, so what is proved
of `OsBoot` holds of `LocalBoot` (the theorem `LocalImplementsBoot`).

`UsbDriver` has the three entry points of the driver as operators on the table
of who has a device open; `Plug` and `Unplug` are the firmware's bus driver,
whose event handler runs between any two steps of the program.

## The runs

| run | bounds | what it shows |
| --- | --- | --- |
| `reorder` | two two-block files that differ in every byte, 2 transfers, a restart, a duplication, any order | `BytesInPlace`: no byte of the image stands at a wrong address |
| `fifo` | a three-block kernel and a two-block program, 2 transfers, a loss, a restart, a reset, timeouts at any time, datagrams in order | `BootsWholeFile`: only whole files are launched; `InStep`: the two ends differ by one request; `DeliverySpec` (refinement); `FifoInv`: the invariant of the proof |
| `ends` | files too small and too large included, host errors, a loss, any order | `TransferEnds`: every transfer ends |
| `boots` | a loss, a reset, a restart, up to four transfers | `NetBoots`, `BeaconAgain` |
| `device` | buffers of 0, 1 and 2 bytes, blocks of 1 and 2, repeated cookies, every command, a reset | `NoOverrun`, `NoHoles`, `LastAckTrue`, `ReceivedStays` |
| `netifc` | 3 buffers, a driver ring of 2, one multicast filter, 4 frames of 2 hosts that exchange an address, every failure | `PoolConserved`, `AnswersGoBack`, `SolicitationsHeard`, `UpIsInitialized`, `PoolSpec` (refinement), `PoolRefills`, `AllRead` |
| `localboot` | kernel files on both sides of the limits `load_kernel` tests and one whose sums wrap, files of several sizes or missing, a ramdisk of `Bytes32` bytes, every call and allocation failing, 2 changes of the map at any time; 4 maps: merged with a hole, overlapping with device memory, 4 ranges for the table of 3, too large for scratch | `ClosesWhatItOpens`, `BlockAndSizeAgree`, `LoadIsAllOrNothing`: handles and memory; `TableExact`, `TableBound`, `KernelMapCurrent`: the map; `ImageWithinFile`, `ParametersTrue`, `ZeropageFromFiles`: what the kernel gets; `BootEnds` |
| `usbdriver` | 3 devices, one without a readable descriptor, 2 plugged in at any time, a competing driver | `RemovedFromListed` |
| `inet6packet` | payloads of up to 3 bytes, padding of up to 2, any one byte changed, any cut; all addresses of the words 0, 1 and 65535 | `UdpExact`, `WellFormedHandled`, `AnswersVerify`; `Ip6toaCorrect` |
| `loss_repaired`, `boot_once`, `ramdisk_high` | one loss each; the bounds of `localboot` with pool memory on both sides of four gigabytes | the findings below |

The bounds are small but each interesting case happens in them: two transfers
and a restart are what it takes for cookies to repeat; two blocks for a block
to be stale; a queue of two for a datagram to overtake another; three buffers
and a ring of two for a full ring with a buffer left; two changes of the map for
both keys to be stale; a table of three for one that a map of four descriptors
would overrun. In `localboot` a 32-bit word has 2^20 values instead of 2^32,
since TLC's own numbers have 32 bits; every size compared with it is scaled with
it or far below. Bytes of two bits are enough for sums that fold twice. The
theorems below hold without these bounds. Without the assumption that datagrams keep their order
`BootsWholeFile` fails: the BOOT of a transfer the server gave up, delayed,
launches what the next transfer has sent so far. Order is what a single
Ethernet segment gives; nothing in the repository promises more, so this is no
finding.

Deadlock checking is off where the system may stop: a server started with `-1`
exits, a device that runs a kernel is gone, transfers and frames are bounded, a
program has ended. It is on in `device`.

### Fairness

* `HostFairness`: `io` blocks for 250 ms at most, so the server always gets on.
* `DeviceFairness`: the loop of `efi_main` never blocks while it polls, so the
  device gets to every datagram, every expiry of its timer and every BOOT.
* `boots` also needs the server to take beacons and the host to discard
  datagrams for closed sockets; and `Patient`, that a read times out only when
  no answer is under way: with answers that are always later than 250 ms no
  transfer can succeed. Losses, resets and restarts are bounded there.
* `netifc`: polling goes on, and the driver sends what it accepted.
* `localboot`: the loader, a single thread, goes on; nothing is assumed of
  the firmware's events or of a host that might boot it over the network.

## Findings

* `loss_repaired`, `boot_once` (`src/src/netboot.c:51`): the duplicate test
  assigns `last_arg`. A lost acknowledgement of the first block makes the
  transfer fail; one of BOOT makes an EFI program run twice.
* `ramdisk_high` (`src/src/osboot.c:366`): a ramdisk from the boot medium that
  `AllocatePool` puts above four gigabytes is announced at its address modulo
  four gigabytes, where the comment on `ZP_RAMDISK_BASE` has "ptr or 0".

Some properties stop short of behaviour the code has, and say so where they are
stated. These are limits of what is shown, not results of a run:

* `src/src/osboot.c:120`: a memory map that needs exactly the 128 entries the
  table has is refused; `TableBound` has `n < MaxEntries`.
* `src/src/osboot.c:376`: `boot_kernel` goes on when the memory map could not be
  read, with the count -1 and a key nobody set; `KernelMapCurrent` has `n # -1`.
* `src/src/osboot.c:217`, `237`: the sum compared with the size of the file and
  the one divided into pages are computed in 32 bits; `ImageWithinFile` is for
  headers whose sums do not wrap (`SumsFit`). `localboot` has one that does, and
  `load_kernel` accepts it.
* `src/src/osboot.c:366-367`: the address and size of a ramdisk are cut to 32
  bits; `ParametersTrue` promises them for a ramdisk they fit (`FitsWords`).
* `src/src/netifc.c:252`: `AllRead` is for a driver that reports an interrupt as
  long as a frame waits (`LevelIrq`); with one that reports it once per arrival
  frames may be left over.
* `src/src/usbtest.c:136`: a device plugged in behind the list that
  `RemoveMyDriver` made may stay bound; `RemovedFromListed` leaves out `late`
  ones, and the case that no list could be made.
* `src/src/inet6.c:293`: an ICMPv6 message with checksum 0 is dropped;
  `WellFormedHandled` leaves it out.
* `src/lib/loadfile.c:64`: a file handle stays open when `GetInfo` fails;
  `ClosesWhatItOpens` counts these.

The comment at `src/src/inet6.c:43` gives the link-local prefix as FF80; the
code has FE80.

## The proofs

The theorems hold for every value of the constants that satisfies the
assumptions named in the modules: finite, non-empty queues, block size and
retry budget, bytes distinct from "nothing written", requests and frames of the
right type, packets whose length fits a word, file sizes that are numbers.

* `NetBoot_proofs`, the device with any host: `DeviceInv`, the conjunction of
  `AnyHostTypeOK`, `NoOverrun`, `NoHoles` and `LastAckTrue`, is inductive.
  `NoHoles` needs `NoOverrun`, since a block stored past a buffer's end would be
  counted and not held. `ReceivedStays` follows step by step. The lemmas on what
  each outcome of `udp6_recv` changes are shared with the next part.
* `NetBoot_proofs`, the device with the server: types (`TypeInv` adds that `io`
  has retries left while it runs) and `BytesInPlace`. The invariant `PlacedInv`
  says of every request under way, not only of the image, that its block is what
  some file has at its argument; a block is then stored where it belongs since
  `udp6_recv` compares argument and offset.
* `NetBoot_proofs`, the length of a transfer (`TransferStepsBounded`): `WorkLeft`
  weighs the tries `io` has left for its request and all that follow, the
  datagrams under way and the duplications the network may still make. A write
  trades three units for a request in a queue, which is worth two; the device
  trades a request for an acknowledgement, worth one; a read takes one away. So
  no step raises it, every step of the server lowers it, and it starts at
  `MaxWork` of the file at most. An acknowledged block brings the end nearer
  because `fread` returned at least one byte (`NextIsNearer`). `WorkInv` adds to
  the types that queues hold no more than they have room for and that `io` never
  sends what lies behind the end of the file.
* `NetBootFifo_proofs`: with `Ordered`, `FifoInv` is inductive. It says that the
  requests in the queue form a chain (each is the one before it again, its
  successor, or the start of a later transfer) that ends in the server's current
  request; that the device is where the first of them needs it or leaves it; and
  that an acknowledgement the server would accept is only under way when the
  device has handled the current request and nothing older is left. Repeated
  cookies are the difficulty: a request the device remembers from before a
  restart could be taken for a new one with the same cookie and argument.
  `RequestOK` therefore says that a request that looks remembered has been
  carried out. `BootsWholeFile` and `InStep` follow.
  `SystemImplementsDelivery`: with `FifoInv`, every step of the device launches a
  whole offered file, leaves it, or does not touch it while it runs
  (`DeviceDelivers`), and the host only offers (`HostOffers`).
* `NetIfc_proofs`: every step moves at most one buffer between the list, the
  driver's queue and its report (`Moves`); such moves keep the three apart
  (`Apart`) and their union complete. The empty pool before `OpenBuffers` is
  part of the invariant. The same lemma gives the refinement of `TxPool`.
  `UpIsInitialized` and `SolicitationsHeard` are inductive, the latter because
  `ip6_init` asks for the solicited-node group first and a driver without room
  for it refuses `ReceiveFilters`, so that `netifc_open` fails.
* `OsBoot_proofs`, the memory map: `MapInv` joins `TableExact` and `TableMerged`
  with `MapProgress`, which says where the loop is and implies `TableBound`.
  Merging extends the last entry by pages adjacent to it, so the union for its
  type grows by exactly the descriptor's pages and no other union changes.
* `OsBoot_proofs`, the hand-over: `BootInv` carries `MapInv` along and says that whenever `key`
  equals `fwkey` behind a successful call, `scratch` is the firmware's map; with
  `TableExact` that gives `KernelMapCurrent`. The uninitialised key is why the
  invariant speaks of `n # -1`. `HeldInv` ties the pages held to `pc`
  (`LoadIsAllOrNothing`), `SecondTry` follows the second attempt
  (`OneRetryIsEnough`, for `QuietAfterExit`), `ImageInv` and `ParamInv` follow
  the file and the zero page, for every file and every address: the conditions
  on 32-bit words stand in the properties. `SecondKeyCurrent`
  and `TableMerged` are proved and in no run.
* `LocalBoot_proofs`: every step of the composition is a step of `OsBoot` or
  leaves its variables alone (`LocalStep`), hence `LocalImplementsBoot`, and with
  it the map, `KernelMapCurrent` and `LoadIsAllOrNothing` for the whole path
  (`LocalTableCorrect`, `LocalHandOver`). `LoadInv` says at each label of
  `LoadFile` which handles are open and whether there is a block, which the
  unwinding from label to label keeps; one handle is left for each failure of
  `GetInfo`. `PassedInv` and `FilledInv` follow what `boot_kernel` is called with
  into the zero page, for files of every size (`ZeropageFromFiles`).
  `LoaderStepsBounded`: `LoaderLeft` adds up the labels of `LoadFile` and the files
  still to load, the labels of `boot_kernel` with the second attempt in front of
  the first, and the descriptors `process_memory_map` has not read. It is at most
  `MaxLoaderSteps`, 0 only where the loader stops, and every step lowers it but
  the firmware's changes of the map, which leave it alone: they reach the loader
  only through the map its next call reads, and one that does not fit `scratch`
  ends that call (`ScratchFits`).
* `Inet6Packet_lemmas`: the checksum. `FoldSum` leaves a sum in `0 .. Mask` that
  is congruent to it modulo `Mask` and 0 only for 0, so a packet verifies exactly
  if the sum of its bytes (`Raw`), unfolded, is a multiple of `Mask`
  (`PacketSumRaw`, `AcceptedIs`), the two zeros included. Writing the complement
  into the field makes it one (`ChecksumCompletes`). Two packets that differ in
  one byte have sums that differ by the difference of the bytes or `Base` times
  that, and neither is a multiple of `Mask` (`NoMultiple`, `OneByteSeen`). These are proved for any `Base` of at least 4 and packets of
  any length, by induction over the number of bytes summed and over the sum that
  is folded. Induction is taken from the library's theorem on minimal elements
  (`Smallest`, `Induction`), for sets, since a theorem with a predicate as a
  parameter cannot be instantiated.
* `Inet6Packet_proofs`: `PacketInv` says of what a host sends that its sum is a
  multiple of `Mask` and its fields are in place (`SentOK`), and of what arrives
  in which place it may differ (`FrameOK`). `DamageSeen`: a frame with one byte
  changed in an address, the protocol or the body is refused. A damaged length
  may pass the checksum with padding of the right value, which is why `UdpExact`
  takes the data from UDP's own length.
* `Inet6Packet_proofs`, the texts of `ip6toa` (`Ip6toaCorrectHolds`), for all
  addresses and every word behind them: `Rest` and `First` list words between
  colons (`RestIs`, `FirstIs`), a list without zeros left out is plain
  (`PlainText`), and two lists around a double colon denote the words on both
  sides of the zeros it stands for (`DoubleColon`, `Gapped`), of which there is at
  least one. A number takes at most four characters and a colon one, and no two
  numbers are neighbours, so that `k` elements take at most `(5k + 3) / 2`
  characters (`LengthBound`, by induction): 39 for the 15 a text has at most.
* `UsbDriver_proofs`: `UsbInv` says that a device that is away is held by nobody,
  so that the list of devices present covers all the driver holds, and that from
  then on a device it holds is on the rest of the list or came late.

Only model-checked: the liveness properties (`TransferEnds`, `NetBoots`,
`BeaconAgain`, `PoolRefills`, `AllRead`, `BootEnds`), which need fairness. Of two
of them the part that does not is proved: `TransferStepsBounded` and
`LoaderStepsBounded` give the numbers that fall, so that what fairness adds to
`TransferEnds` and `BootEnds` is only that the server and the loader go on.
Every other property of a passing run is a theorem.

## Not modelled

* `NetIfc` below `NetBoot` as one specification: `Link` stands for the driver's
  queues there, and the two are only connected by what both say of a received
  frame. A failing `CreateEvent` is left out for the same reason: `NetBoot` has
  the timer, `NetIfc` the opening of the interface.
* The words of the zero page that `boot_kernel` copies from the firmware
  unchanged or cut to 32 bits (frame buffer, `find_acpi_root`), and the jump of
  `start_kernel`: one assignment each, read by nothing in this repository.
* The bytes of the addresses that `ll6addr_from_mac`, `snmaddr_from_mac` and
  `multicast_from_ip6` derive: fixed permutations of bytes, represented by
  names in `NetIfc`.
* `src/lib/string.c` and the wrappers and globals of `src/lib/goodies.c`: the C
  library's functions and single firmware calls (`OpenProtocol` and
  `CloseProtocol` are part of `LoadFile`).
* `hello.c`, `fileio.c`, `showmem.c`, `eth_dump_status`, `dump_graphics_modes`:
  straight-line code that prints what the firmware returns.
* `src/lib/console-printf.c`: a sequential loop over a buffer of its own, on
  which nothing else in the loader depends. Its one edge, a newline where one
  place is left, is listed as a hazard without a property.
* `third_party`: vendored.
