------------------------------ MODULE NbServer ------------------------------
(***************************************************************************)
(* The host: nbserver.c, which waits for a device's advertisement and      *)
(* sends it a file with a stop-and-wait exchange of requests and           *)
(* acknowledgements.                                                       *)
(*                                                                         *)
(* hpc says where the server is:                                           *)
(*   "listen"  in recvfrom of main                                         *)
(*   "write"   in io, about to write the request                           *)
(*   "read"    in io, waiting for an acknowledgement                       *)
(*   "end"     at done: of xfer                                            *)
(*   "exit"    main has returned                                           *)
(* Every transfer opens a socket of its own: transfer n has source port n. *)
(***************************************************************************)
EXTENDS Link

CONSTANTS
  Files,        \* contents the file to send may have when it is opened
  BlockSize,    \* bytes read from the file at a time: 1024 in xfer
  Retries,      \* writes of a request before io gives up: 5
  Once,         \* the option -1
  MaxXfers,     \* transfers the server may start
  MaxRestarts,  \* times the server may be killed and started again
  HostFaults    \* TRUE: the calls of the C library may fail

ASSUME HostAssumption ==
  /\ Files \subseteq Seq(Byte)
  /\ BlockSize \in Nat \ {0}
  /\ Retries \in Nat \ {0}
  /\ MaxXfers \in Nat /\ MaxRestarts \in Nat
  /\ Once \in BOOLEAN /\ HostFaults \in BOOLEAN

VARIABLES
  hpc,
  status,     \* how the current or the last transfer stands
  cookie,
  retries,
  msg,        \* the request being sent
  xferFile,   \* file of each transfer started so far, the last is current
  restarts    \* restarts so far

hostVars == <<hpc, status, cookie, retries, msg, xferFile, restarts>>

HostTypeOK ==
  /\ hpc \in {"listen", "write", "read", "end", "exit"}
  /\ status \in {"idle", "sending", "sent", "timedout", "error"}
  /\ cookie \in Nat
  /\ retries \in 0 .. Retries
  /\ msg \in Request
  /\ xferFile \in Seq(Files)
  /\ restarts \in 0 .. MaxRestarts

Port == Len(xferFile)

-----------------------------------------------------------------------------
(* The requests of a transfer of file f, without cookie.                   *)

SendFileMsg(port) ==
  [cmd |-> NB_SEND_FILE, cookie |-> 0, arg |-> 0, name |-> "kernel.bin",
   data |-> <<>>, sport |-> port]

(* What fread returns when pos bytes of the file have been read.           *)
Block(f, pos) ==
  SubSeq(f, pos + 1, IF pos + BlockSize < Len(f) THEN pos + BlockSize ELSE Len(f))

DataMsg(f, pos, port) ==
  [cmd |-> NB_DATA, cookie |-> 0, arg |-> pos, name |-> "",
   data |-> Block(f, pos), sport |-> port]

BootMsg(port) ==
  [cmd |-> NB_BOOT, cookie |-> 0, arg |-> 0, name |-> "",
   data |-> <<>>, sport |-> port]

(* Position in the file after request m.                                   *)
After(m) == IF m.cmd = NB_SEND_FILE THEN 0 ELSE m.arg + Len(m.data)

(* The request that follows m: the next block, or BOOT at end of file.     *)
NextMsg(f, m) ==
  IF After(m) < Len(f) THEN DataMsg(f, After(m), m.sport) ELSE BootMsg(m.sport)

-----------------------------------------------------------------------------
HostInit ==
  /\ hpc = "listen"
  /\ status = "idle"
  /\ cookie = 1
  /\ retries = 0
  /\ msg = BootMsg(0)
  /\ xferFile = <<>>
  /\ restarts = 0

(* The entry of io: take a fresh cookie and go to the write.               *)
StartIo(m) ==
  /\ msg' = [m EXCEPT !.cookie = cookie]
  /\ cookie' = cookie + 1
  /\ retries' = Retries
  /\ hpc' = "write"

EndXfer(s) ==
  /\ hpc' = "end"
  /\ status' = s

(* main takes a beacon; xfer opens file and socket and starts SEND_FILE.   *)
TakeBeacon ==
  /\ hpc = "listen" /\ beacon
  /\ Len(xferFile) < MaxXfers
  /\ beacon' = FALSE
  /\ \E f \in Files : xferFile' = Append(xferFile, f)
  /\ StartIo(SendFileMsg(Len(xferFile) + 1))
  /\ status' = "sending"
  /\ UNCHANGED <<restarts, toDevice, toHost, losses, dups>>

(* fopen, socket or connect fails.                                         *)
XferNotStarted ==
  /\ HostFaults
  /\ hpc = "listen" /\ beacon
  /\ beacon' = FALSE
  /\ EndXfer("error")
  /\ UNCHANGED <<cookie, retries, msg, xferFile, restarts,
                 toDevice, toHost, losses, dups>>

(* socket, bind or recvfrom of main fails.                                 *)
ListenFails ==
  /\ HostFaults
  /\ hpc = "listen"
  /\ hpc' = "exit"
  /\ UNCHANGED <<status, cookie, retries, msg, xferFile, restarts, linkVars>>

(* A write that would block is tried again and changes nothing.            *)
IoWrite ==
  /\ hpc = "write"
  /\ toDevice' = Push(toDevice, msg)
  /\ hpc' = "read"
  /\ UNCHANGED <<status, cookie, retries, msg, xferFile, restarts,
                 toHost, beacon, losses, dups>>

(* Mutant: the cookie of an acknowledgement is not tested.                 *)
Expected_anyCookie(a) == a.arg = msg.arg /\ a.cmd = NB_ACK

(* The acknowledgement io waits for.                                       *)
Expected(a) == a.cookie = msg.cookie /\ a.arg = msg.arg /\ a.cmd = NB_ACK

IoReadOther(a) ==
  /\ ~Expected(a)
  /\ UNCHANGED hostVars

IoReadAck(a) ==
  /\ Expected(a) /\ msg.cmd # NB_BOOT
  /\ StartIo(NextMsg(xferFile[Port], msg))
  /\ UNCHANGED <<status, xferFile, restarts>>

IoReadBootAck(a) ==
  /\ Expected(a) /\ msg.cmd = NB_BOOT
  /\ EndXfer("sent")
  /\ UNCHANGED <<cookie, retries, msg, xferFile, restarts>>

(* The acknowledgement is right but the next block cannot be read.         *)
FreadFails(a) ==
  /\ HostFaults
  /\ Expected(a) /\ msg.cmd # NB_BOOT
  /\ EndXfer("error")
  /\ UNCHANGED <<cookie, retries, msg, xferFile, restarts>>

IoRead ==
  /\ hpc = "read"
  /\ \E i \in Deliverable(toHost) :
       /\ toHost[i].dport = Port
       /\ toHost' = Without(toHost, i)
       /\ \/ IoReadOther(toHost[i])
          \/ IoReadAck(toHost[i])
          \/ IoReadBootAck(toHost[i])
          \/ FreadFails(toHost[i])
  /\ UNCHANGED <<toDevice, beacon, losses, dups>>

(* An acknowledgement for a socket that is closed is discarded.            *)
AckToClosedSocket ==
  /\ \E i \in Deliverable(toHost) :
       /\ toHost[i].dport # Port \/ hpc \notin {"write", "read"}
       /\ toHost' = Without(toHost, i)
  /\ UNCHANGED <<hostVars, toDevice, beacon, losses, dups>>

(* Mutant: one write too many.                                             *)
IoTimeout_onceMore ==
  /\ hpc = "read"
  /\ retries' = retries - 1
  /\ IF retries >= 0
     THEN hpc' = "write" /\ UNCHANGED status
     ELSE EndXfer("timedout")
  /\ UNCHANGED <<cookie, msg, xferFile, restarts, linkVars>>

(* Mutant: the retries are not counted.                                    *)
IoTimeout_uncounted ==
  /\ hpc = "read"
  /\ IF retries > 1
     THEN hpc' = "write" /\ UNCHANGED status
     ELSE EndXfer("timedout")
  /\ UNCHANGED <<cookie, retries, msg, xferFile, restarts, linkVars>>

(* read fails with EAGAIN after 250 ms.                                    *)
IoTimeout ==
  /\ hpc = "read"
  /\ retries' = retries - 1
  /\ IF retries > 1
     THEN hpc' = "write" /\ UNCHANGED status
     ELSE EndXfer("timedout")
  /\ UNCHANGED <<cookie, msg, xferFile, restarts, linkVars>>

(* read or write fails with another error.                                 *)
IoError ==
  /\ HostFaults
  /\ hpc \in {"write", "read"}
  /\ EndXfer("error")
  /\ UNCHANGED <<cookie, retries, msg, xferFile, restarts, linkVars>>

(* done: of xfer and the end of main's loop.  drain empties the socket     *)
(* unless fcntl fails.                                                     *)
XferDone ==
  /\ hpc = "end"
  /\ IF Once
     THEN hpc' = "exit" /\ UNCHANGED beacon
     ELSE hpc' = "listen" /\ beacon' \in {FALSE, beacon}
  /\ UNCHANGED <<status, cookie, retries, msg, xferFile, restarts,
                 toDevice, toHost, losses, dups>>

(* The server is killed and started again.                                 *)
HostRestart ==
  /\ restarts < MaxRestarts
  /\ restarts' = restarts + 1
  /\ hpc' = "listen"
  /\ status' = "idle"
  /\ cookie' = 1
  /\ beacon' = FALSE
  /\ UNCHANGED <<retries, msg, xferFile, toDevice, toHost, losses, dups>>

(* Every step but IoTimeout, whose timing the composition decides.         *)
HostRun ==
  \/ TakeBeacon
  \/ XferNotStarted
  \/ ListenFails
  \/ IoWrite
  \/ IoRead
  \/ AckToClosedSocket
  \/ IoError
  \/ XferDone
  \/ HostRestart
=============================================================================
