------------------------------- MODULE NbMsg -------------------------------
(***************************************************************************)
(* The datagrams of the netboot protocol (src/src/netboot.h), shared by    *)
(* the device (NetBoot), the host (NbServer) and the wire between them.    *)
(*                                                                         *)
(* Requests travel from a host socket to NB_SERVER_PORT, acknowledgements  *)
(* back to that socket.  The magic number is left out: the device never    *)
(* tests it and the host only sees datagrams the device built.  Commands   *)
(* are strings; NB_ACK is the value 0, which is also what the device's     *)
(* last_cmd holds before any request.                                      *)
(***************************************************************************)
EXTENDS Integers, Sequences

CONSTANTS
  Byte,       \* the values a byte of a file may have
  NoByte,     \* what a buffer holds where nothing was written yet
  BufSize,    \* size of each buffer: [Buffers -> 0 .. Mem]
  Mem         \* bytes of memory modelled from the start of each buffer on

NB_ACK       == "ACK"
NB_COMMAND   == "COMMAND"
NB_SEND_FILE == "SEND_FILE"
NB_DATA      == "DATA"
NB_BOOT      == "BOOT"

NB_ERROR_BAD_CMD   == "BAD_CMD"
NB_ERROR_TOO_LARGE == "TOO_LARGE"
NB_ERROR_BAD_FILE  == "BAD_FILE"

(* The 32-bit cmd field of a request; NB_ACK stands for every value that   *)
(* is none of the four commands.                                           *)
Cmd    == {NB_ACK, NB_COMMAND, NB_SEND_FILE, NB_DATA, NB_BOOT}
AckCmd == {NB_ACK, NB_ERROR_BAD_CMD, NB_ERROR_TOO_LARGE, NB_ERROR_BAD_FILE}

(* The three nbfile structures of osboot.c.                                *)
Buffers == {"nbkernel", "nbramdisk", "nbcmdline"}
NULL    == "NULL"

(* File names as netboot_get_buffer sees them: the last byte of the        *)
(* payload overwritten by NUL, unprintable ones by '.'.  A '~' stands for  *)
(* further characters; "" is a request without payload.                    *)
Names == {"", "kernel.bin", "kernel.bin~", "ramdisk.bin", "ramdisk.bin~",
          "cmdline", "cmdline~"}

(* nbmsg, with the port the sender's socket is bound to.                   *)
Request == [cmd : Cmd, cookie : Nat, arg : Nat,
            name : Names, data : Seq(Byte), sport : Nat]
Ack     == [cmd : AckCmd, cookie : Nat, arg : Nat, dport : Nat]

(* Addresses relative to a buffer's start; those at or above the buffer's  *)
(* size are the memory that follows it.                                    *)
Addr == 0 .. Mem - 1

ASSUME BufAssumption == Mem \in Nat /\ BufSize \in [Buffers -> 0 .. Mem]
ASSUME ByteAssumption == NoByte \notin Byte
=============================================================================
