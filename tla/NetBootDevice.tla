--------------------------- MODULE NetBootDevice ---------------------------
(***************************************************************************)
(* The device alone, facing any number of hosts that send it any of the    *)
(* requests of a set: what NetBoot guarantees without relying on a         *)
(* well-behaved server.                                                    *)
(***************************************************************************)
EXTENDS NetBoot

CONSTANT Requests   \* the requests hosts may send

ASSUME RequestsAssumption == Requests \subseteq Request

anyHostVars == <<deviceVars, linkVars>>

AnyHostInit == LinkInit /\ DeviceInit

(* A host sends a request, and all hosts read what they were sent.         *)
HostSends ==
  /\ \E m \in Requests : toDevice' = Push(toDevice, m)
  /\ toHost' = <<>>
  /\ beacon' = FALSE
  /\ UNCHANGED <<deviceVars, losses, dups>>

AnyHostNext == DeviceNext \/ HostSends

AnyHostSpec == AnyHostInit /\ [][AnyHostNext]_anyHostVars

(* The statics of netboot.c and the queues keep their types, nb_fastcount  *)
(* within its range.                                                       *)
AnyHostTypeOK == LinkTypeOK /\ DeviceTypeOK

-----------------------------------------------------------------------------
(* NB_DATA never writes behind the end of a buffer, whatever offsets and   *)
(* lengths the requests carry.                                             *)
NoOverrun ==
  \A b \in Buffers :
    /\ offset[b] <= BufSize[b]
    /\ \A i \in Addr : i >= BufSize[b] => data[b][i] = NoByte

(* The bytes an nbfile's offset counts, which is the size that efi_main    *)
(* passes to LoadImage and boot_kernel, have all been received.            *)
NoHoles ==
  \A b \in Buffers : \A i \in Addr : i < offset[b] => data[b][i] # NoByte

(* The acknowledgement a repeated request would be answered with is true   *)
(* of the download: after NB_DATA the download has reached the block it    *)
(* names, and stands right there if the block was refused; after           *)
(* NB_SEND_FILE a download has been started exactly if it says so.         *)
LastAckTrue ==
  /\ last_cmd = NB_DATA =>
       /\ item # NULL
       /\ offset[item] >= last_ack_arg
       /\ last_ack_cmd = NB_ERROR_TOO_LARGE => offset[item] = last_ack_arg
  /\ last_cmd = NB_SEND_FILE =>
       IF last_ack_cmd = NB_ACK THEN item # NULL /\ offset[item] = 0
                                ELSE item = NULL

(* Bytes that were received stay as they are until NB_SEND_FILE starts     *)
(* that file again or the machine is reset: requests repeated or sent out  *)
(* of order by several hosts change nothing below the offset.              *)
ReceivedStays ==
  [][\A b \in Buffers :
       \/ offset'[b] = 0
       \/ /\ offset'[b] >= offset[b]
          /\ \A i \in Addr : i < offset[b] => data'[b][i] = data[b][i]]_anyHostVars
=============================================================================
