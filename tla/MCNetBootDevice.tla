-------------------------- MODULE MCNetBootDevice --------------------------
(* Values of the constants for model-checking NetBootDevice.               *)
EXTENDS NetBootDevice

MCBytes == {0, 1}

MCBufSize == [b \in Buffers |-> CASE b = "nbkernel" -> 2
                                  [] b = "nbramdisk" -> 1
                                  [] OTHER -> 0]

Of(cmd, cookies, args, names, blocks) ==
  [cmd : {cmd}, cookie : cookies, arg : args, name : names, data : blocks,
   sport : {1}]

(* Blocks of one and two bytes for every place of the largest buffer, each *)
(* command with and without its payload, and cookies that repeat.          *)
MCRequests ==
  Of(NB_COMMAND, {1}, {0}, {"", "cmdline"}, {<<>>})
    \cup Of(NB_SEND_FILE, {1}, {0}, Names \ {"ramdisk.bin~", "cmdline"}, {<<>>})
    \cup Of(NB_DATA, {1, 2}, 0 .. 2, {""}, {<<1>>, <<0, 1>>})
    \cup Of(NB_BOOT, {1}, {0}, {""}, {<<>>})
    \cup Of(NB_ACK, {1}, {0, 1}, {""}, {<<>>})
=============================================================================
