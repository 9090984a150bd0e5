------------------------------ MODULE MCNetIfc ------------------------------
(* Values of the constants for model-checking NetIfc.                      *)
EXTENDS NetIfc

MCMac == {"m1", "m2"}

MCIp == {"i1", "i2"}

Of(to, mac, src, sane, valid, proto) ==
  [to : to, mac : mac, src : src, sane : sane, valid : valid, proto : proto]

(* Every way through eth_recv, with two hosts that exchange an address.    *)
MCFrames ==
  Of({snm_mac_addr}, {"m1"}, {"i1"}, {TRUE}, {TRUE}, {"solicit"})
    \cup Of({ll_mac_addr}, MCMac, {"i1"}, {TRUE}, {TRUE}, {"udp"})
    \cup Of({ll_mac_addr}, {"m2"}, {"i2"}, {TRUE}, BOOLEAN, {"echo", "other"})
    \cup Of({ll_mac_addr, all_mac_addr}, {"m2"}, {"i1"}, {FALSE}, {TRUE}, {"udp"})
    \cup Of({all_mac_addr}, {"m2"}, {"i2"}, {TRUE}, {TRUE}, {"echo"})

(* Answered and ignored frames of one host.                                *)
MCFew ==
  Of({ll_mac_addr}, {"m1"}, {"i1"}, {TRUE}, BOOLEAN, {"udp"})
=============================================================================
