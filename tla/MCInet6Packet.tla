--------------------------- MODULE MCInet6Packet ----------------------------
(* Inet6Packet with bytes of two bits, and ip6toa on addresses of a few    *)
(* words.                                                                  *)
EXTENDS Inet6Packet

MCData == UNION {[1 .. n -> {0, 1, 3}] : n \in 0 .. 3}

MCReplies == {<<>>, <<3>>, <<2, 1, 3>>, <<0, 0, 0, 0>>}

MCPads == UNION {[1 .. n -> {0, 1, 3}] : n \in 0 .. 2}

MCStale == {<<0, 0, 0, 0>>, <<2, 0, 3, 3>>, <<1, 1, 2, 0>>}

MCHostAddr == {<<0, 1>>, <<3, 3>>}
=============================================================================
