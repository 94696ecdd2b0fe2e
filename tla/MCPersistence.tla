---------------------------- MODULE MCPersistence ----------------------------
(* Two device names (an image and a volume, or two of one kind), two       *)
(* containers, two volume mount points, two NICs, and counters up to 3 so  *)
(* that ids survive removals.                                              *)
EXTENDS Persistence

MCNames == {"d1", "d2"}
MCContainers == {0, 1}
MCMountPoints == {"/data", "/logs"}
MCNicIdx == {0, 1}
MCMaxId == 3
=============================================================================
