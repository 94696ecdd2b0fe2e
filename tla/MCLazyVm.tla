------------------------------- MODULE MCLazyVm -------------------------------
(* A pod with two networks and two block devices: two NICs make a shared   *)
(* PCI address visible, two disks give two map orders for SCSI ids, and a  *)
(* failure at the second NIC leaves a NIC behind.                          *)
EXTENDS LazyVm

MCNetCount == 2
MCBlks == {"b1", "b2"}
=============================================================================
