----------------------------- MODULE MCNativeExt -----------------------------
(***************************************************************************)
(* Two threads of one process on a host with a 12.1 and an 8.9 device, the *)
(* grouped BF16 bridge and one other family.                               *)
(***************************************************************************)
EXTENDS NativeExt

CONSTANTS t1, t2

MCThreads  == {t1, t2}
JustBridge == {"bf16_grouped"}
MCFamilies == {"bf16_grouped", "gemv"}
MCDevices  == {"gpu0", "gpu1"}
OldAndNew  == [d \in MCDevices |-> IF d = "gpu0" THEN "12.1" ELSE "8.9"]
==============================================================================
