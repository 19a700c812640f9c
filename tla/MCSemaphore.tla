---------------------------- MODULE MCSemaphore ----------------------------
(* Semaphore.tla for TLC: the threads are model values.                  *)
EXTENDS Semaphore, TLC

CONSTANTS t1, t2, t3, t4, n1, n2

Vm4 == {t1, t2, t3, t4}
Vm2 == {t1, t2}
Native2 == {n1, n2}
NoNative == {}
Negative == -1
=============================================================================
