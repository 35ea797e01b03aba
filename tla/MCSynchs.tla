------------------------------ MODULE MCSynchs ------------------------------
(* The semaphore of synchs.c with a few threads.                            *)
EXTENDS Synchs

CONSTANTS t1, t2, t3

MCThree == {t1, t2, t3}

=============================================================================
