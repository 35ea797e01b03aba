----------------------------- MODULE MCCString -----------------------------
(* Five bytes of memory with three values, one of them above 127.            *)
EXTENDS CString

MCBytes == {0, 1, 255}
MCInts == {0, 1, -1, 257}
MCCharSets == {{}, {1}, {1, 255}}

=============================================================================
