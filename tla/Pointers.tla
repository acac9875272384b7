------------------------------ MODULE Pointers ------------------------------
(***************************************************************************)
(* The null pointer of types.h.  Addresses of blocks and of processes are  *)
(* naturals other than it.                                                 *)
(***************************************************************************)
NULL == 0
=============================================================================
