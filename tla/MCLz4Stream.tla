---------------------------- MODULE MCLz4Stream ----------------------------
(***************************************************************************)
(* A small stream for Lz4Stream: one bucket, windows of a few bytes.       *)
(***************************************************************************)
EXTENDS Lz4Stream

SomeSizes == {0, 1, 13, 25}
=============================================================================
