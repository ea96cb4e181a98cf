------------------------------ MODULE MCSpool ------------------------------
(* The spool with an empty file of an earlier version in it. *)
EXTENDS Spool

MCEmptyFile == {EmptyFile}
=============================================================================
