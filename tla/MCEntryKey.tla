----------------------------- MODULE MCEntryKey -----------------------------
(* A small instance of EntryKey for TLC: an index that holds six numbers. *)
EXTENDS EntryKey

TwoBytes == {"a", "b"}
=============================================================================
