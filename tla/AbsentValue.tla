----------------------------- MODULE AbsentValue -----------------------------
(* What a field holds that holds nothing: Python's None, SQLite's NULL.     *)
CONSTANT None
=============================================================================
