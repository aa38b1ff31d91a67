------------------------------- MODULE Option -------------------------------
(* Rust's Option, where the value it may hold cannot be None itself.        *)
CONSTANT None      \* the absent value
=============================================================================
