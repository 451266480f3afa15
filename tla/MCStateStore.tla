----------------------------- MODULE MCStateStore -----------------------------
(* Instance of StateStore for TLC: three boot states a read accepts and one   *)
(* that only the header check accepts.                                      *)
EXTENDS StateStore
=============================================================================
