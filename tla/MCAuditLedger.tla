--------------------------- MODULE MCAuditLedger ----------------------------
(* AuditLedger on a small instance: two bind keys that may be exchanged for *)
(* each other, as no action tells one key from another.                     *)
EXTENDS AuditLedger, TLC

KeySymmetry == Permutations(Keys)
=============================================================================
