------------------------------ MODULE MCAccess ------------------------------
(* Two accounts.  In the first either Ana is the inactive owner, with two    *)
(* other admins, or Caio is an operator with no admin above him; Bia is the   *)
(* seeded owner of the second.  Dora's address is not yet known and is typed  *)
(* in two spellings.                                                          *)
EXTENDS Access, TLC

MCLower(e) == IF e = "Dora" THEN "dora" ELSE e

Row(who, acc, role, active, must, at) ==
  [who |-> who, acc |-> acc, role |-> role, active |-> active, must |-> must, at |-> at]

MCSymmetry == Permutations(Requests)

MCLegacyTables ==
  {{Row("ana", "first", "admin", FALSE, FALSE, 1), Row("caio", "first", "admin", TRUE, FALSE, 2),
    Row("eva", "first", "admin", TRUE, TRUE, 3)},
   {Row("caio", "first", "operator", TRUE, FALSE, 1)}}

MCFounders == {<<"second", "bia">>}

MCChanges ==
  {[role |-> "operator", active |-> TRUE, profile |-> "Operador"],
   [role |-> "admin", active |-> FALSE, profile |-> None],
   [role |-> "admin", active |-> TRUE, profile |-> None]}

=============================================================================
