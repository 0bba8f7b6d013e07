---------------------------- MODULE MCTemplates ----------------------------
(* Two names in two languages, an answer of Meta that holds one template     *)
(* less than there may be, one step of a flow and two overlapping requests.  *)
EXTENDS Templates, TLC

MCSymmetry == Permutations(Requests) \cup Permutations(Names) \cup Permutations(Langs)

Known(id, n, lang, status) == [id |-> id, name |-> n, lang |-> lang, status |-> status]

MCPasts ==
  {{Known(1, n, lang, s)} : n \in Names, lang \in Langs, s \in {"PENDING", "REJECTED"}}
  \cup {{Known(1, n, lang, "APPROVED"), Known(2, m, lang, "PENDING")} :
          <<n, m, lang>> \in {x \in Names \X Names \X Langs : x[1] # x[2]}}

=============================================================================
