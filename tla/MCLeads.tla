------------------------------- MODULE MCLeads -------------------------------
(* Two courses and three Hubla ids for TLC: the events of one sale come under *)
(* two of them, the other sale's buyer has no valid phone.                    *)
EXTENDS Leads, TLC

CONSTANTS p1, p2, c1, c2, c3, n1, f1, s1, s2, w1, w2

Ev(s, code, kind, status, phone) ==
  [sale |-> s, code |-> code, name |-> n1, kind |-> kind, status |-> status, phone |-> phone]

MCPayloads == {Ev(s1, c1, "activated", "active", TRUE), Ev(s1, c2, "added", "inactive", TRUE),
               Ev(s2, c1, "canceled", "inactive", FALSE)}

Course(n, c, a) == [name |-> n, code |-> c, active |-> a]

\* One course, which one of the ids names; two courses that share their name, the
\* flow on the one no event's id names.
MCCatalogs ==
  {[product |-> (p1 :> Course(n1, c1, TRUE) @@ p2 :> None),
    alias |-> [c \in Codes |-> None], flow |-> (f1 :> None)],
   [product |-> (p1 :> Course(n1, c1, TRUE) @@ p2 :> Course(n1, c3, TRUE)),
    alias |-> [c \in Codes |-> None],
    flow |-> (f1 :> [product |-> p2, kind |-> "added", active |-> TRUE])]}

MCFilters == {[status |-> None, unmatched |-> FALSE], [status |-> "active", unmatched |-> TRUE]}

Workmen == Permutations(Workers)
=============================================================================
