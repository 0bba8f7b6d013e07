----------------------------- MODULE MCFlowSync -----------------------------
(* A value for model checking FlowSync: a flow of one step, to which edits add. *)
EXTENDS FlowSync

MCOneStep == [f \in {1} |-> [position |-> f, delay |-> 1, content |-> "a"]]

=============================================================================
