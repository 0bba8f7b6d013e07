--------------------------- MODULE MCConversation ---------------------------
(* The thread begins with one turn that called a skill; the model repeats  *)
(* itself, with two calls or without, or is cut off inside a call.          *)
EXTENDS Conversation

Said(role, text, calls) == [role |-> role, msg |-> None, text |-> text, calls |-> calls]
OneTurn == <<Said("user", "fresh", {}), Said("assistant", None, {"buscar_conhecimento"}),
             Said("tool", None, {"buscar_conhecimento"}), Said("assistant", "fresh", {})>>
MCOlder == {OneTurn}

Completion(text, calls, stopped) == [text |-> text, calls |-> calls, stopped |-> stopped]
MCCompletions == {Completion("again", {}, FALSE),
                  Completion("again", {"escalar_para_humano", "buscar_conhecimento"}, TRUE),
                  Completion(None, {"buscar_conhecimento"}, FALSE)}
=============================================================================
