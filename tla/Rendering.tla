------------------------------ MODULE Rendering ------------------------------
(***************************************************************************)
(* What a message says, as operators: which templates the validator lets   *)
(* through, which parameters are sent with one, and into which messages a  *)
(* free text is broken.                                                    *)
(*                                                                         *)
(* A template's text is a sequence of words and placeholders; a free text  *)
(* is a sequence of paragraphs, a paragraph of sentences, of which only    *)
(* the length counts.                                                      *)
(***************************************************************************)
EXTENDS Integers, FiniteSets, Sequences, SequencesExt

CONSTANTS Alphabet,    \* named placeholders, in alphabetical order
          Convention,  \* from those that have a conventional name to a source
          Word,        \* text that is not a placeholder
          MaxChars, MinChars,
          None

Named == ToSet(Alphabet)
Sources == {"customer_name", "product_name", "contact_phone", "contact_email"}

ASSUME ConventionAssumption ==
  /\ Convention \in [DOMAIN Convention -> Sources] /\ DOMAIN Convention \subseteq Named
  /\ Named \cap {Word, None} = {}

-----------------------------------------------------------------------------
(* validate_template_payload, but for the template's name, category and language. *)
(* fits: the text is within its maximum length.                                  *)

Numbers(text) == ToSet(text) \cap Nat        \* _detect_variables: {{1}}, not {{name}}
Variables(text) == ToSet(text) \ {Word}      \* \{\{(\w+)\}\}

Adjacent(text) == \E i \in 1..Len(text) - 1 : Word \notin {text[i], text[i + 1]}

\* Faulty variant: the numbers of the variables are not looked at.
ValidBodyUnordered(c) ==
  /\ c.fits /\ c.text # <<>> /\ ~Adjacent(c.text)
  /\ c.examples >= Cardinality(Numbers(c.text))

ValidBody(c) ==
  /\ c.fits /\ c.text # <<>> /\ ~Adjacent(c.text)
  /\ LET unique == Cardinality(Numbers(c.text))
     IN Numbers(c.text) = 1..unique /\ c.examples >= unique

ValidHeader(c) ==
  /\ c.format \in {"TEXT", "IMAGE", "VIDEO", "DOCUMENT"}
  /\ c.format = "TEXT" => c.fits /\ Cardinality(Numbers(c.text)) <= 1

ValidFooter(c) == c.fits /\ Numbers(c.text) = {}

CTA == {"URL", "PHONE_NUMBER"}

\* The target of a button: an http address, or a number in E.164.
ValidButtons(c) ==
  /\ Len(c.buttons) <= 10
  /\ Cardinality({i \in DOMAIN c.buttons : c.buttons[i].type \in CTA}) <= 2
  /\ \A b \in ToSet(c.buttons) : b.fits /\ (b.type \in CTA => b.valid)

ValidComponent(c) ==
  CASE c.type = "HEADER" -> ValidHeader(c)
    [] c.type = "BODY" -> ValidBody(c)
    [] c.type = "FOOTER" -> ValidFooter(c)
    [] c.type = "BUTTONS" -> ValidButtons(c)
    [] OTHER -> TRUE

ValidTemplate(components) ==
  /\ \A c \in ToSet(components) : ValidComponent(c)
  /\ \E c \in ToSet(components) : c.type = "BODY"

-----------------------------------------------------------------------------
(* The parameters of a step's template *)

BodyOf(components) ==
  components[CHOOSE i \in DOMAIN components :
               /\ components[i].type = "BODY"
               /\ \A j \in 1..i - 1 : components[j].type # "BODY"]

\* By the kind of example, else by the placeholders; NAMED when there are none.
ParameterFormat(body) ==
  LET vars == Variables(body.text)
  IN IF body.example # None THEN body.example
     ELSE IF vars # {} /\ vars \subseteq Nat THEN "POSITIONAL" ELSE "NAMED"

\* ExplicitBindingStrategy, ConventionStrategy, EmptyFallbackStrategy; None is the
\* empty text.
ResolveVariable(v, bindings, ctx) ==
  IF v \in DOMAIN bindings
    THEN IF bindings[v].source = "static" THEN bindings[v].value ELSE ctx[bindings[v].source]
    ELSE IF v \in DOMAIN Convention THEN ctx[Convention[v]] ELSE None

\* The body's placeholders and those bound in the step.
ResolvedVars(text, bindings, ctx) ==
  [v \in Variables(text) \cup DOMAIN bindings |-> ResolveVariable(v, bindings, ctx)]

Rendered(text, params) ==
  [i \in DOMAIN text |-> IF text[i] \in DOMAIN params THEN params[text[i]] ELSE text[i]]

\* Order of the keys as strings: digits come first.
Before(k, l) ==
  IF k \in Nat THEN l \notin Nat \/ k < l
  ELSE /\ l \notin Nat
       /\ \E i, j \in DOMAIN Alphabet : i < j /\ Alphabet[i] = k /\ Alphabet[j] = l

InOrder(params) ==
  LET rank(k) == 1 + Cardinality({l \in DOMAIN params : Before(l, k)})
  IN [i \in 1..Cardinality(DOMAIN params) |->
        params[CHOOSE k \in DOMAIN params : rank(k) = i]]

\* ChatNexoClient.send_template; the message buffer is given them as they are.
Processed(format, params) ==
  IF format = "POSITIONAL" /\ ~(DOMAIN params \subseteq Nat) THEN InOrder(params) ELSE params

\* The template may be missing from the table (components = None): then its text
\* is not known and the bindings are all there is.
TemplateMessage(components, bindings, ctx, buffered) ==
  LET body == IF components = None THEN None ELSE BodyOf(components)
      text == IF body = None THEN <<>> ELSE body.text
      format == IF body = None THEN "NAMED" ELSE ParameterFormat(body)
      params == ResolvedVars(text, bindings, ctx)
  IN [format |-> format, content |-> Rendered(text, params),
      params |-> IF buffered THEN params ELSE Processed(format, params)]

-----------------------------------------------------------------------------
(* split_message, of a text whose sentences are [id, len] *)

\* Characters of sentences joined by a space.
Chars(sentences) ==
  FoldLeft(LAMBDA n, s : n + s.len, Len(sentences) - 1, sentences)

\* _split_by_sentence: groups of sentences, as long as they fit.
SplitBySentence(para) ==
  LET step(acc, s) ==
        IF acc.current # <<>> /\ Chars(Append(acc.current, s)) > MaxChars
          THEN [groups |-> Append(acc.groups, acc.current), current |-> <<s>>]
          ELSE [acc EXCEPT !.current = Append(@, s)]
      end == FoldLeft(step, [groups |-> <<>>, current |-> <<>>], para)
  IN Append(end.groups, end.current)

LongEnough(parts) == SelectSeq(parts, LAMBDA p : Chars(p) >= MinChars)

OrElse(parts, fallback) == IF parts = <<>> THEN <<fallback>> ELSE parts

ParagraphParts(para) ==
  IF Chars(para) <= MaxChars THEN <<para>>
  ELSE OrElse(LongEnough(SplitBySentence(para)), para)

Whole(text) == FlattenSeq(text)

\* One paragraph is sent as it is; of several, short parts are dropped.
SplitMessage(text) ==
  IF Len(text) = 1 THEN text
  ELSE OrElse(LongEnough(FlattenSeq([i \in DOMAIN text |-> ParagraphParts(text[i])])),
              Whole(text))

=============================================================================
