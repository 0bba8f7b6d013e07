------------------------------ MODULE MCOutreach ------------------------------
(* Messages, templates and requests for TLC: one buyer whose number comes in   *)
(* three forms, a second one to mix up with; texts whose short last sentence,  *)
(* short paragraph and long paragraph the splitter treats differently.         *)
EXTENDS Outreach, TLC

CONSTANTS b1, b2, nome, produto, w, ana, curso, fone, oi

MCAlphabet == <<nome, produto>>
MCConvention == nome :> "customer_name" @@ produto :> "product_name"

P(b, f) == [who |-> b, form |-> f]
S(i, n) == [id |-> i, len |-> n]

\* With MaxChars = 6 and MinChars = 3.
Short == <<<<S(1, 4)>>>>
Mixed == <<<<S(1, 2)>>, <<S(2, 4), S(3, 3), S(4, 2)>>>>

Ev(b, f, v1, type) == [kind |-> "event", to |-> P(b, f), v1 |-> v1, type |-> type]
Txt(kind, b, f, text) == [kind |-> kind, to |-> P(b, f), text |-> text]
Tpl(b, bindings) == [kind |-> "template", to |-> P(b, "e164"), bindings |-> bindings]
Bind(source, value) == [source |-> source, value |-> value]

MCRequests ==
  {Ev(b1, "local", TRUE, "NewSale"), Ev(b1, "country", FALSE, "member.access_granted"),
   Ev(b2, "invalid", TRUE, "Canceled"),
   Txt("outbound", b1, "country", Mixed), Txt("alert", b2, "local", Short),
   Txt("step", b1, "e164", Mixed),
   Tpl(b1, <<>>), Tpl(b1, 1 :> Bind("static", oi)), Tpl(b1, produto :> Bind("contact_phone", None))}

Part(type, text, examples, example) ==
  [type |-> type, text |-> text, fits |-> TRUE, examples |-> examples, example |-> example,
   format |-> "TEXT", buttons |-> <<>>]

MCDrafts ==
  {<<Part("BODY", <<w, 1, w, 2, w>>, 2, "POSITIONAL")>>,
   <<Part("HEADER", <<w, 1>>, 0, None), Part("BODY", <<w>>, 0, None), Part("FOOTER", <<w>>, 0, None)>>,
   <<Part("BODY", <<1, w, 3>>, 2, "POSITIONAL")>>,
   <<Part("BODY", <<1, w, nome>>, 1, "POSITIONAL")>>}

MCSynced ==
  {<<Part("BODY", <<w, nome, w, produto>>, 0, "NAMED")>>, <<Part("BODY", <<1, w>>, 0, None)>>}

MCContexts == {[customer_name |-> ana, product_name |-> curso, contact_phone |-> fone, contact_email |-> None]}

MCContacts == {P(b2, "country")}
=============================================================================
