-------------------------- MODULE MCGovernedAsk --------------------------
(* Two entities of two domains and a third one that is linked to the first. *)
EXTENDS GovernedAsk, TLC

CONSTANTS e1, e2, e3, a, b, c, q

DomainOf == (e1 :> "sales") @@ (e2 :> "legal") @@ (e3 :> "sales")
Trust == (e1 :> 2) @@ (e2 :> 1) @@ (e3 :> 3)

Span(from, to, type, prio) == [from |-> from, to |-> to, type |-> type, prio |-> prio]
Text(chars, spans) == [chars |-> chars, spans |-> spans]

\* An address, the same one again, and a name; an address in a URL, which starts first; one that
\* holds a placeholder; three names, one more than Base has digits for; a name with a quote.
Mail == Text(<<a, b, c, a, b>>, {Span(1, 2, "email", 85), Span(4, 5, "email", 85), Span(3, 3, "person_name", 10)})
Link == Text(<<b, a, a, c>>, {Span(1, 3, "url", 45), Span(2, 4, "email", 85), Span(1, 1, "phone", 80)})
Contact == Text(<<b, b, a>>, {Span(1, 1, "contact_person_name", 10), Span(3, 3, "phone", 80)})
Both == Text(<<a, b>>, {Span(1, 1, "contact_person_name", 10), Span(2, 2, "person_name", 10)})
Saved == Text(<<a, Placeholder("email", 1), b>>, {Span(1, 1, "email", 85)})
Names == Text(<<a, b, c, a>>, {Span(k, k, "person_name", 10) : k \in 1..3})
Quoted == Text(<<a, q>>, {Span(2, 2, "person_name", 10)})
Secret == Text(<<a, b>>, {Span(1, 2, "security_secret", 100), Span(2, 2, "email", 85)})
Short == Text(<<b>>, {})

Rule(scope, id, type, action, mode, priority) ==
    [scope |-> scope, id |-> id, type |-> type, action |-> action, mode |-> mode, priority |-> priority]

Seeded == {Rule("global", "", "email", "tokenize", "partial", 50),
           Rule("global", "", "person_name", "tokenize", "partial", 40),
           Rule("global", "", "security_secret", "disallow_ai", "none", 100)}
Open == {Rule("global", "", "email", "tokenize", "partial", 50),
         Rule("global", "", "email", "remove", "none", 40),
         Rule("global", "", "person_name", "tokenize", "partial", 40),
         Rule("global", "", "contact_person_name", "tokenize", "full", 40),
         Rule("output_type", "qa_answer", "url", "tokenize", "full", 10),
         Rule("domain", "sales", "phone", "keep", "partial", 10),
         Rule("domain", "sales", "phone", "remove", "partial", 10),
         Rule("domain", "legal", "phone", "tokenize", "partial", 10),
         Rule("scenario", "ask_entity", "email", "keep", "full", 1)}
Few == {Rule("global", "", "email", "tokenize", "partial", 50),
        Rule("global", "", "person_name", "tokenize", "partial", 40),
        Rule("output_type", "qa_answer", "url", "remove", "none", 10)}

Plan(kind, related, rules, t1, t2, t3) ==
    [kind |-> kind, mode |-> "hybrid", root |-> e1, related |-> related, linked |-> {e2, e3}, vault |-> TRUE,
     rules |-> rules, text |-> (e1 :> t1) @@ (e2 :> t2) @@ (e3 :> t3),
     chunk |-> (e1 :> Short) @@ (e2 :> t2) @@ (e3 :> Contact)]

Work == {Plan("entity", TRUE, Open, Mail, Link, Contact),
         Plan("ids", TRUE, Open, Mail, Contact, Names),
         Plan("ids", FALSE, Seeded, Mail, Secret, Short),
         Plan("pieces", FALSE, Few, Link, Mail, Saved),
         [Plan("pieces", FALSE, {}, Mail, Names, Short) EXCEPT !.mode = "semantic_only"],
         [Plan("text", FALSE, Open, Names, Short, Short) EXCEPT !.vault = FALSE],
         Plan("text", FALSE, Open, Both, Short, Short),
         Plan("ids", FALSE, Open, Quoted, Saved, Short),
         Plan("backfill", FALSE, Open, Mail, Short, Short),
         [Plan("backfill", FALSE, Open, Mail, Short, Short) EXCEPT !.vault = FALSE]}
=============================================================================
