---------------------------- MODULE Placeholders ----------------------------
(***************************************************************************)
(* The pure part of the privacy gateway (internal/ai/privacy): which rule  *)
(* of ai_privacy_policy_rules holds for a type, how the spans the patterns *)
(* found share out a text, what becomes of each piece, and how the values  *)
(* go back into what the model said.                                       *)
(*                                                                         *)
(* A text is a sequence of letters with the spans found in it; a value is  *)
(* a sequence of letters.  A placeholder TYPE_N is its tag and its number, *)
(* written with the digits of Base (10 in the code).  A text may hold a    *)
(* placeholder of its own: answers that kept theirs are saved as text.     *)
(***************************************************************************)
EXTENDS Naturals, Sequences, FiniteSets, SequencesExt

CONSTANTS
    Letters,    \* what texts are written with
    Base        \* bound: the base numbers are written in

ASSUME BaseAssumption == Base \in Nat \ {0, 1}

\* The members of S by their rank, which no two of them share.
InOrder(S, rank) ==
    [k \in 1..Cardinality(S) |-> CHOOSE x \in S : Cardinality({y \in S : rank[y] < rank[x]}) = k - 1]
Ascending(S) == InOrder(S, [i \in S |-> i])

Types == {"email", "phone", "person_name", "contact_person_name", "security_secret", "url"}
Actions == {"keep", "tokenize", "remove", "disallow_ai"}
Modes == {"none", "partial", "full"}

\* typeTag: several types share a tag, and its numbers.
Tag(type) == IF type = "contact_person_name" THEN "person_name" ELSE type

Placeholder(tag, n) == [tag |-> tag, n |-> n]
IsPlaceholder(i) == i \notin Letters

Holders == [tag : Types \cup {""}, n : Nat]
Items == Letters \cup Holders
ASSUME LettersAssumption == \A l \in Letters : l \notin Holders

Texts == [chars : Seq(Items), spans : SUBSET [from : Nat \ {0}, to : Nat, type : Types, prio : Nat]]

---------------------------------------------------------------------------
(* SensitiveDataPolicyService.Resolve.                                     *)

Tier == [global |-> 1, domain |-> 2, source_feed |-> 3, scenario |-> 4, job_type |-> 5, output_type |-> 6]

\* context[k] is the invocation's domain, feed, scenario, ...; "" where it has none.
RuleMatches(rule, context) ==
    rule.scope = "global" \/ (context[rule.scope] # "" /\ rule.id = context[rule.scope])

Outranks(r, s) ==
    \/ Tier[r.scope] > Tier[s.scope]
    \/ Tier[r.scope] = Tier[s.scope] /\ r.priority > s.priority

Rank == [none |-> 1, partial |-> 2, full |-> 3]
MinRehydration(a, b) == IF Rank[a] <= Rank[b] THEN a ELSE b

\* One rule for each type that has any; the cap is the least mode among them.  Rules of equal
\* rank come in no order.
Resolve(rules, context) ==
    LET matching == {r \in rules : RuleMatches(r, context)}
        ruled == {r.type : r \in matching}
        best(t) == {r \in matching : r.type = t /\ ~\E s \in matching : s.type = t /\ Outranks(s, r)}
        least(W) == CHOOSE m \in Modes : /\ \E r \in W : r.mode = m
                                         /\ \A r \in W : Rank[m] <= Rank[r.mode]
    IN {[rule |-> w, cap |-> IF ruled = {} THEN "partial" ELSE least({w[t] : t \in ruled})] :
            w \in {f \in [ruled -> matching] : \A t \in ruled : f[t] \in best(t)}}

ActionFor(policy, type) == IF type \in DOMAIN policy.rule THEN policy.rule[type].action ELSE "tokenize"

RehydrationFor(policy, type) ==
    IF type \in DOMAIN policy.rule THEN MinRehydration(policy.rule[type].mode, policy.cap)
                                   ELSE MinRehydration("none", policy.cap)

\* rehydrateAllowedForType under the mode every caller asks for, which is partial.
RehydrateAllowed(policy, type) == RehydrationFor(policy, type) \in {"partial", "full"}

---------------------------------------------------------------------------
(* mergeSpansInText and sanitizeOne.                                       *)

\* Mutant: the last letter of a span is left out.
CoversShort(span, i) == span.from <= i /\ i < span.to

Covers(span, i) == span.from <= i /\ i <= span.to
Covering(text, i) == {s \in text.spans : Covers(s, i)}

\* The earlier start takes what it covers, and at one start the higher priority; another one
\* is cut to its tail.
Owner(text, i) ==
    CHOOSE s \in Covering(text, i) \cup {[from |-> 0, to |-> 0, type |-> "", prio |-> 0]} :
        /\ s.from = 0 => Covering(text, i) = {}
        /\ \A r \in Covering(text, i) : s.from < r.from \/ (s.from = r.from /\ s.prio >= r.prio)

\* The text cut where its owner changes; what has no owner is plain, letter by letter.
Cut(text, i) == Owner(text, i).from = 0 \/ i = 1 \/ Owner(text, i) # Owner(text, i - 1)
Pieces(text) ==
    LET n == Len(text.chars)
        starts == Ascending({i \in 1..n : Cut(text, i)})
        End(k) == IF k = Len(starts) THEN n ELSE starts[k + 1] - 1
    IN [k \in DOMAIN starts |-> [type |-> Owner(text, starts[k]).type,
                                 value |-> SubSeq(text.chars, starts[k], End(k))]]

PiecesOf(texts) == FlattenSeq([k \in DOMAIN texts |-> Pieces(texts[k])])

Plain(piece) == piece.type = ""
Tokenized(policy, piece) == ~Plain(piece) /\ ActionFor(policy, piece.type) = "tokenize"

DisallowsAI(policy, pieces) ==
    \E k \in DOMAIN pieces : ~Plain(pieces[k]) /\ ActionFor(policy, pieces[k].type) = "disallow_ai"

\* PlaceholderTokenizer: what was tokenized, each once, in the order it was met.
Order(policy, pieces) ==
    LET New(i) == Tokenized(policy, pieces[i]) /\ \A j \in 1..(i - 1) : pieces[j] # pieces[i]
        firsts == Ascending({i \in DOMAIN pieces : New(i)})
    IN [k \in DOMAIN firsts |-> pieces[firsts[k]]]

\* Mutant: every type counts its own numbers.
MappingsPerType(policy, pieces) ==
    LET order == Order(policy, pieces) IN
    [k \in DOMAIN order |->
        [type |-> order[k].type, value |-> order[k].value,
         holder |-> Placeholder(Tag(order[k].type),
                                Cardinality({j \in 1..k : order[j].type = order[k].type}))]]

Mappings(policy, pieces) ==
    LET order == Order(policy, pieces) IN
    [k \in DOMAIN order |->
        [type |-> order[k].type, value |-> order[k].value,
         holder |-> Placeholder(Tag(order[k].type),
                                Cardinality({j \in 1..k : Tag(order[j].type) = Tag(order[k].type)}))]]

HolderOf(mappings, piece) ==
    (CHOOSE m \in ToSet(mappings) : m.type = piece.type /\ m.value = piece.value).holder

\* What goes to the model.
Sanitize(policy, mappings, pieces) ==
    LET Shown(p) == IF Tokenized(policy, p) THEN <<HolderOf(mappings, p)>>
                    ELSE IF Plain(p) \/ ActionFor(policy, p.type) = "keep" THEN p.value ELSE <<>>
    IN FlattenSeq([k \in DOMAIN pieces |-> Shown(pieces[k])])

---------------------------------------------------------------------------
(* RehydrateFromTokenizer.                                                 *)

\* TYPE_n is found where TYPE_n stands, and in every TYPE_m whose number begins with n.
FoundIn(holder, i) ==
    /\ IsPlaceholder(i) /\ i.tag = holder.tag
    /\ i.n = holder.n \/ \E d \in 0..(Base - 1) : i.n = holder.n * Base + d

\* The digits after n stay: they are written as a placeholder of no tag.
Replace(holder, value, text) ==
    FlattenSeq([k \in DOMAIN text |->
        IF ~FoundIn(holder, text[k]) THEN <<text[k]>>
        ELSE IF text[k].n = holder.n THEN value
        ELSE Append(value, Placeholder("", text[k].n % Base))])

\* Each value in turn, in what the ones before it have left.
Rehydrate(policy, mappings, text) ==
    LET out[k \in 0..Len(mappings)] ==
            IF k = 0 THEN text
            ELSE IF RehydrateAllowed(policy, mappings[k].type)
                 THEN Replace(mappings[k].holder, mappings[k].value, out[k - 1])
            ELSE out[k - 1]
    IN out[Len(mappings)]

=============================================================================
