---------------------------- MODULE GovernedAsk ----------------------------
(***************************************************************************)
(* A question answered by the model over governed evidence: the retrieval, *)
(* the rows that are read and asked about one by one (qa.Service), the     *)
(* privacy gateway (PrivacyGateway.InvokeOpenAI) and what is made of the   *)
(* answer.  The rows, and what the asker may view, change meanwhile.       *)
(*                                                                         *)
(* One evaluation is one answer of may[e]: its statements are module       *)
(* Access.  Scores are left out: retrieval returns what it returns, in any *)
(* order.  An entity's header line is left out, so is the question, which  *)
(* is one more text.  The chunks of an entity all have one text here.      *)
(* Images, the prompt template and the trace that is saved after the       *)
(* answer are left out.                                                    *)
(***************************************************************************)
EXTENDS Placeholders

CONSTANTS
    Entities,
    Domain,         \* Domain[e], the domain of e
    TrustRank,      \* TrustRank[e]: the order OrderEvidenceForAsk sorts by
    Quotes,         \* letters that end a JSON string
    Plans,          \* bound: the requests, the texts and the rules of one behaviour
    MaxEvidence,    \* bound: entities in one answer (8 in the code)
    MaxPieces,      \* bound: chunks that retrieval by meaning alone returns (12 in the code)
    MaxChanges      \* bound on changes under way

Kinds == {"entity", "ids", "pieces", "text", "backfill"}

ASSUME EntitiesAssumption ==
    /\ IsFiniteSet(Entities)
    /\ TrustRank \in [Entities -> Nat]
    /\ \A d \in Entities : \A e \in Entities \ {d} : TrustRank[d] # TrustRank[e]
ASSUME PlansAssumption ==
    /\ Quotes \subseteq Letters
    /\ \A p \in Plans :
          /\ p.kind \in Kinds /\ p.root \in Entities /\ p.linked \subseteq Entities
          /\ p.vault \in BOOLEAN /\ p.related \in BOOLEAN
          /\ p.mode \in {"keyword_only", "semantic_only", "hybrid"}
          /\ \A e \in Entities : p.text[e] \in Texts /\ p.chunk[e] \in Texts
          /\ \A e \in Entities : IsFiniteSet(p.text[e].spans) /\ IsFiniteSet(p.chunk[e].spans)
          /\ \A r \in p.rules : r.action \in Actions /\ r.mode \in Modes
ASSUME BoundsAssumption == MaxEvidence \in Nat \ {0} /\ MaxPieces \in Nat /\ MaxChanges \in Nat

VARIABLES
    plan,       \* the request, the texts and the rules of this behaviour
    rows,       \* rows[e]: not archived, and whether its sensitivity is 8 or more
    may,        \* may[e]: the asker may view e
    changes,    \* how often either changed
    at,         \* where the request is
    want,       \* entities still to be read
    linking,    \* they are the linked ones
    pieces,     \* what retrieval returned: entities, and a chunk's text or none
    read,       \* the row that was read and is asked about
    evidence,   \* the rows that were let in
    policy,     \* the effective policy
    prompt,     \* the texts, their pieces, the tokenizer and what goes to the model
    vault,      \* ai_placeholder_mappings of this correlation
    said,       \* what the model said
    answer,     \* what the asker gets, and the entities it cites
    vouched     \* entities an evaluation of this request allowed

asking == <<at, want, linking, pieces, read, evidence, policy, prompt, vault, said, answer, vouched>>
world == <<plan, rows, may, changes>>
askVars == <<world, asking>>

Stages == {"retrieve", "expand", "get", "view", "links", "policy", "vault", "model", "answer",
           "done", "refused"}
NoRow == [id |-> "none", high |-> FALSE]
NoPolicy == [rule |-> <<>>, cap |-> "partial"]
NoPrompt == [texts |-> <<>>, cut |-> <<>>, issued |-> <<>>, sent |-> <<>>]
NoAnswer == [text |-> <<>>, cites |-> {}]
Ids == {evidence[k].id : k \in DOMAIN evidence}

AskTypeOK ==
    /\ plan \in Plans
    /\ rows \in [Entities -> [live : BOOLEAN, high : BOOLEAN]]
    /\ may \in [Entities -> BOOLEAN]
    /\ changes \in 0..MaxChanges
    /\ at \in Stages /\ linking \in BOOLEAN
    /\ want \in Seq(Entities)
    /\ pieces \in Seq([id : Entities, chunk : BOOLEAN])
    /\ evidence \in Seq([id : Entities, high : BOOLEAN])
    /\ answer.cites \subseteq Entities /\ vouched \subseteq Entities

AskInit ==
    /\ plan \in Plans
    /\ rows = [e \in Entities |-> [live |-> TRUE, high |-> FALSE]]
    /\ may = [e \in Entities |-> TRUE]
    /\ changes = 0
    /\ at = CASE plan.kind = "entity" -> "get"
              [] plan.kind \in {"ids", "pieces"} -> "retrieve"
              [] OTHER -> "policy"
    /\ want = IF plan.kind = "entity" THEN <<plan.root>> ELSE <<>>
    /\ linking = FALSE
    /\ pieces = <<>> /\ read = NoRow /\ evidence = <<>> /\ policy = NoPolicy
    /\ prompt = NoPrompt /\ vault = {} /\ said = <<>> /\ answer = NoAnswer /\ vouched = {}

---------------------------------------------------------------------------
(* The evidence.                                                           *)

Refuse ==
    /\ at' = "refused"
    /\ UNCHANGED <<want, linking, pieces, read, evidence, policy, prompt, vault, said, answer, vouched>>

\* Search, SemanticNear or RetrieveContext: rows the asker may view now, in any order.
Viewable == {e \in Entities : rows[e].live /\ may[e]}

\* The entities of what it returns: each once, but an entity found by meaning alone as often as it
\* has chunks near the question.
Hits ==
    IF plan.kind = "pieces" /\ plan.mode = "semantic_only"
    THEN UNION {[1..n -> Viewable] : n \in 0..MaxPieces}
    ELSE SetToAllKPermutations(Viewable)

\* A piece found by meaning has the text of a chunk, one found by words has none, and "hybrid"
\* returns both.
Fused(found) ==
    LET near == CASE plan.mode = "keyword_only" -> {FALSE}
                  [] plan.mode = "semantic_only" -> {TRUE}
                  [] plan.mode = "hybrid" -> BOOLEAN
    IN {[k \in DOMAIN found |-> [id |-> found[k], chunk |-> chunk[k]]] : chunk \in [DOMAIN found -> near]}

Retrieve ==
    /\ at = "retrieve"
    /\ \E found \in Hits :
          /\ at' = IF found = <<>> THEN "refused" ELSE IF plan.kind = "pieces" THEN "expand" ELSE "get"
          /\ want' = found
          /\ pieces' \in IF plan.kind = "pieces" THEN Fused(found) ELSE {<<>>}
    /\ UNCHANGED <<linking, read, evidence, policy, prompt, vault, said, answer, vouched>>

\* graphExpandContextPieces: chunks that share a mention with those found, of archived entities
\* too, each asked about.
Expand ==
    /\ at = "expand"
    /\ \E more \in SUBSET {e \in Entities : may[e] /\ \E k \in DOMAIN pieces : pieces[k].chunk} :
          LET extra == InOrder(more, TrustRank) IN
          /\ pieces' = pieces \o [k \in DOMAIN extra |-> [id |-> extra[k], chunk |-> TRUE]]
          /\ want' = want \o extra
          /\ vouched' = vouched \cup more
    /\ at' = "get"
    /\ UNCHANGED <<linking, read, evidence, policy, prompt, vault, said, answer>>

Full == plan.kind # "pieces" /\ Len(evidence) >= MaxEvidence

\* EntityRepo.Get.  A row that is gone is passed over, but for the root of an entity's Ask; so is
\* another piece of a row that was let in, while one that was not is read and asked about again.
Get ==
    /\ at = "get" /\ want # <<>> /\ ~Full
    /\ LET e == Head(want) IN
       IF rows[e].live /\ e \notin Ids
       THEN /\ at' = "view"
            /\ read' = [id |-> e, high |-> rows[e].high]
            /\ UNCHANGED <<want, linking, pieces, evidence, policy, prompt, vault, said, answer, vouched>>
       ELSE IF plan.kind = "entity" /\ ~linking THEN Refuse
       ELSE /\ want' = Tail(want)
            /\ UNCHANGED <<at, linking, pieces, read, evidence, policy, prompt, vault, said, answer, vouched>>

\* canView asks for the row that was read.
CanView ==
    /\ at = "view"
    /\ IF ~may[read.id] /\ plan.kind = "entity" /\ ~linking THEN Refuse
       ELSE /\ evidence' = IF may[read.id] THEN Append(evidence, read) ELSE evidence
            /\ vouched' = IF may[read.id] THEN vouched \cup {read.id} ELSE vouched
            /\ at' = "get" /\ want' = Tail(want) /\ read' = NoRow
            /\ UNCHANGED <<linking, pieces, policy, prompt, vault, said, answer>>

\* OrderEvidenceForAsk: the primary first, if it was let in; the rest by trust.
Primary == IF plan.kind = "entity" THEN plan.root
           ELSE IF plan.kind = "pieces" THEN pieces[1].id ELSE evidence[1].id
First == IF Primary \in Ids THEN Primary ELSE evidence[1].id

\* Every candidate was read: no evidence is an error, and related entities come next.
Collected ==
    /\ at = "get" /\ (want = <<>> \/ Full)
    /\ at' = IF evidence = <<>> THEN "refused"
             ELSE IF plan.related /\ plan.kind # "pieces" /\ ~linking THEN "links" ELSE "policy"
    /\ want' = <<>>
    /\ UNCHANGED <<linking, pieces, read, evidence, policy, prompt, vault, said, answer, vouched>>

\* ListLinks of the first entity; each of the others is read and asked about in turn.
Links ==
    /\ at = "links"
    /\ \E linked \in SetToSeqs(plan.linked \ Ids) : want' = linked
    /\ at' = "get" /\ linking' = TRUE
    /\ UNCHANGED <<pieces, read, evidence, policy, prompt, vault, said, answer, vouched>>

---------------------------------------------------------------------------
(* The prompt, the vault, the model and the answer.                        *)

\* Mutant: the pieces are sent whatever became of their entities.
SegmentsUnfiltered ==
    IF plan.kind \in {"text", "backfill"} THEN <<[id |-> plan.root, text |-> plan.text[plan.root]]>>
    ELSE IF plan.kind = "pieces"
         THEN [k \in DOMAIN pieces |-> [id |-> pieces[k].id, text |-> plan.text[pieces[k].id]]]
    ELSE [k \in DOMAIN evidence |-> [id |-> evidence[k].id, text |-> plan.text[evidence[k].id]]]

\* BuildPrivacySegmentsFromEvidence and ...FromContextPieces: which texts are sent, in order.
Segments ==
    IF plan.kind \in {"text", "backfill"} THEN <<[id |-> plan.root, text |-> plan.text[plan.root]]>>
    ELSE IF plan.kind = "pieces"
         THEN LET kept == Ascending({k \in DOMAIN pieces : pieces[k].id \in Ids})
                  TextOf(p) == IF p.chunk THEN plan.chunk[p.id] ELSE plan.text[p.id]
              IN [k \in DOMAIN kept |-> [id |-> pieces[kept[k]].id, text |-> TextOf(pieces[kept[k]])]]
    ELSE LET order == <<First>> \o InOrder(Ids \ {First}, TrustRank) IN
         [k \in DOMAIN order |-> [id |-> order[k], text |-> plan.text[order[k]]]]

\* The domain of the first entity stands for the domains of all.
Context ==
    [domain |-> IF evidence = <<>> THEN "" ELSE Domain[First],
     source_feed |-> "", job_type |-> "",
     scenario |-> CASE plan.kind = "entity" -> "ask_entity" [] plan.kind = "text" -> "ai_summarize"
                    [] plan.kind = "backfill" -> "" [] OTHER -> "ask_global",
     output_type |-> CASE plan.kind = "text" -> "summary" [] plan.kind = "backfill" -> "entity_summary"
                       [] OTHER -> "qa_answer"]

\* synthesizeFromEvidence and synthesizeFromContextPieces: one prompt of all texts, under one policy.
Prompt(effective) ==
    LET texts == Segments
        cut == PiecesOf([k \in DOMAIN texts |-> texts[k].text])
        issued == Mappings(effective, cut)
    IN [texts |-> texts, cut |-> cut, issued |-> issued, sent |-> Sanitize(effective, issued, cut)]

\* Resolve reads the rules; SanitizeSegments stops at the first piece that may not go at all.
\* A backfill has no correlation id, and the vault refuses its first row.
ResolveAndSanitize ==
    /\ at = "policy"
    /\ \E effective \in Resolve(plan.rules, Context) :
          LET new == Prompt(effective)
              stored == new.issued # <<>> /\ plan.vault IN
          IF DisallowsAI(effective, new.cut) \/ (stored /\ plan.kind = "backfill") THEN Refuse
          ELSE /\ policy' = effective
               /\ prompt' = new
               /\ at' = IF stored THEN "vault" ELSE "model"
               /\ UNCHANGED <<want, linking, pieces, read, evidence, vault, said, answer, vouched>>

\* Mutant: a row that could not be written is passed over.
PutBatchLax ==
    /\ at = "vault"
    /\ \E stored \in SUBSET ToSet(prompt.issued) : vault' = stored
    /\ at' = "model"
    /\ UNCHANGED <<want, linking, pieces, read, evidence, policy, prompt, said, answer, vouched>>

\* SecureEntityMapStore.PutBatch: row by row, in no transaction.
PutBatch ==
    /\ at = "vault"
    /\ vault' = vault \cup {prompt.issued[Cardinality(vault) + 1]}
    /\ at' = IF Cardinality(vault') = Len(prompt.issued) THEN "model" ELSE "vault"
    /\ UNCHANGED <<want, linking, pieces, read, evidence, policy, prompt, said, answer, vouched>>

\* The model says back what it was sent, or one placeholder, issued or not.
Said ==
    {prompt.sent} \cup {<<Placeholder(Tag(t), n)>> : t \in {"email", "person_name"}, n \in 1..Base}

Chat ==
    /\ at = "model"
    /\ said' \in Said
    /\ at' = "answer"
    /\ UNCHANGED <<want, linking, pieces, read, evidence, policy, prompt, vault, answer, vouched>>

\* OutputSensitivity 8 and more puts nothing back.
High == \E k \in DOMAIN evidence : evidence[k].high
Restored == IF High THEN said ELSE Rehydrate(policy, prompt.issued, said)

\* parseModelOutput: values go back before the JSON is read, an empty answer is an error, and
\* citations of anything but the evidence are dropped.  The model may name any entity.
parseModelOutput ==
    /\ at = "answer"
    /\ LET asJSON == plan.kind \notin {"text", "backfill"}
           broken == Restored # said /\ \E k \in DOMAIN Restored : Restored[k] \in Quotes IN
       IF asJSON /\ (broken \/ Restored = <<>>) THEN Refuse
       ELSE /\ \E named \in SUBSET Entities :
                  answer' = [text |-> Restored, cites |-> IF asJSON THEN named \cap Ids ELSE {}]
            /\ at' = "done"
            /\ UNCHANGED <<want, linking, pieces, read, evidence, policy, prompt, vault, said, vouched>>

\* A statement or the model's API fails, or the process stops: rows in the vault stay.
AskFails ==
    /\ at \notin {"done", "refused"}
    /\ Refuse

---------------------------------------------------------------------------
\* Others change rows and grants; after the evidence is read nothing asks for them.
RowChanges(e) ==
    /\ changes < MaxChanges /\ at \in {"retrieve", "expand", "get", "view", "links"}
    /\ changes' = changes + 1
    /\ \/ \E new \in [live : BOOLEAN, high : BOOLEAN] : rows' = [rows EXCEPT ![e] = new] /\ may' = may
       \/ may' = [may EXCEPT ![e] = ~@] /\ rows' = rows
    /\ UNCHANGED <<plan, asking>>

AskNext ==
    \/ /\ \/ Retrieve \/ Expand \/ Get \/ CanView \/ Collected \/ Links
          \/ ResolveAndSanitize \/ PutBatch \/ Chat \/ parseModelOutput \/ AskFails
       /\ UNCHANGED world
    \/ \E e \in Entities : RowChanges(e)

AskSpec == AskInit /\ [][AskNext]_askVars

---------------------------------------------------------------------------
(* Properties.                                                             *)

\* What the model is sent, and what an answer cites, is of entities that an evaluation of this
\* very request allowed: not only the retrieval before it, whose grants may be gone by then
\* (buildCanView, BuildPrivacySegmentsFromContextPieces, parseModelOutput).
AnswersKeepToEvidence ==
    LET shown == {prompt.texts[k].id : k \in DOMAIN prompt.texts} IN
    plan.kind \notin {"text", "backfill"} => shown \subseteq vouched /\ answer.cites \subseteq shown

\* No letter that some pattern found goes to the model as it is, unless one of the patterns that
\* found it is of a type whose rule says keep: also where spans overlap and one of them is cut
\* (mergeSpansInText, sanitizeOne).
NothingFoundIsSentAsIs ==
    at = "model" =>
        \A s \in DOMAIN prompt.texts :
            LET text == prompt.texts[s].text
                cut == Pieces(text)
                Upto(k) == Len(FlattenSeq([j \in 1..k |-> cut[j].value]))
                Found(i) == {c \in text.spans : c.from <= i /\ i <= c.to} IN
            \A k \in DOMAIN cut : \A i \in (Upto(k - 1) + 1)..Upto(k) :
                /\ text.chars[i] \in Letters /\ Found(i) # {}
                /\ Sanitize(policy, prompt.issued, <<cut[k]>>) = cut[k].value
                => \E c \in Found(i) : ActionFor(policy, c.type) = "keep"

\* A model that says back what it was sent gives the asker the text again, without what a rule
\* removed and with placeholders for what no rule lets back; but for texts that hold a
\* placeholder of their own, and tags that reach a second digit (PlaceholderTokenizer,
\* RehydrateFromTokenizer, which replaces strings one after the other).
EchoIsFaithful ==
    LET plainly == /\ \A p \in ToSet(prompt.cut) : ToSet(p.value) \subseteq Letters
                   /\ \A m \in ToSet(prompt.issued) : m.holder.n < Base
        Back(p) == IF Plain(p) \/ ActionFor(policy, p.type) = "keep" THEN p.value
                   ELSE IF ActionFor(policy, p.type) = "remove" THEN <<>>
                   ELSE IF RehydrateAllowed(policy, p.type) /\ ~High THEN p.value
                   ELSE <<HolderOf(prompt.issued, p)>>
    IN at = "done" /\ said = prompt.sent /\ plainly =>
          answer.text = FlattenSeq([k \in DOMAIN prompt.cut |-> Back(prompt.cut[k])])

\* When the model is called, the vault has a row for every placeholder it is sent, each standing
\* for one value; what the vault has more comes from requests that were broken off (PutBatch).
VaultHoldsWhatIsSent ==
    at \in {"model", "answer", "done"} /\ plan.vault =>
        /\ vault = ToSet(prompt.issued)
        /\ \A m \in vault : \A o \in vault \ {m} : m.holder # o.holder

=============================================================================
