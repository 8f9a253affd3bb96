--------------------------- MODULE Classification ---------------------------
(***************************************************************************)
(* The category proposed for an invoice or a transaction: keyword rules      *)
(* first (classification/rules.py), then the language model for what they    *)
(* leave open (classification/hybrid.py).                                   *)
(*                                                                          *)
(* An input is [target, texts, amount, direction]; texts are the non-empty   *)
(* texts that are searched, in their order.                                 *)
(***************************************************************************)
EXTENDS InvoiceExtraction

CONSTANT KeywordsIn(_)   \* the keywords of the rules that occur as words in the texts

Rule(code, type, keywords, targets, direction, perKeyword, base, confidence) ==
  [code |-> code, type |-> type, keywords |-> keywords, targets |-> targets,
   direction |-> direction, perKeyword |-> perKeyword, base |-> base,
   confidence |-> confidence]

AllTargets == {"invoice", "invoice_line_item", "transaction"}

\* A rule without target_types takes every target.
DefaultRules == <<
  Rule("professional_services", "revenue",
       {"consulting", "advisory", "retainer", "professional service"},
       AllTargets, None, 14, 8, "high"),
  Rule("sales_revenue", "revenue",
       {"invoice", "inv-", "ach credit", "wire credit", "payment received"},
       {"transaction"}, "inflow", 12, 6, "medium"),
  Rule("software_subscription", "expense",
       {"cloud hosting", "hosting", "software", "saas", "subscription", "aws", "vercel",
        "openai", "github"}, AllTargets, None, 14, 8, "high"),
  Rule("advertising_expense", "expense",
       {"google ads", "meta ads", "facebook ads", "advertising", "marketing", "campaign"},
       AllTargets, None, 14, 8, "high"),
  Rule("rent_expense", "expense", {"office rent", "rent", "lease", "coworking"},
       AllTargets, None, 12, 6, "medium"),
  Rule("utilities_expense", "expense",
       {"electricity", "water", "utility", "utilities", "internet"},
       AllTargets, None, 12, 6, "medium"),
  Rule("bank_fees", "expense", {"bank fee", "service charge", "monthly fee", "wire fee"},
       AllTargets, None, 12, 6, "medium"),
  Rule("payroll_expense", "expense", {"payroll", "salary", "wages", "contractor payroll"},
       AllTargets, None, 12, 6, "medium")>>

\* CATEGORY_TAXONOMY: the codes the model may choose from, with their types.
Taxonomy ==
  [code \in {"sales_revenue", "professional_services", "uncategorized_revenue",
             "software_subscription", "repairs_and_maintenance",
             "meals_and_entertainment", "office_supplies", "rent_expense",
             "utilities_expense", "uncategorized_expense", "uncategorized_other"} |->
     CASE code \in {"sales_revenue", "professional_services",
                    "uncategorized_revenue"} -> "revenue"
       [] code = "uncategorized_other"       -> "other"
       [] OTHER                              -> "expense"]

\* proposed_direction_for_category, and the directions of the taxonomy.
DirectionOf(type) == IF type = "revenue" THEN "income" ELSE type

-----------------------------------------------------------------------------
(* The rules.                                                                *)

Matched(rule, input) == rule.keywords \cap KeywordsIn(input.texts)

Applies(rule, input) ==
  /\ input.target \in rule.targets
  /\ rule.direction # None => input.direction = rule.direction
  /\ Matched(rule, input) # {}

DirectionAgrees(rule, input) ==
  \/ input.direction = "inflow" /\ rule.type = "revenue"
  \/ input.direction = "outflow" /\ rule.type = "expense"

RuleScore(rule, input) ==
  rule.base + rule.perKeyword * Cardinality(Matched(rule, input))
    + (IF DirectionAgrees(rule, input) THEN 5 ELSE 0)

ConfidenceRank(confidence) ==
  CASE confidence = "unknown" -> 0 [] confidence = "low"  -> 1
    [] confidence = "medium"  -> 2 [] OTHER               -> 3

\* The order max() compares matches in; of equal ones it keeps the first.
Outranks(r, s, input) ==
  LET key(x) == <<RuleScore(x, input), ConfidenceRank(x.confidence),
                  Cardinality(Matched(x, input))>>
  IN  \E k \in 1 .. 3 : /\ key(r)[k] > key(s)[k]
                        /\ \A l \in 1 .. k - 1 : key(r)[l] = key(s)[l]

FallbackType(input) ==
  IF input.direction = "inflow" THEN "revenue"
  ELSE IF input.direction = "outflow" THEN "expense"
  ELSE IF input.amount \in {None, 0} THEN "other"
  ELSE IF input.amount > 0 THEN "revenue" ELSE "expense"

FallbackClassification(input) ==
  LET type == FallbackType(input)
  IN  [code |-> CASE type = "revenue" -> "uncategorized_revenue"
                  [] type = "expense" -> "uncategorized_expense"
                  [] OTHER            -> "uncategorized_other",
       type |-> type, direction |-> DirectionOf(type), confidence |-> "low"]

\* RuleBasedCategoryClassifier.classify.
ClassifyByRules(input) ==
  LET hits == {i \in DOMAIN DefaultRules : Applies(DefaultRules[i], input)}
      best == CHOOSE i \in hits : \A j \in hits \ {i} :
                \/ Outranks(DefaultRules[i], DefaultRules[j], input)
                \/ i < j /\ ~Outranks(DefaultRules[j], DefaultRules[i], input)
      rule == DefaultRules[best]
  IN  IF hits = {} THEN FallbackClassification(input)
      ELSE [code |-> rule.code, type |-> rule.type,
            direction |-> DirectionOf(rule.type), confidence |-> rule.confidence]

-----------------------------------------------------------------------------
(* Inputs.                                                                   *)

\* build_invoice_classification_input: the totals' currency hides the metadata's.
InvoiceInput(groups) ==
  LET field(a, f) == IF groups[a] = None THEN None ELSE groups[a].fields[f]
      rows == IF groups[Table] = None THEN <<>> ELSE groups[Table].items
      texts == <<field(Metadata, "invoice_number"), field(Metadata, "supplier_name"),
                 field(Metadata, "customer_name")>>
               \o [i \in 1 .. Len(rows) |-> rows[i].description]
               \o <<FirstOf([totals |-> field(Totals, "currency"),
                             metadata |-> field(Metadata, "currency")],
                            "totals", "metadata")>>
  IN  [target |-> "invoice", texts |-> SelectSeq(texts, LAMBDA t : t # None),
       amount |-> Parsed(field(Totals, "total_amount")), direction |-> None]

-----------------------------------------------------------------------------
(* The language model.  Its answer is [code, confidence], or None when the   *)
(* call failed or its output is not structured.                             *)

\* Mutant of Uncertain: the model is asked about a medium match, too.
UncertainUnlessHigh(result) == result.confidence # "high"

Uncertain(result) == result.confidence \in {"unknown", "low"}

\* result_from_llm_payload: a code outside the taxonomy leaves the rules' result.
FromPayload(answer, result) ==
  IF answer.code \notin DOMAIN Taxonomy THEN result
  ELSE [code |-> answer.code, type |-> Taxonomy[answer.code],
        direction |-> DirectionOf(Taxonomy[answer.code]),
        confidence |-> IF answer.confidence \in ConfidenceLevels THEN answer.confidence
                       ELSE "low"]

\* classify_with_llm_fallback.
ClassifyWithFallback(input, answer) ==
  LET result == ClassifyByRules(input)
  IN  IF Uncertain(result) /\ answer # None THEN FromPayload(answer, result) ELSE result
=============================================================================
