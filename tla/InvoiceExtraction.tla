------------------------- MODULE InvoiceExtraction -------------------------
(***************************************************************************)
(* What one extractor agent makes of the OCR text, the language model's     *)
(* answer and the group already in the scratchpad                           *)
(* (workflows/invoice_extraction.py and the totals of                       *)
(* extraction/invoice_text_parser.py).                                      *)
(*                                                                          *)
(* A group is [status, fields, items, confidence]: fields maps the names of *)
(* GROUP_VALUE_FIELDS to a value or None, items are the table's rows        *)
(* [number, description, quantity, unit_price, line_total].                 *)
(* Amounts are whole cents, so that the two-decimal formatting of           *)
(* format_decimal_string is the identity on them; text values are opaque.   *)
(***************************************************************************)
EXTENDS DocumentLayout

CONSTANTS Unreadable,      \* text where a number is expected
          TruncatedNames   \* supplier names ending in a connector (da, de, ...)

Metadata == "metadata_extractor"
Table == "table_extractor"
Totals == "totals_extractor"
Extractors == {Metadata, Table, Totals}

ConfidenceLevels == {"unknown", "low", "medium", "high"}

MetadataFields ==
  {"invoice_number", "supplier_name", "supplier_tax_id", "customer_name",
   "customer_tax_id", "issue_date", "due_date", "currency"}
AmountFields == {"subtotal_amount", "tax_amount", "total_amount"}
TotalsFields == AmountFields \cup {"currency"}

ValueFields(a) == CASE a = Metadata -> MetadataFields
                    [] a = Totals   -> TotalsFields
                    [] OTHER        -> {}

RequiredFields(a) == CASE a = Metadata -> {"invoice_number", "supplier_name",
                                           "issue_date"}
                       [] a = Totals   -> {"total_amount"}
                       [] OTHER        -> {}

\* The defaults of the three pydantic group models.
EmptyGroup(a) == [status |-> "placeholder",
                  fields |-> [f \in ValueFields(a) |-> None],
                  items |-> <<>>, confidence |-> "unknown"]

Magnitude(n) == IF n < 0 THEN -n ELSE n

\* parse_decimal and parse_iso_date.
Parsed(value) == IF value = Unreadable THEN None ELSE value

-----------------------------------------------------------------------------
(* What the deterministic parser reads from the OCR text.  ocr.facts holds   *)
(* the values its label searches find.                                       *)

\* The text an extractor works on: metadata and totals take the full text and
\* only without it their regions; the table takes its region first.
ContextSource(a, ocr) ==
  LET regions == CASE a = Metadata -> {"header", "supplier", "bill_to", "ship_to"}
                   [] a = Table    -> {"line_item_table"}
                   [] OTHER        -> {"totals"}
  IN  IF a # Table /\ ocr.text THEN "full_text"
      ELSE IF regions \cap ocr.regions # {} THEN "regions"
      ELSE IF ocr.text THEN "full_text" ELSE "none"

InferTax(subtotal, total) ==
  IF subtotal = None \/ total = None THEN None
  ELSE IF total - subtotal < 0 THEN None
  ELSE total - subtotal

\* Two cents: twice the tolerance of validate_invoice_arithmetic.
AmountsConsistent(subtotal, tax, total) ==
  \/ None \in {subtotal, tax, total}
  \/ Magnitude(subtotal + tax - total) <= 2

TotalsFallback(facts) ==
  LET tax == IF facts.tax_amount # None THEN facts.tax_amount
             ELSE InferTax(facts.subtotal_amount, facts.total_amount)
      fields == [f \in TotalsFields |-> IF f = "tax_amount" THEN tax ELSE facts[f]]
      found == \E f \in TotalsFields : fields[f] # None
  IN  [status |-> IF found THEN "partial" ELSE "placeholder",
       fields |-> fields, items |-> <<>>,
       confidence |->
         IF /\ facts.explicit
            /\ AmountsConsistent(facts.subtotal_amount, tax, facts.total_amount)
            /\ ~(facts.tax_summary /\ tax = None)
         THEN "high"
         ELSE IF found THEN "medium" ELSE "unknown"]

TableFallback(items) ==
  [EmptyGroup(Table) EXCEPT !.items = items,
     !.status = IF items # <<>> THEN "partial" ELSE @,
     !.confidence = IF items # <<>> THEN "medium" ELSE @]

MetadataFallback(fields) ==
  LET found == \E f \in MetadataFields : fields[f] # None
  IN  [EmptyGroup(Metadata) EXCEPT !.fields = fields,
         !.status = IF found THEN "partial" ELSE @,
         !.confidence = IF found THEN "medium" ELSE @]

\* ocr_text_fallback_payload: every schema yields a group, never None.
Fallback(a, ocr) ==
  IF ContextSource(a, ocr) = "none" THEN EmptyGroup(a)
  ELSE IF a = Totals THEN TotalsFallback(ocr.totals)
  ELSE IF a = Table THEN TableFallback(ocr.items)
  ELSE MetadataFallback(ocr.metadata)

-----------------------------------------------------------------------------
(* Routing: does this extractor ask the language model?                      *)

\* is_scratchpad_group_populated.
Populated(existing, correction) ==
  ~correction /\ existing # None /\ existing.confidence # "low"

\* The fields the parser resolved; a truncated supplier name is not one.
Resolved(a, fb) ==
  {f \in ValueFields(a) :
     fb.fields[f] # None /\ ~(f = "supplier_name" /\ fb.fields[f] \in TruncatedNames)}

DeterministicComplete(a, fb) ==
  /\ RequiredFields(a) \subseteq Resolved(a, fb)
  /\ a = Totals => fb.confidence = "high"

\* Only a local model is spared by a complete reading, and never under correction.
ModelSpared(a, fb, llm, correction) ==
  llm = "ollama" /\ DeterministicComplete(a, fb) /\ ~correction

\* Totals that Azure marked low are not left to the mock model.
TotalsRecovered(a, existing, llm) ==
  a = Totals /\ existing # None /\ existing.confidence = "low" /\ llm = "mock_llm"

\* The table extractor overrides the decision and always asks.
Strategy(a, existing, fb, llm, correction) ==
  IF Populated(existing, correction) THEN "provider_fast_path"
  ELSE IF TotalsRecovered(a, existing, llm) THEN "deterministic_prebuilt_recovery"
  ELSE IF a # Table /\ ModelSpared(a, fb, llm, correction) THEN "deterministic_fast_path"
  ELSE "llm_fallback"

-----------------------------------------------------------------------------
(* Repairing the model's answer.  An answer is [shape, body]: "schema" and   *)
(* "invalid" carry a schema_version and a group (an invalid one has a key or *)
(* a type the contract refuses), "wrapped" uses other key names, "foreign"   *)
(* has none that is known, "empty" is {}.                                    *)

FirstOf(source, key, other) == IF source[key] # None THEN source[key] ELSE source[other]

ConfidenceLabel(label) == CASE label \in ConfidenceLevels           -> label
                            [] label \in {"certain", "confident"}   -> "high"
                            [] OTHER                                -> "medium"

\* Each alias list counts as one key; "name" and "tax_id" stand for the aliases
\* shared by supplier and customer.
UnwrapMetadata(body) ==
  LET issuer == IF body.issuer # None THEN body.issuer ELSE body.source
      bill_to == IF body.bill_to # None THEN body.bill_to ELSE body.source
      fields == [f \in MetadataFields |->
                   CASE f = "supplier_name"   -> FirstOf(issuer, f, "name")
                     [] f = "supplier_tax_id" -> FirstOf(issuer, f, "tax_id")
                     [] f = "customer_name"   -> FirstOf(bill_to, f, "name")
                     [] f = "customer_tax_id" -> FirstOf(bill_to, f, "tax_id")
                     [] OTHER                 -> body.source[f]]
  IN  [status |-> IF \E f \in MetadataFields \ {"supplier_tax_id", "customer_tax_id"} :
                       fields[f] # None
                  THEN "extracted" ELSE "placeholder",
       fields |-> fields, items |-> <<>>, confidence |-> ConfidenceLabel(body.confidence)]

\* The total of the first row that quantity times price explains.
ReferenceTotal(items) ==
  LET explained == {i \in 1 .. Len(items) :
                      /\ {None, Unreadable} \cap {items[i].quantity, items[i].unit_price,
                                                  items[i].line_total} = {}
                      /\ items[i].line_total > 0
                      /\ Magnitude(items[i].quantity * items[i].unit_price
                                     - items[i].line_total) <= 1}
  IN  IF explained = {} THEN None
      ELSE items[CHOOSE i \in explained : \A j \in explained : i <= j].line_total

\* sanitize_duplicate_line_totals.
SanitizeTotals(items) ==
  LET reference == ReferenceTotal(items)
  IN  [i \in 1 .. Len(items) |->
         IF /\ reference # None
            /\ items[i].line_total = reference
            /\ items[i].quantity = None /\ items[i].unit_price = None
         THEN [items[i] EXCEPT !.line_total = None] ELSE items[i]]

UnwrapTable(body) ==
  LET named(row) == \/ row.description # None
                    \/ \E v \in {row.quantity, row.unit_price, row.line_total} : v # None
      numbered == [i \in 1 .. Len(body.items) |-> [body.items[i] EXCEPT !.number = i]]
      rows == SanitizeTotals(SelectSeq(numbered, named))
  IN  [EmptyGroup(Table) EXCEPT
         !.status = IF rows # <<>> THEN "extracted" ELSE @, !.items = rows,
         !.confidence = IF rows # <<>> THEN "medium" ELSE @]

UnwrapTotals(body) ==
  [EmptyGroup(Totals) EXCEPT
     !.status = IF \E f \in TotalsFields : body.fields[f] # None THEN "extracted" ELSE @,
     !.fields = body.fields, !.confidence = ConfidenceLabel(body.confidence)]

\* A group in the contract's own form: only the table's totals are looked at.
NormalizeConformant(a, group) ==
  IF a = Table THEN [group EXCEPT !.items = SanitizeTotals(@)] ELSE group

\* normalize_provider_invoice_group_payload, on answers that become a group.
Normalize(a, answer) ==
  CASE answer.shape # "wrapped" -> NormalizeConformant(a, answer.body)
    [] a = Metadata             -> UnwrapMetadata(answer.body)
    [] a = Table                -> UnwrapTable(answer.body)
    [] OTHER                    -> UnwrapTotals(answer.body)

-----------------------------------------------------------------------------
(* Merging it with the parser's values.                                      *)

FillMissing(target, source, keys) ==
  [f \in DOMAIN target |-> IF f \in keys /\ target[f] = None THEN source[f] ELSE target[f]]

Prefer(target, source, keys) ==
  [f \in DOMAIN target |-> IF f \in keys /\ source[f] # None THEN source[f] ELSE target[f]]

MergeMetadata(group, fb) ==
  LET filled == FillMissing(group.fields, fb.fields,
                  {"supplier_name", "supplier_tax_id", "customer_tax_id", "currency"})
      merged == Prefer(filled, fb.fields,
                  {"invoice_number", "customer_name", "supplier_tax_id",
                   "customer_tax_id", "issue_date", "due_date"})
      guessed == fb.fields.due_date = None /\ merged.due_date = merged.issue_date
  IN  [group EXCEPT !.fields = IF guessed THEN [merged EXCEPT !.due_date = None]
                               ELSE merged]

MergeTable(group, fb) ==
  IF group.items # <<>> THEN group
  ELSE [group EXCEPT !.items = fb.items, !.status = fb.status]

MergeTotals(group, fb) ==
  LET filled == FillMissing(group.fields, fb.fields, TotalsFields)
      merged == IF fb.confidence = "high" THEN Prefer(filled, fb.fields, {"total_amount"})
                ELSE filled
  IN  [group EXCEPT !.fields = merged,
                    !.status = IF \E f \in AmountFields : merged[f] # None
                               THEN "extracted" ELSE @]

MergeFallback(a, group, fb) == CASE a = Metadata -> MergeMetadata(group, fb)
                                 [] a = Table    -> MergeTable(group, fb)
                                 [] OTHER        -> MergeTotals(group, fb)

-----------------------------------------------------------------------------
(* The group an extractor stores and the error it records (or None).         *)

\* An answer without schema_version is not merged; {} then validates to the
\* defaults, and anything else the contract refuses gives way to the parser.
FromAnswer(a, answer, fb) ==
  CASE answer.shape \in {"schema", "wrapped"} ->
         [group |-> MergeFallback(a, Normalize(a, answer), fb), error |-> None]
    [] answer.shape = "empty" ->
         [group |-> EmptyGroup(a), error |-> None]
    [] OTHER ->
         [group |-> fb, error |-> "ERR_LLM_OUTPUT_SCHEMA"]

\* The parser's group in the place of an answer: normalised, merged with itself.
FromFallback(a, fb, error) ==
  [group |-> FromAnswer(a, [shape |-> "schema", body |-> fb], fb).group, error |-> error]

\* run_llm_group_extraction_if_available and what follows it: outcome is the
\* model's answer or the error code of the call.
FromModel(a, outcome, fb, ocr) ==
  IF ContextSource(a, ocr) = "none" THEN FromFallback(a, fb, "ERR_LLM_INPUT_MISSING")
  ELSE IF outcome.shape = "error" THEN FromFallback(a, fb, outcome.body)
  ELSE FromAnswer(a, outcome, fb)

Extract(a, existing, ocr, llm, correction, outcome) ==
  LET fb == Fallback(a, ocr)
      strategy == Strategy(a, existing, fb, llm, correction)
  IN  CASE strategy = "provider_fast_path" -> [group |-> existing, error |-> None]
        [] strategy = "llm_fallback"       -> FromModel(a, outcome, fb, ocr)
        [] OTHER                           -> FromFallback(a, fb, None)
=============================================================================
