-------------------------- MODULE WorkflowOutputs --------------------------
(***************************************************************************)
(* What becomes of a finished agent workflow: the rows that                 *)
(* services/workflow_outputs.py writes for the reviewer, in the session in  *)
(* which the runner worked.                                                 *)
(*                                                                          *)
(* book is what the document has got: None while nothing is persisted, then *)
(* [outcome, document, invoice, lines, evidence, proposal, reconciliation,   *)
(* task], the parts that are not written being None or empty.               *)
(***************************************************************************)
EXTENDS AgentWorkflow

CONSTANTS CurrencyCodes,     \* texts of three capital letters
          Fits(_, _),        \* whether a column can hold a value
          Slugs,             \* the codes of the tenant's categories
          Likeness(_, _),    \* how a block's text resembles a value: 0, 75, 85, 95, 100
          Anchoring(_, _)    \* the field's label in a block: "starts", "inside", "none"

VARIABLE book

outVars == <<vars, book>>

-----------------------------------------------------------------------------
(* The invoice and its lines.                                                *)

\* The one-character signs are left out: they fit any column.
CurrencyAliases == [EURO |-> "EUR", EUROS |-> "EUR", DOLLAR |-> "USD", DOLLARS |-> "USD",
                    POUND |-> "GBP", POUNDS |-> "GBP"]

NormalizedCurrency(text) ==
  LET code == IF text \in DOMAIN CurrencyAliases THEN CurrencyAliases[text] ELSE text
  IN  IF code \in CurrencyCodes THEN code ELSE None

\* resolve_invoice_currency: a totals currency hides the metadata's, even when it is
\* no code.
InvoiceCurrency(draft) ==
  NormalizedCurrency(FirstOf([totals |-> draft[Totals].fields.currency,
                              metadata |-> draft[Metadata].fields.currency],
                             "totals", "metadata"))

CombinedConfidence(draft) ==
  CHOOSE c \in {draft[a].confidence : a \in Extractors} :
    \A a \in Extractors : ConfidenceRank(c) <= ConfidenceRank(draft[a].confidence)

BuiltInvoice(draft) ==
  [status |-> "pending_review", confidence |-> CombinedConfidence(draft),
   fields |-> [f \in MetadataFields \cup TotalsFields |->
     CASE f = "currency"                    -> InvoiceCurrency(draft)
       [] f \in {"issue_date", "due_date"}  -> Parsed(draft[Metadata].fields[f])
       [] f \in AmountFields                -> Parsed(draft[Totals].fields[f])
       [] OTHER                             -> draft[Metadata].fields[f]]]

\* Mutant of TakeNumber: a number that is already given is not looked for.
TakeNumberAsRead(taken, row) ==
  [taken EXCEPT !.numbers = Append(@, row.number)]

\* A number that is missing, not positive or already given is replaced by the first
\* automatic one that is free.
TakeNumber(taken, row) ==
  LET given == Range(taken.numbers)
      free == Min((taken.auto .. taken.auto + Cardinality(given)) \ given)
  IN  IF row.number # None /\ row.number > 0 /\ row.number \notin given
      THEN [taken EXCEPT !.numbers = Append(@, row.number)]
      ELSE [numbers |-> Append(taken.numbers, free), auto |-> free + 1]

LineNumbers(items) ==
  FoldLeft(TakeNumber, [numbers |-> <<>>, auto |-> 1], items).numbers

\* The lines take the totals' currency as it was read.
BuiltLines(draft) ==
  LET items == draft[Table].items
  IN  [i \in 1 .. Len(items) |->
         [number |-> LineNumbers(items)[i], quantity |-> Parsed(items[i].quantity),
          unit_price |-> Parsed(items[i].unit_price),
          line_total |-> Parsed(items[i].line_total),
          currency |-> draft[Totals].fields.currency]]

-----------------------------------------------------------------------------
(* Evidence: one row for each value of the metadata and the totals, holding  *)
(* the block it was found in or None.                                        *)

\* match_ocr_blocks: the likeness, 25 for the label in the block itself, and up to 19
\* for the nearest preceding block that begins with it.
BlockScore(field, value, blocks, i) ==
  LET labels == {k \in 1 .. i - 1 : Anchoring(field, blocks[k]) = "starts"}
  IN  Likeness(value, blocks[i])
        + (IF Anchoring(field, blocks[i]) # "none" THEN 25 ELSE 0)
        + (IF labels = {} THEN 0 ELSE Max({0, 20 - (i - Max(labels))}))

\* The first of the best blocks.
GroundingBlock(field, value, blocks) ==
  LET like == {i \in 1 .. Len(blocks) : Likeness(value, blocks[i]) > 0}
      score(i) == BlockScore(field, value, blocks, i)
  IN  Earliest({i \in like : \A k \in like : score(k) <= score(i)})

BuiltEvidence(draft, blocks) ==
  LET sources == {s \in {Metadata, Totals} \X (MetadataFields \cup TotalsFields) :
                    s[2] \in ValueFields(s[1]) /\ draft[s[1]].fields[s[2]] # None}
  IN  [s \in sources |-> GroundingBlock(s[2], draft[s[1]].fields[s[2]], blocks)]

\* build_review_field_grounding: the block that the review card shows for a field,
\* found once more by the same search.
Grounding(evidence) == RestrictDomain(evidence, LAMBDA s : s[2] # "currency")

-----------------------------------------------------------------------------
(* The proposals.                                                            *)

BuiltProposal(classified) ==
  IF classified = None THEN None
  ELSE [status |-> "proposed",
        category |-> IF classified.code \in Slugs THEN classified.code ELSE None,
        direction |-> classified.direction, confidence |-> classified.confidence]

\* The matched transactions that are in the database; the one made up for a local
\* replay is not.
Resolvable(match) == {tx \in UNION Ledgers : tx.id \in match.matched}

Allocation(tx) ==
  [transaction |-> tx.id, amount |-> Magnitude(tx.amount), currency |-> tx.currency]

\* Each matched transaction is allocated whole, also where several compete.
BuiltReconciliation(match, invoice) ==
  IF match = None THEN None
  ELSE LET allocations == {Allocation(tx) : tx \in Resolvable(match)}
           allocated == SumFunction([a \in allocations |-> a.amount])
           total == invoice.fields.total_amount
       IN  [status |-> "proposed", reason |-> match.reason, allocations |-> allocations,
            allocated |-> allocated,
            type |-> IF Cardinality(allocations) <= 1 THEN "one_to_one" ELSE "one_to_many",
            difference |-> IF total = None THEN None ELSE Magnitude(total) - allocated]

-----------------------------------------------------------------------------
(* What a draft can be.                                                      *)

\* The groups that the provider's fields, the text and the model's replies become.
Made(document, a) ==
  LET ocr == Reading(document)
      fb == Fallback(a, ocr)
  IN  ({PrebuiltGroups(EmptyScratchpad.groups, document.prebuilt)[a]} \ {None})
        \cup {FromFallback(a, fb, None).group}
        \cup {FromModel(a, AnswerTo(reply), fb, ocr).group : reply \in Replies[a]}

Drafts(document) ==
  {draft \in [Extractors -> UNION {Made(document, a) : a \in Extractors}] :
     \A a \in Extractors : draft[a] \in Made(document, a)}

-----------------------------------------------------------------------------
(* Persisting.                                                               *)

Nothing == [outcome |-> "written", document |-> "processing", invoice |-> None,
            lines |-> <<>>, evidence |-> <<>>, proposal |-> None,
            reconciliation |-> None, task |-> None]

OpenTask(target, reason, grounding) ==
  [target |-> target, status |-> "open", priority |-> "high", reason |-> reason,
   grounding |-> grounding]

\* build_review_task_for_failed_workflow.
FailureTask ==
  OpenTask("document", IF run.error = None THEN "workflow_failed" ELSE run.error, <<>>)

\* build_review_task_for_invoice.
InvoiceTask(evidence) ==
  OpenTask("invoice", "invoice_extraction_requires_human_review", Grounding(evidence))

\* The rows of a table are a sequence, and None is no currency to be replaced, no draft,
\* no invoice and no task.  Codes have the three letters of a currency column, which like
\* the others may be null, and no table has more rows than an integer can number.
ASSUME OutputAssumption ==
  /\ None \notin DOMAIN CurrencyAliases
  /\ \A code \in CurrencyCodes \cup {None} : Fits("currency", code)
  /\ \A reason \in Agents \cup {"RETRY_EXHAUSTED", "workflow_failed"} :
       OpenTask("document", reason, <<>>) # None
  /\ \A document \in Documents : \A draft \in Drafts(document) :
       LET rows == draft[Table].items
           evidence == BuiltEvidence(draft, LayoutBlocks(document.page))
       IN  /\ rows \in Seq(Range(rows))
           /\ \A i \in DOMAIN rows : Fits("number", i)
           /\ draft # None /\ BuiltInvoice(draft) # None /\ InvoiceTask(evidence) # None

\* Without a draft only a failed or stopped workflow leaves a task.
FailureRows ==
  IF wf.status \in {"failed", "review_required"}
  THEN [Nothing EXCEPT !.task = FailureTask, !.document = "review_required"]
  ELSE Nothing

InvoiceRows ==
  LET invoice == BuiltInvoice(scratch.draft)
      evidence == BuiltEvidence(scratch.draft, LayoutBlocks(job.document.page))
  IN  [outcome |-> "written", document |-> "review_required", invoice |-> invoice,
       lines |-> BuiltLines(scratch.draft), evidence |-> evidence,
       proposal |-> BuiltProposal(scratch.classified),
       reconciliation |-> BuiltReconciliation(scratch.match, invoice),
       task |-> InvoiceTask(evidence)]

Rows == IF scratch.draft = None THEN FailureRows ELSE InvoiceRows

\* The tables: uq_invoice_line_items_invoice_line_number, and the columns' lengths,
\* precisions and integers.
Accepted(rows) ==
  /\ \A i, k \in DOMAIN rows.lines : rows.lines[i].number = rows.lines[k].number => i = k
  /\ \A i \in DOMAIN rows.lines : \A column \in DOMAIN rows.lines[i] :
       Fits(column, rows.lines[i][column])
  /\ rows.invoice # None => \A column \in DOMAIN rows.invoice.fields :
       Fits(column, rows.invoice.fields[column])
  /\ rows.reconciliation # None => /\ Fits("allocated", rows.reconciliation.allocated)
                                   /\ Fits("difference", rows.reconciliation.difference)

\* The executors run the happy path and persist what the runner returned.
Persisting ==
  pc = "done" /\ job.driver \in {"custom", "graph"} /\ job.scenario = "happy_path"
              /\ book = None

\* One transaction: refused as a whole when a row does not fit its table.
Persist ==
  /\ Persisting
  /\ \E rows \in {Rows} :
       book' = IF Accepted(rows) THEN rows ELSE [Nothing EXCEPT !.outcome = "refused"]
  /\ UNCHANGED vars

OutInit == Init /\ book = None

OutNext == (Next /\ UNCHANGED book) \/ Persist

OutSpec == OutInit /\ [][OutNext]_outVars

\* Runner and persistence are awaited in one coroutine.
OutFairSpec == OutSpec /\ WF_outVars(OutNext)

-----------------------------------------------------------------------------
(* Properties.                                                               *)

\* Something that was read, or a sum over the matched transactions, is more than its
\* column can hold.  (A number that is not positive is replaced, and a currency of the
\* invoice that is no code is dropped; a currency of the lines is not.)
ReadTooMuch(draft) ==
  LET fields == BuiltInvoice(draft).fields
      rows == draft[Table].items
      match == BuiltReconciliation(scratch.match, BuiltInvoice(draft))
  IN  \/ \E f \in DOMAIN fields \ {"currency"} : ~Fits(f, fields[f])
      \/ \E i \in DOMAIN rows :
           \/ ~Fits("currency", draft[Totals].fields.currency)
           \/ rows[i].number # None /\ rows[i].number > 0 /\ ~Fits("number", rows[i].number)
           \/ \E column \in {"quantity", "unit_price", "line_total"} :
                ~Fits(column, Parsed(rows[i][column]))
      \/ match # None /\ ~(Fits("allocated", match.allocated) /\ Fits("difference", match.difference))

\* "the upload never disappears from human review": whatever the workflow came to,
\* the reviewer has an open task for the document or for its invoice, and every value
\* the invoice shows has its evidence.  The tables refuse an output only for something
\* that was read: never because the numbers given to its lines collide or leave the
\* column, nor for the invoice's own currency.
EveryDocumentReviewed == book # None =>
  IF book.outcome = "refused" THEN ReadTooMuch(scratch.draft)
  ELSE /\ book.document = "review_required" /\ book.task # None
       /\ book.task.target = "invoice" <=> book.invoice # None
       /\ book.task.target = "document" <=> wf.status = "failed"
       /\ book.invoice # None => \A f \in DOMAIN book.invoice.fields :
            book.invoice.fields[f] # None => \E a \in Extractors : <<a, f>> \in DOMAIN book.evidence
=============================================================================
