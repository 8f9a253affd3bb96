------------------------- MODULE InvoiceValidation -------------------------
(***************************************************************************)
(* The deterministic checks QA runs on an assembled draft                   *)
(* (validation/deterministic.py and the signal builders of                  *)
(* workflows/invoice_extraction.py).                                        *)
(*                                                                          *)
(* A draft is a function from Extractors to a group or None.  An issue is   *)
(* its code; a QA signal is [code, severity, retryable, target].            *)
(***************************************************************************)
EXTENDS InvoiceExtraction

CONSTANT PartyKey(_)   \* normalize_party_key of a party name that is not None; an
                       \* empty key is None

\* The tolerance of validate_invoice_arithmetic is one cent.
Near(x, y) == Magnitude(x - y) <= 1

LineTotals(items) == [i \in 1 .. Len(items) |-> Parsed(items[i].line_total)]

\* Rows that sum to more than the subtotal are read as a discount, not an issue.
LineIssues(items, subtotal, total) ==
  LET lines == LineTotals(items)
      sum == SumFunction(lines)
  IN  IF items = <<>> THEN {}
      ELSE IF \E i \in DOMAIN lines : lines[i] = None THEN {"ERR_LINE_TOTAL_INVALID"}
      ELSE IF subtotal # None THEN
        IF \/ total # None /\ Near(sum, total)
           \/ Near(sum, subtotal)
           \/ sum - subtotal > 1
        THEN {} ELSE {"ERR_SUBTOTAL_LINE_ITEMS_MISMATCH"}
      ELSE IF total # None /\ ~Near(sum, total) THEN {"ERR_LINE_TOTAL_MISMATCH"}
      ELSE {}

\* validate_invoice_arithmetic.
ArithmeticIssues(draft) ==
  IF draft[Totals] = None THEN {"ERR_TOTALS_GROUP_MISSING"}
  ELSE LET amount(f) == Parsed(draft[Totals].fields[f])
           subtotal == amount("subtotal_amount")
           tax == amount("tax_amount")
           total == amount("total_amount")
       IN  (IF None \in {subtotal, tax, total} THEN {"ERR_AMOUNT_INVALID"}
            ELSE IF Near(subtotal + tax, total) THEN {} ELSE {"ERR_LOGIC_MATH"})
           \cup (IF draft[Table] = None THEN {}
                 ELSE LineIssues(draft[Table].items, subtotal, total))

\* build_party_role_confusion_signals: the same party twice, or each name found
\* only in the region of the other.  regions[r] is the set of party keys region r
\* of the layout contains.
PartyIssues(draft, regions) ==
  IF draft[Metadata] = None THEN {}
  ELSE LET Key(name) == IF name = None THEN None ELSE PartyKey(name)
           supplier == Key(draft[Metadata].fields.supplier_name)
           customer == Key(draft[Metadata].fields.customer_name)
       IN  IF /\ supplier # None
              /\ \/ supplier = customer
                 \/ /\ customer # None
                    /\ supplier \in regions.bill_to /\ customer \in regions.supplier
           THEN {"ERR_PARTY_ROLE_CONFUSION"} ELSE {}

-----------------------------------------------------------------------------
(* Signals.                                                                  *)

ReviewSignal(code) ==
  [code |-> code, severity |-> "error", retryable |-> FALSE, target |-> None]

\* record_provider_extraction_error.
ProviderSignal(code) ==
  [code |-> code, severity |-> "blocking", retryable |-> FALSE, target |-> None]

\* create_total_amount_correction_signal, for the extractor it names.
CorrectionSignal(target) ==
  [code |-> "ERR_LOGIC_MATH", severity |-> "error", retryable |-> TRUE,
   target |-> target]

Signals(codes) == {ReviewSignal(code) : code \in codes}

\* The signals one QA run adds; no draft, no signals.
QASignals(draft, regions) ==
  IF draft = None THEN {}
  ELSE Signals(ArithmeticIssues(draft) \cup PartyIssues(draft, regions))

Corrections(signals) == {s \in signals : s.retryable /\ s.target # None}

\* Mutant of Reviews: a blocking signal is no error.
ReviewsErrorsOnly(signals) == {s \in signals : s.severity = "error"}

Reviews(signals) == {s \in signals : ~s.retryable \/ s.severity \in {"error", "blocking"}}

QAOutcome(signals) ==
  IF Corrections(signals) # {} THEN "retry_requested"
  ELSE IF Reviews(signals) # {} THEN "review_required"
  ELSE "succeeded"
=============================================================================
