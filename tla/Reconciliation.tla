--------------------------- MODULE Reconciliation ---------------------------
(***************************************************************************)
(* The scorer that matches an invoice with bank transactions                *)
(* (reconciliation/deterministic.py) and the verdict ReconciliationAgent    *)
(* draws from it (workflows/downstream_agents.py).                          *)
(*                                                                          *)
(* A transaction is [id, amount, currency, date, mentions, compact]: amount *)
(* in signed cents, date a day number or None (posted_at or value_at),      *)
(* mentions the invoice numbers its texts contain as written and compact    *)
(* those they contain once the hyphens are dropped.                         *)
(***************************************************************************)
EXTENDS InvoiceExtraction

MatchInput(draft) ==
  LET metadata == IF draft[Metadata] = None THEN EmptyGroup(Metadata).fields
                  ELSE draft[Metadata].fields
      totals == IF draft[Totals] = None THEN EmptyGroup(Totals).fields
                ELSE draft[Totals].fields
  IN  [number   |-> metadata.invoice_number,
       issue    |-> Parsed(metadata.issue_date),
       due      |-> Parsed(metadata.due_date),
       total    |-> Parsed(totals.total_amount),
       currency |-> FirstOf([totals |-> totals.currency, metadata |-> metadata.currency],
                            "totals", "metadata")]

CurrenciesConflict(invoice, tx) ==
  None \notin {invoice.currency, tx.currency} /\ invoice.currency # tx.currency

\* One percent, at least 1.00; five percent, at least 5.00.
AmountScore(invoice, tx) ==
  LET difference == Magnitude(Magnitude(tx.amount) - Magnitude(invoice.total))
      within(percent) == \/ 100 * difference <= percent * Magnitude(invoice.total)
                         \/ difference <= 100 * percent
  IN  IF invoice.total = None THEN 0
      ELSE IF difference <= 1 THEN 50
      ELSE IF within(1) THEN 35
      ELSE IF within(5) THEN 15 ELSE 0

DateScore(invoice, tx) ==
  LET near(day) == day # None /\ Magnitude(tx.date - day) <= 7
      terms == None \notin {invoice.issue, invoice.due}
  IN  IF tx.date = None THEN 0
      ELSE IF terms /\ invoice.issue <= tx.date /\ tx.date <= invoice.due THEN 20
      ELSE IF terms /\ tx.date - invoice.due \in 1 .. 7 THEN 15
      ELSE IF terms /\ invoice.issue - tx.date \in 1 .. 7 THEN 10
      ELSE IF near(invoice.due) THEN 12
      ELSE IF near(invoice.issue) THEN 8 ELSE 0

ReferenceScore(invoice, tx) ==
  IF invoice.number = None THEN 0
  ELSE IF invoice.number \in tx.mentions THEN 30
  ELSE IF invoice.number \in tx.compact THEN 25 ELSE 0

Score(invoice, tx) ==
  IF CurrenciesConflict(invoice, tx) THEN 0
  ELSE AmountScore(invoice, tx) + DateScore(invoice, tx) + ReferenceScore(invoice, tx)

Candidates(invoice, txs, minScore) == {tx \in txs : Score(invoice, tx) >= minScore}

-----------------------------------------------------------------------------
(* The agent.                                                                *)

\* The tenant's transactions within ten percent of the total; without any, its
\* recent ones (the ledgers here are smaller than the limit of 100).
InWindow(invoice, tx) ==
  /\ invoice.total # None
  /\ 9 * invoice.total <= 10 * tx.amount /\ 10 * tx.amount <= 11 * invoice.total

Considered(invoice, ledger) ==
  LET window == {tx \in ledger : InWindow(invoice, tx)}
  IN  IF window # {} THEN window ELSE ledger

\* In the test and local environments an empty ledger gives way to a payment made
\* to measure.
Synthetic(invoice, today) ==
  [id |-> <<"synthetic">>,
   amount |-> -Magnitude(IF invoice.total \in {None, 0} THEN 10000 ELSE invoice.total),
   currency |-> IF invoice.currency = None THEN "USD" ELSE invoice.currency,
   date |-> IF invoice.issue = None THEN today ELSE invoice.issue,
   mentions |-> {invoice.number} \ {None}, compact |-> {}]

ScoredTransactions(invoice, ledger, local, today) ==
  IF ledger = {} /\ local THEN {Synthetic(invoice, today)} ELSE Considered(invoice, ledger)

ReadyScore == 85

\* The reconciliation draft: the matched transactions and why a person must look.
Reconcile(invoice, txs) ==
  LET matches == Candidates(invoice, txs, 1)
  IN  [matched |-> {tx.id : tx \in matches},
       reason |-> IF matches = {} THEN "no_matching_transaction"
                  ELSE IF \E x, y \in matches : x # y THEN "ambiguous_match"
                  ELSE IF \E x \in matches : Score(invoice, x) < ReadyScore
                  THEN "low_confidence_match" ELSE None]
=============================================================================
