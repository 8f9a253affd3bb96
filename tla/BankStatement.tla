--------------------------- MODULE BankStatement ---------------------------
(***************************************************************************)
(* The import of bank statements (services/bank_statement_import.py) beside  *)
(* the workflow of a document: what a file becomes in the ledger, and the    *)
(* matches an import adds to the invoice the workflow has persisted.         *)
(*                                                                          *)
(* A file is [bank, number, rows]; a row has the cells [date, description,   *)
(* debit, credit, balance, currency], each a value, None or Unreadable, and  *)
(* the invoice numbers its description mentions (see Reconciliation).        *)
(***************************************************************************)
EXTENDS WorkflowOutputs

CONSTANTS Statements,    \* the files
          MaxImports     \* bound: imports after the invoice was persisted

VARIABLES matches,       \* reconciliations the imports committed, in their order
          imports        \* imports made (bound)

bankVars == <<outVars, matches, imports>>

-----------------------------------------------------------------------------
(* The file.                                                                 *)

\* _get_or_create_bank_account: accounts are told apart by these two.
Account(file) == <<file.bank, file.number>>

\* string_cell, decimal_cell and date_cell.
Cell(value) == IF value = Unreadable THEN None ELSE value

\* A row counts with a description and one of the two amounts.
Readable(row) ==
  row.description # None /\ {Cell(row.debit), Cell(row.credit)} # {None}

\* A credit cell decides, also one that reads 0.00.
SignedAmount(row) ==
  IF Cell(row.credit) # None THEN row.credit ELSE -Magnitude(row.debit)

\* The metadata rows carry no currency, so a row without one is in dollars.
RowCurrency(row) == IF row.currency = None THEN "USD" ELSE row.currency

\* transaction_content_hash: rows that agree in everything but their place differ.
ContentHash(account, row, index) ==
  <<account, Cell(row.date), row.description, SignedAmount(row), Cell(row.balance), index>>

\* parse_statement_csv and _create_transactions: a row whose hash the account knows is
\* that transaction, so a file always yields the same transactions.
Transactions(file) ==
  LET rows == SelectSeq(file.rows, Readable)
  IN  {[id |-> ContentHash(Account(file), rows[i], i), amount |-> SignedAmount(rows[i]),
        currency |-> RowCurrency(rows[i]), date |-> Cell(rows[i].date),
        mentions |-> rows[i].mentions, compact |-> rows[i].compact] : i \in DOMAIN rows}

\* Every transaction there can be.
Imported == UNION {Transactions(file) : file \in Statements}

\* The workflow looks at imported transactions, a hash identifies one, and a reason
\* for review is not none.
ASSUME LedgerAssumption ==
  /\ UNION Ledgers \subseteq Imported
  /\ \A s, t \in Imported : s.id = t.id => s = t
  /\ None \notin {"no_matching_transaction", "ambiguous_match", "low_confidence_match"}

-----------------------------------------------------------------------------
(* The match.                                                                *)

\* invoice_input_from_model: the persisted row, not the groups.
ImportInput(invoice) ==
  [number   |-> invoice.fields.invoice_number, issue |-> invoice.fields.issue_date,
   due      |-> invoice.fields.due_date,       total |-> invoice.fields.total_amount,
   currency |-> invoice.fields.currency]

\* Mutant of AllocationExists: what the workflow allocated is not looked for.
AllocationOfImports(tx) ==
  \E i \in DOMAIN matches : matches[i].allocation.transaction = tx.id

\* allocation_exists.
AllocationExists(tx) ==
  \/ \E i \in DOMAIN matches : matches[i].allocation.transaction = tx.id
  \/ /\ book.reconciliation # None
     /\ \E a \in book.reconciliation.allocations : a.transaction = tx.id

\* The status and the task of a match, and what it allocates: the transaction whole.
ImportMatch(invoice, tx, txs) ==
  LET sure == txs = {tx} /\ Score(ImportInput(invoice), tx) >= ReadyScore
  IN  [status |-> IF sure THEN "proposed" ELSE "pending_review", task |-> ~sure,
       allocation |-> Allocation(tx)]

\* _reconcile_invoices for the invoice: only the best candidate is looked at, and of
\* equal ones that with the lower identifier, which can be any.
Reconciled(invoice, txs) ==
  LET candidates == Candidates(ImportInput(invoice), txs, 1)
      best == {tx \in candidates : \A other \in candidates :
                 Score(ImportInput(invoice), other) <= Score(ImportInput(invoice), tx)}
  IN  \/ candidates = {} /\ UNCHANGED matches
      \/ \E tx \in best :
           matches' = IF AllocationExists(tx) THEN matches
                      ELSE Append(matches, ImportMatch(invoice, tx, candidates))

\* One import, in its transaction, of a file that may have been imported before.
ImportStatement(file) ==
  /\ book # None /\ book.invoice # None
  /\ imports < MaxImports
  /\ imports' = imports + 1
  /\ Reconciled(book.invoice, Transactions(file))
  /\ UNCHANGED outVars

BankInit == OutInit /\ matches = <<>> /\ imports = 0

BankNext == \/ OutNext /\ UNCHANGED <<matches, imports>>
            \/ \E file \in Statements : ImportStatement(file)

BankSpec == BankInit /\ [][BankNext]_bankVars

\* Nothing ever makes a client upload a statement; the workflow goes on by itself.
BankFairSpec == BankSpec /\ WF_outVars(OutNext)

-----------------------------------------------------------------------------
(* Properties.                                                               *)

\* What is proposed without asking anybody.
SureAllocations ==
  (IF book.reconciliation # None /\ book.reconciliation.reason = None
   THEN book.reconciliation.allocations ELSE {})
  \cup {matches[i].allocation : i \in {i \in DOMAIN matches : ~matches[i].task}}

\* It rests on all three signals and allocates the invoice's total within one
\* percent, or 1.00, whether the workflow matched or a later import did.
SureMatchesAgree == \A a \in SureAllocations : \E tx \in Imported :
  LET invoice == ImportInput(book.invoice)
  IN  /\ Allocation(tx) = a
      /\ AmountScore(invoice, tx) >= 35
      /\ DateScore(invoice, tx) > 0 /\ ReferenceScore(invoice, tx) > 0

\* A transaction is allocated to the invoice once, however often its statement is
\* imported and whoever came first.
AllocatedOnce == \A i \in DOMAIN matches :
  LET id == matches[i].allocation.transaction
  IN  /\ \A k \in DOMAIN matches : matches[k].allocation.transaction = id => k = i
      /\ book.reconciliation # None =>
           \A a \in book.reconciliation.allocations : a.transaction # id

\* Matches are what a bookkeeper takes them for: a sure one is of a payment that
\* agrees with the invoice in everything, and no payment is counted twice for it.
MatchesHold ==
  book # None /\ book.invoice # None => SureMatchesAgree /\ AllocatedOnce
=============================================================================
