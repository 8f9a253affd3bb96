------------------------ MODULE BankStatementProofs ------------------------
(***************************************************************************)
(* Theorems about what becomes of a finished workflow: the rows persisted   *)
(* for the reviewer, and the matches between an invoice and the bank's      *)
(* transactions, for any documents, statements, ledgers and imports.        *)
(*                                                                          *)
(* A score of ReadyScore needs all three of its parts, and the workflow and  *)
(* the import score the same invoice: the one validated, the one persisted.  *)
(* The rows rest on where a workflow ends (OutcomeInv), on what a draft is   *)
(* made of (DraftInv), and on the numbers that a fold gives the lines.      *)
(***************************************************************************)
EXTENDS BankStatement, AgentWorkflowProofs, WellFoundedInduction

-----------------------------------------------------------------------------
(* The score.                                                                *)

LEMMA ScoreParts ==
  ASSUME NEW invoice, NEW tx
  PROVE  /\ AmountScore(invoice, tx) \in {0, 15, 35, 50}
         /\ DateScore(invoice, tx) \in {0, 8, 10, 12, 15, 20}
         /\ ReferenceScore(invoice, tx) \in {0, 25, 30}
<1>1. AmountScore(invoice, tx) \in {0, 15, 35, 50}
    BY DEF AmountScore
<1>2. DateScore(invoice, tx) \in {0, 8, 10, 12, 15, 20}
    BY DEF DateScore
<1>3. ReferenceScore(invoice, tx) \in {0, 25, 30}
    BY DEF ReferenceScore
<1>4. QED  BY <1>1, <1>2, <1>3

\* No two of the three parts make up for the third, and a part that counts had
\* something to look at.
LEMMA SureScore ==
  ASSUME NEW invoice, NEW tx, Score(invoice, tx) >= ReadyScore
  PROVE  /\ AmountScore(invoice, tx) >= 35
         /\ DateScore(invoice, tx) > 0 /\ ReferenceScore(invoice, tx) > 0
         /\ invoice.total # None /\ invoice.number # None
<1>1. /\ AmountScore(invoice, tx) >= 35
      /\ DateScore(invoice, tx) > 0 /\ ReferenceScore(invoice, tx) > 0
    BY ScoreParts DEF Score, ReadyScore
<1>2. invoice.total # None
    BY <1>1 DEF AmountScore
<1>3. invoice.number # None
    BY <1>1 DEF ReferenceScore
<1>4. QED  BY <1>1, <1>2, <1>3

LEMMA ScoreIsNumber ==
  ASSUME NEW invoice, NEW tx
  PROVE  Score(invoice, tx) \in Int
BY ScoreParts DEF Score

\* The parts look at nothing of the invoice but this.
LEMMA SameParts ==
  ASSUME NEW x, NEW y, NEW tx, x.number = y.number, x.issue = y.issue, x.due = y.due,
         x.total = y.total
  PROVE  /\ AmountScore(x, tx) = AmountScore(y, tx)
         /\ DateScore(x, tx) = DateScore(y, tx)
         /\ ReferenceScore(x, tx) = ReferenceScore(y, tx)
<1>1. AmountScore(x, tx) = AmountScore(y, tx)
    BY DEF AmountScore
<1>2. DateScore(x, tx) = DateScore(y, tx)
    BY DEF DateScore
<1>3. ReferenceScore(x, tx) = ReferenceScore(y, tx)
    BY DEF ReferenceScore
<1>4. QED  BY <1>1, <1>2, <1>3

\* What the workflow scores is what it persists, as far as the parts go.
LEMMA PersistedAsMatched ==
  ASSUME NEW draft, MatchInput(draft).total # None, MatchInput(draft).number # None
  PROVE  LET x == MatchInput(draft)
             y == ImportInput(BuiltInvoice(draft))
         IN  /\ x.number = y.number /\ x.issue = y.issue
             /\ x.due = y.due /\ x.total = y.total
<1>1. /\ ValueFields(Metadata) = MetadataFields
      /\ ValueFields(Totals) = TotalsFields
    BY DEF ValueFields, Metadata, Totals
<1>2. draft[Metadata] # None
    <2>1. draft[Metadata] = None =>
            MatchInput(draft).number = EmptyGroup(Metadata).fields.invoice_number
        BY DEF MatchInput
    <2>2. EmptyGroup(Metadata).fields.invoice_number = None
        BY <1>1 DEF EmptyGroup, MetadataFields
    <2>3. QED  BY <2>1, <2>2
<1>3. draft[Totals] # None
    <2>1. draft[Totals] = None =>
            MatchInput(draft).total = Parsed(EmptyGroup(Totals).fields.total_amount)
        BY DEF MatchInput
    <2>2. EmptyGroup(Totals).fields.total_amount = None
        BY <1>1 DEF EmptyGroup, TotalsFields, AmountFields
    <2>3. QED  BY <2>1, <2>2 DEF Parsed
<1>4. /\ MatchInput(draft).number = draft[Metadata].fields["invoice_number"]
      /\ MatchInput(draft).issue = Parsed(draft[Metadata].fields["issue_date"])
      /\ MatchInput(draft).due = Parsed(draft[Metadata].fields["due_date"])
      /\ MatchInput(draft).total = Parsed(draft[Totals].fields["total_amount"])
    BY <1>2, <1>3 DEF MatchInput
<1>5. /\ BuiltInvoice(draft).fields["invoice_number"] = draft[Metadata].fields["invoice_number"]
      /\ BuiltInvoice(draft).fields["issue_date"] =
           Parsed(draft[Metadata].fields["issue_date"])
      /\ BuiltInvoice(draft).fields["due_date"] = Parsed(draft[Metadata].fields["due_date"])
      /\ BuiltInvoice(draft).fields["total_amount"] =
           Parsed(draft[Totals].fields["total_amount"])
    BY DEF BuiltInvoice, MetadataFields, TotalsFields, AmountFields
<1>6. /\ ImportInput(BuiltInvoice(draft)).number = BuiltInvoice(draft).fields["invoice_number"]
      /\ ImportInput(BuiltInvoice(draft)).issue = BuiltInvoice(draft).fields["issue_date"]
      /\ ImportInput(BuiltInvoice(draft)).due = BuiltInvoice(draft).fields["due_date"]
      /\ ImportInput(BuiltInvoice(draft)).total = BuiltInvoice(draft).fields["total_amount"]
    BY DEF ImportInput
<1>7. QED  BY <1>4, <1>5, <1>6

\* A match without a reason for review is of one transaction, with a sure score.
LEMMA ReadyMatch ==
  ASSUME NEW invoice, NEW txs, Reconcile(invoice, txs).reason = None
  PROVE  \E x \in txs : /\ Reconcile(invoice, txs).matched = {x.id}
                        /\ Score(invoice, x) >= ReadyScore
<1> DEFINE found == Candidates(invoice, txs, 1)
<1>1. /\ found # {}
      /\ ~\E x, y \in found : x # y
      /\ ~\E x \in found : Score(invoice, x) < ReadyScore
    BY LedgerAssumption DEF Reconcile
<1>2. PICK x \in found : found = {x}
    BY <1>1
<1>3. x \in txs /\ Score(invoice, x) \in Int
    BY <1>2, ScoreIsNumber DEF Candidates
<1>4. Score(invoice, x) >= ReadyScore
    BY <1>1, <1>2, <1>3 DEF ReadyScore
<1>5. Reconcile(invoice, txs).matched = {x.id}
    BY <1>2 DEF Reconcile
<1>6. QED  BY <1>3, <1>4, <1>5

-----------------------------------------------------------------------------
(* The invariant.                                                            *)

\* The match is of the draft that was validated, and of what was then in the ledger.
MatchAtHand == \/ scratch.match = None
               \/ /\ pc \in {Review, Insight, "complete", "done", "raised"}
                  /\ \E ledger \in Ledgers :
                       LET invoice == MatchInput(scratch.draft)
                       IN  scratch.match = Reconcile(invoice,
                             ScoredTransactions(invoice, ledger, job.local, Today))

\* What was persisted is what the workflow ended with.
BookAtHand == book # None => /\ pc = "done"
                             /\ book.invoice # None => book = InvoiceRows

Matches == [status : {"proposed", "pending_review"}, task : BOOLEAN,
            allocation : {Allocation(tx) : tx \in Imported}]

\* Nothing is imported for an invoice that is not there yet; what is sure about an
\* import's match is its score.
ImportsMatched ==
  /\ matches \in Seq(Matches)
  /\ book = None => matches = <<>>
  /\ \A i \in DOMAIN matches : ~matches[i].task =>
       \E tx \in Imported : /\ Allocation(tx) = matches[i].allocation
                            /\ Score(ImportInput(book.invoice), tx) >= ReadyScore

BankInv == AgentInv /\ MatchAtHand /\ BookAtHand /\ ImportsMatched /\ AllocatedOnce

-----------------------------------------------------------------------------
(* The steps.                                                                *)

\* A step of a driver ends no later than "done" and touches the match once.
LEMMA MatchStep ==
  ASSUME AgentInv, MatchAtHand, Next
  PROVE  MatchAtHand' /\ pc # "done"
<1>1. Shapes
    BY DEF AgentInv
<1>2. /\ PreparationAgents = {Intake, Layout, Privacy}
      /\ Extractors = {Metadata, Table, Totals} /\ "done" \notin Agents
      /\ {Intake, Layout, Privacy, Metadata, Table, Totals, Assembly, QA, Classifier,
          Matching, Review, Insight} = Agents
    BY Names, ControlStates
<1>3. ASSUME scratch'.match = scratch.match,
             pc \notin {Review, Insight, "complete", "done", "raised"}
      PROVE  MatchAtHand'
    BY <1>3 DEF MatchAtHand
<1>4. CASE AcceptDocument \/ FailLayout \/ ApplyPolicy \/ Validate \/ RetryGate
           \/ RequestRetries
    <2>1. scratch' = scratch
        BY <1>4 DEF AcceptDocument, FailLayout, ApplyPolicy, Validate, RetryGate,
                    RequestRetries
    <2>2. pc \in {Intake, Layout, Privacy, QA, "retry_gate", "request_retries"}
        BY <1>4 DEF AcceptDocument, FailLayout, ApplyPolicy, Validate, RetryGate,
                    RequestRetries, Await
    <2>3. QED
        BY <1>3, <2>1, <2>2 DEF Intake, Layout, Privacy, QA, Review, Insight
<1>5. CASE AnalyzeLayout \/ Assemble \/ Classify \/ \E a \in Extractors : ExtractGroup(a)
    <2>1. pc \in {Layout, Assembly, Classifier, Metadata, Table, Totals}
        BY <1>2, <1>5 DEF AnalyzeLayout, Assemble, Classify, ExtractGroup, Await
    <2>2. scratch'.match = scratch.match
        <3>1. CASE AnalyzeLayout
            BY <1>1, <3>1 DEF AnalyzeLayout, Shapes
        <3>2. CASE Assemble
            BY <1>1, <3>2 DEF Assemble, Shapes
        <3>3. CASE Classify
            BY <1>1, <3>3 DEF Classify, Shapes
        <3>4. CASE \E a \in Extractors : ExtractGroup(a)
            BY <1>1, <3>4 DEF ExtractGroup, Shapes
        <3>5. QED  BY <1>5, <3>1, <3>2, <3>3, <3>4
    <2>3. QED
        BY <1>3, <2>1, <2>2 DEF Layout, Assembly, Classifier, Metadata, Table, Totals,
                                Review, Insight
<1>6. CASE Match
    <2>1. pc = Matching /\ pc' \in {Review, "complete"} /\ DraftKept /\ job' = job
        BY <1>1, <1>6, BusinessSteps DEF Ran
    <2>2. scratch.draft = scratch.groups
        BY <1>2, <2>1, Names DEF AgentInv, ValidatedBeforeBusiness, Business
    <2>3. \E ledger \in Ledgers :
            LET invoice == MatchInput(scratch.groups)
            IN  scratch' = [scratch EXCEPT !.match = Reconcile(invoice,
                              ScoredTransactions(invoice, ledger, job.local, Today))]
        BY <1>6 DEF Match
    <2>4. \E ledger \in Ledgers :
            LET invoice == MatchInput(scratch.groups)
            IN  scratch'.match = Reconcile(invoice,
                  ScoredTransactions(invoice, ledger, job.local, Today))
        BY <1>1, <2>3 DEF Shapes
    <2>5. QED
        BY <2>1, <2>2, <2>4 DEF MatchAtHand, DraftKept, Matching
<1>7. CASE Coordinate \/ ProduceInsights
    <2>1. /\ pc \in {Review, Insight} /\ pc' \in {Insight, "complete"}
          /\ DraftKept /\ job' = job
        BY <1>1, <1>7, BusinessSteps DEF Ran
    <2>2. scratch'.match = scratch.match
        BY <1>1, <1>7 DEF Coordinate, ProduceInsights, Shapes
    <2>3. QED
        BY <2>1, <2>2 DEF MatchAtHand, DraftKept, Review, Insight
<1>8. CASE Complete \/ LoseHandoff
    <2>1. pc \in Agents \cup {"complete"} /\ pc' \in {"done", "raised"}
          /\ scratch' = scratch /\ job' = job
        BY <1>8 DEF Complete, LoseHandoff
    <2>2. QED  BY <1>2, <2>1 DEF MatchAtHand
<1>9. QED  BY <1>4, <1>5, <1>6, <1>7, <1>8 DEF Next

\* The workflow's steps and the persistence leave a book there is alone, and nothing
\* is matched before there is one.
LEMMA WorkflowKeeps ==
  ASSUME BankInv, OutNext, UNCHANGED <<matches, imports>>
  PROVE  BankInv'
<1>1. CASE Next /\ UNCHANGED book
    <2>1. AgentInv' /\ MatchAtHand' /\ pc # "done"
        BY <1>1, AgentInvStep, MatchStep DEF BankInv
    <2>2. book = None /\ book' = None
        BY <1>1, <2>1 DEF BankInv, BookAtHand
    <2>3. matches = <<>> /\ matches' = <<>>
        BY <2>2 DEF BankInv, ImportsMatched
    <2>4. BookAtHand' /\ ImportsMatched' /\ AllocatedOnce'
        BY <2>2, <2>3 DEF BookAtHand, ImportsMatched, AllocatedOnce
    <2>5. QED  BY <2>1, <2>4 DEF BankInv
<1>2. CASE Persist
    <2>1. /\ pc = "done" /\ book = None /\ UNCHANGED vars
          /\ book' \in {Rows, [Nothing EXCEPT !.outcome = "refused"]}
        BY <1>2 DEF Persist, Persisting
    <2>2. AgentInv'
        BY <2>1, AgentInvStep DEF BankInv
    <2>3. MatchAtHand' /\ InvoiceRows' = InvoiceRows
        BY <2>1 DEF BankInv, MatchAtHand, vars, InvoiceRows
    <2>4. matches = <<>> /\ matches' = <<>>
        BY <2>1 DEF BankInv, ImportsMatched
    <2>5. [Nothing EXCEPT !.outcome = "refused"].invoice = None /\ FailureRows.invoice = None
        BY DEF Nothing, FailureRows
    <2>6. BookAtHand'
        BY <2>1, <2>3, <2>5 DEF BookAtHand, Rows, vars
    <2>7. ImportsMatched' /\ AllocatedOnce'
        BY <2>4 DEF ImportsMatched, AllocatedOnce
    <2>8. QED  BY <2>2, <2>3, <2>6, <2>7 DEF BankInv
<1>3. QED  BY <1>1, <1>2 DEF OutNext

\* An import adds at most one match, of a transaction nothing was allocated of.
LEMMA ImportKeeps ==
  ASSUME BankInv, NEW file \in Statements, ImportStatement(file)
  PROVE  BankInv'
<1>1. /\ book # None /\ UNCHANGED outVars
      /\ Reconciled(book.invoice, Transactions(file))
    BY DEF ImportStatement
<1>2. AgentInv' /\ MatchAtHand' /\ BookAtHand'
    <2>1. UNCHANGED vars /\ UNCHANGED book
        BY <1>1 DEF outVars
    <2>2. AgentInv'
        BY <2>1, AgentInvStep DEF BankInv
    <2>3. QED
        BY <2>1, <2>2 DEF BankInv, MatchAtHand, BookAtHand, InvoiceRows, vars
<1>3. book' = book
    BY <1>1 DEF outVars
<1>4. CASE matches' = matches
    BY <1>2, <1>3, <1>4 DEF BankInv, ImportsMatched, AllocatedOnce
<1>5. CASE matches' # matches
    <2>1. PICK tx \in Transactions(file), txs \in SUBSET Transactions(file) :
            /\ ~AllocationExists(tx)
            /\ matches' = Append(matches, ImportMatch(book.invoice, tx, txs))
        BY <1>1, <1>5 DEF Reconciled, Candidates
    <2> DEFINE new == ImportMatch(book.invoice, tx, txs)
    <2>2. tx \in Imported
        BY <2>1 DEF Imported
    <2>3. /\ new \in Matches
          /\ new.allocation = Allocation(tx)
          /\ ~new.task => Score(ImportInput(book.invoice), tx) >= ReadyScore
        BY <2>2 DEF ImportMatch, Matches
    <2>4. Allocation(tx).transaction = tx.id
        BY DEF Allocation
    <2>5. matches \in Seq(Matches)
        BY DEF BankInv, ImportsMatched
    <2> HIDE DEF new
    <2>6. /\ matches' \in Seq(Matches)
          /\ DOMAIN matches' = 1 .. Len(matches) + 1 /\ DOMAIN matches = 1 .. Len(matches)
          /\ Len(matches) \in Nat
          /\ \A i \in DOMAIN matches : matches'[i] = matches[i]
          /\ matches'[Len(matches) + 1] = new
        BY <2>1, <2>3, <2>5 DEF new
    <2>7. ImportsMatched'
        BY <1>1, <1>3, <2>2, <2>3, <2>6 DEF BankInv, ImportsMatched
    <2>8. /\ \A i \in DOMAIN matches : matches[i].allocation.transaction # tx.id
          /\ book.reconciliation # None =>
               \A a \in book.reconciliation.allocations : a.transaction # tx.id
        BY <2>1 DEF AllocationExists
    <2>9. AllocatedOnce'
        <3> SUFFICES ASSUME NEW i \in DOMAIN matches'
                     PROVE  LET id == matches'[i].allocation.transaction
                            IN  /\ \A k \in DOMAIN matches' :
                                     matches'[k].allocation.transaction = id => k = i
                                /\ book'.reconciliation # None =>
                                     \A a \in book'.reconciliation.allocations :
                                       a.transaction # id
            BY DEF AllocatedOnce
        <3>1. CASE i = Len(matches) + 1
            BY <1>3, <2>3, <2>4, <2>6, <2>8, <3>1
        <3>2. CASE i \in DOMAIN matches
            BY <1>3, <2>3, <2>4, <2>6, <2>8, <3>2 DEF BankInv, AllocatedOnce
        <3>3. QED  BY <2>6, <3>1, <3>2
    <2>10. QED  BY <1>2, <2>7, <2>9 DEF BankInv
<1>6. QED  BY <1>4, <1>5

LEMMA BankInvHolds == BankSpec => []BankInv
<1>1. BankInit => BankInv
    <2> SUFFICES ASSUME BankInit PROVE BankInv
        OBVIOUS
    <2>1. Init /\ book = None /\ matches = <<>>
        BY DEF BankInit, OutInit
    <2>2. scratch.match = None
        BY <2>1 DEF Init, EmptyScratchpad
    <2>3. MatchAtHand /\ BookAtHand /\ ImportsMatched /\ AllocatedOnce
        BY <2>1, <2>2 DEF MatchAtHand, BookAtHand, ImportsMatched, AllocatedOnce
    <2>4. QED  BY <2>1, <2>3, AgentInvInit DEF BankInv
<1>2. BankInv /\ [BankNext]_bankVars => BankInv'
    <2> SUFFICES ASSUME BankInv, [BankNext]_bankVars PROVE BankInv'
        OBVIOUS
    <2>1. CASE OutNext /\ UNCHANGED <<matches, imports>>
        BY <2>1, WorkflowKeeps
    <2>2. CASE \E file \in Statements : ImportStatement(file)
        BY <2>2, ImportKeeps
    <2>3. CASE UNCHANGED bankVars
        <3>1. UNCHANGED vars /\ book' = book /\ matches' = matches
            BY <2>3 DEF bankVars, outVars
        <3>2. AgentInv'
            BY <3>1, AgentInvStep DEF BankInv
        <3>3. MatchAtHand' /\ BookAtHand'
            BY <3>1 DEF BankInv, MatchAtHand, BookAtHand, InvoiceRows, vars
        <3>4. ImportsMatched' /\ AllocatedOnce'
            BY <3>1 DEF BankInv, ImportsMatched, AllocatedOnce
        <3>5. QED  BY <3>2, <3>3, <3>4 DEF BankInv
    <2>4. QED  BY <2>1, <2>2, <2>3 DEF BankNext
<1>3. QED  BY <1>1, <1>2, PTL DEF BankSpec

-----------------------------------------------------------------------------
\* Persistence and imports are beside the workflow: what is proved of the drivers
\* holds with them.
THEOREM WorkflowUndisturbed == BankSpec => Spec
<1>1. BankInit => Init
    BY DEF BankInit, OutInit
<1>2. [BankNext]_bankVars => [Next]_vars
    BY DEF BankNext, OutNext, Persist, ImportStatement, outVars, bankVars
<1>3. QED  BY <1>1, <1>2, PTL DEF BankSpec, Spec

\* A match that is proposed without asking anybody agrees with the invoice in
\* amount, date and reference, whoever made it, and no transaction is allocated twice.
THEOREM MatchesAreSound == BankSpec => []MatchesHold
<1>1. BankInv => MatchesHold
    <2> SUFFICES ASSUME BankInv, book # None, book.invoice # None
                 PROVE  SureMatchesAgree
        BY DEF BankInv, MatchesHold
    <2> SUFFICES ASSUME NEW a \in SureAllocations
                 PROVE  \E tx \in Imported :
                          LET invoice == ImportInput(book.invoice)
                          IN  /\ Allocation(tx) = a
                              /\ AmountScore(invoice, tx) >= 35
                              /\ DateScore(invoice, tx) > 0
                              /\ ReferenceScore(invoice, tx) > 0
        BY DEF SureMatchesAgree
    <2>1. CASE \E i \in DOMAIN matches : ~matches[i].task /\ a = matches[i].allocation
        <3>1. PICK tx \in Imported : /\ Allocation(tx) = a
                                     /\ Score(ImportInput(book.invoice), tx) >= ReadyScore
            BY <2>1 DEF BankInv, ImportsMatched
        <3>2. QED  BY <3>1, SureScore
    <2>2. CASE /\ book.reconciliation # None /\ book.reconciliation.reason = None
               /\ a \in book.reconciliation.allocations
        <3> DEFINE invoice == MatchInput(scratch.draft)
        <3>1. /\ book.invoice = BuiltInvoice(scratch.draft)
              /\ book.reconciliation = BuiltReconciliation(scratch.match, book.invoice)
            BY DEF BankInv, BookAtHand, InvoiceRows
        <3>2. /\ scratch.match # None
              /\ book.reconciliation.reason = scratch.match.reason
              /\ book.reconciliation.allocations =
                   {Allocation(tx) : tx \in Resolvable(scratch.match)}
            BY <2>2, <3>1 DEF BuiltReconciliation
        <3>3. PICK ledger \in Ledgers : scratch.match = Reconcile(invoice,
                     ScoredTransactions(invoice, ledger, job.local, Today))
            BY <3>2 DEF BankInv, MatchAtHand
        <3> HIDE DEF invoice
        <3>4. PICK x \in ScoredTransactions(invoice, ledger, job.local, Today) :
                scratch.match.matched = {x.id} /\ Score(invoice, x) >= ReadyScore
            BY <2>2, <3>2, <3>3, ReadyMatch
        <3>5. PICK tx \in Imported : a = Allocation(tx) /\ tx.id = x.id
            BY <2>2, <3>2, <3>4, LedgerAssumption DEF Resolvable
        <3>6. x \in Imported
            <4>1. x \in ledger \/ x.id = <<"synthetic">>
                BY <3>4 DEF ScoredTransactions, Considered, Synthetic
            <4>2. tx.id # <<"synthetic">>
                BY DEF Imported, Transactions, ContentHash
            <4>3. QED  BY <3>3, <3>5, <4>1, <4>2, LedgerAssumption
        <3>7. x = tx
            BY <3>5, <3>6, LedgerAssumption
        <3>8. /\ AmountScore(invoice, tx) >= 35
              /\ DateScore(invoice, tx) > 0 /\ ReferenceScore(invoice, tx) > 0
              /\ invoice.total # None /\ invoice.number # None
            BY <3>4, <3>7, SureScore
        <3>9. QED
            BY <3>1, <3>5, <3>8, PersistedAsMatched, SameParts DEF invoice
    <2>3. QED  BY <2>1, <2>2 DEF SureAllocations
<1>2. QED  BY <1>1, BankInvHolds, PTL

-----------------------------------------------------------------------------
(* Numbers for the lines.                                                    *)

\* Induction over the natural numbers, for a set.
LEMMA Inductive ==
  ASSUME NEW T \in SUBSET Nat, 0 \in T, \A n \in T : n + 1 \in T
  PROVE  T = Nat
<1> DEFINE below == {ss \in Nat \X Nat : ss[1] < ss[2]}
           rest == Nat \ T
<1>1. IsWellFoundedOn(below, Nat)
    BY NatLessThanWellFounded DEF OpToRel
<1>2. SUFFICES ASSUME rest # {} PROVE FALSE
    OBVIOUS
<1>3. \E m \in rest : \A n \in rest : ~(<<n, m>> \in below)
    <2>1. rest \subseteq Nat
        OBVIOUS
    <2> HIDE DEF rest, below
    <2>2. QED  BY <1>1, <1>2, <2>1, WFMin
<1>4. PICK m \in rest : \A n \in rest : ~(n < m)
    BY <1>3
<1>5. m # 0 /\ m - 1 \in Nat /\ m \in Nat
    BY <1>4
<1>6. m - 1 \in T
    BY <1>4, <1>5
<1>7. QED  BY <1>4, <1>5, <1>6

\* A set of integers that is bounded below has a least element.
LEMMA LeastExists ==
  ASSUME NEW S, S # {}, S \subseteq Int, NEW low \in Int, \A x \in S : low <= x
  PROVE  Min(S) \in S /\ \A x \in S : Min(S) <= x
<1> DEFINE below == {ss \in Nat \X Nat : ss[1] < ss[2]}
           shifted == {x - low : x \in S}
<1>1. IsWellFoundedOn(below, Nat)
    BY NatLessThanWellFounded DEF OpToRel
<1>2. shifted \subseteq Nat /\ shifted # {}
    <2>1. \A x \in S : x \in Int /\ low <= x
        OBVIOUS
    <2>2. \A x \in S : x - low \in Nat
        BY <2>1
    <2>3. QED  BY <2>2
<1>3. \E m \in shifted : \A n \in shifted : ~(<<n, m>> \in below)
    <2> HIDE DEF shifted, below
    <2>1. QED  BY <1>1, <1>2, WFMin
<1>4. PICK m \in shifted : \A n \in shifted : ~(n < m)
    BY <1>2, <1>3
<1>5. PICK least \in S : m = least - low
    BY <1>4
<1>6. \A x \in S : least <= x
    <2> SUFFICES ASSUME NEW x \in S PROVE least <= x
        OBVIOUS
    <2>1. x - low \in shifted /\ x \in Int /\ least \in Int
        OBVIOUS
    <2>2. ~(x - low < m)
        BY <1>4, <2>1
    <2>3. QED  BY <1>5, <2>1, <2>2
<1>7. QED  BY <1>6 DEF Min

\* A free number is found among one more than are given, and all before it are taken.
LEMMA FreeNumber ==
  ASSUME NEW given, IsFiniteSet(given), NEW auto \in Nat \ {0},
         1 .. auto - 1 \subseteq given
  PROVE  LET free == Min((auto .. auto + Cardinality(given)) \ given)
         IN  /\ free \in Nat \ {0} /\ free \notin given /\ 1 .. free - 1 \subseteq given
             /\ free <= Cardinality(given) + 1
<1> DEFINE span == auto .. auto + Cardinality(given)
           left == span \ given
           free == Min(left)
<1>1. Cardinality(given) \in Nat
    BY FS_CardinalityType
<1>2. IsFiniteSet(span) /\ Cardinality(span) = Cardinality(given) + 1
    BY <1>1, FS_Interval
<1>3. left # {}
    <2> SUFFICES ASSUME span \subseteq given PROVE FALSE
        OBVIOUS
    <2> HIDE DEF span
    <2>1. Cardinality(span) <= Cardinality(given)
        BY FS_Subset
    <2>2. QED  BY <1>1, <1>2, <2>1
<1>4. left \subseteq Int /\ \A x \in left : auto <= x
    BY <1>1
<1>5. free \in left /\ \A x \in left : free <= x
    <2> HIDE DEF left
    <2>1. auto \in Int
        OBVIOUS
    <2>2. QED  BY <1>3, <1>4, <2>1, LeastExists
<1>6. free \in Nat \ {0} /\ auto <= free /\ free \notin given /\ free <= auto + Cardinality(given)
    <2> HIDE DEF free
    <2>1. free \in span /\ free \notin given
        BY <1>5
    <2>2. free \in Int /\ auto <= free /\ free <= auto + Cardinality(given)
        BY <1>1, <2>1
    <2> HIDE DEF span, left
    <2>3. QED  BY <1>1, <2>1, <2>2
<1>7. \A x \in 1 .. free - 1 : x \in given
    <2> SUFFICES ASSUME NEW x \in 1 .. free - 1, x \notin given PROVE FALSE
        OBVIOUS
    <2> HIDE DEF free
    <2>1. x \in Int /\ 1 <= x /\ x < free /\ ~(x \in 1 .. auto - 1)
        BY <1>6
    <2>2. x \in span
        BY <1>1, <1>6, <2>1
    <2>3. x \in left
        BY <2>2
    <2>4. QED  BY <1>5, <1>6, <2>1, <2>3
<1>8. free <= Cardinality(given) + 1
    <2> HIDE DEF free
    <2>1. Cardinality(1 .. free - 1) = free - 1
        BY <1>6, FS_Interval
    <2>2. Cardinality(1 .. free - 1) <= Cardinality(given)
        <3>1. 1 .. free - 1 \in SUBSET given
            BY <1>7
        <3>2. QED  BY <3>1, FS_Subset
    <2>3. QED  BY <1>1, <1>6, <2>1, <2>2
<1>9. QED  BY <1>6, <1>7, <1>8 DEF left

\* A number as the row had it.
NumberRead(number, row) == number = row.number /\ row.number # None /\ row.number > 0

\* What TakeNumber is given and returns: as many numbers as lines, all different, each
\* read or at most the number of lines so far; all below the automatic one are given.
Numbered(taken, k, items, Numbers) ==
  /\ taken = [numbers |-> taken.numbers, auto |-> taken.auto]
  /\ taken.numbers \in Seq(Numbers) /\ Len(taken.numbers) = k
  /\ taken.auto \in Nat \ {0} /\ 1 .. taken.auto - 1 \subseteq Range(taken.numbers)
  /\ \A i, j \in 1 .. k : taken.numbers[i] = taken.numbers[j] => i = j
  /\ \A i \in 1 .. k : taken.numbers[i] \in 1 .. k \/ NumberRead(taken.numbers[i], items[i])

\* TakeNumber adds a number that is not given yet.
LEMMA NumberTaken ==
  ASSUME NEW taken, NEW k \in Nat, NEW items, NEW Numbers, Int \subseteq Numbers,
         items[k + 1].number \in Numbers, Numbered(taken, k, items, Numbers)
  PROVE  Numbered(TakeNumber(taken, items[k + 1]), k + 1, items, Numbers)
<1> DEFINE row == items[k + 1]
           given == Range(taken.numbers)
           free == Min((taken.auto .. taken.auto + Cardinality(given)) \ given)
           made == TakeNumber(taken, row)
<1>1. taken.numbers \in [1 .. k -> Numbers]
    BY DEF Numbered
<1>2. IsFiniteSet(given) /\ Cardinality(given) \in Nat /\ Cardinality(given) <= k
    <2>1. taken.numbers \in Surjection(1 .. k, given)
        BY <1>1 DEF Surjection, Range
    <2>2. IsFiniteSet(1 .. k) /\ Cardinality(1 .. k) = k
        BY FS_Interval
    <2> HIDE DEF given
    <2>3. IsFiniteSet(given) /\ Cardinality(given) <= Cardinality(1 .. k)
        BY <2>1, <2>2, FS_Surjection
    <2>4. QED  BY <2>2, <2>3, FS_CardinalityType
<1>3. /\ free \in Nat \ {0} /\ free \notin given
      /\ 1 .. free - 1 \subseteq given /\ free <= k + 1
    <2>1. taken.auto \in Nat \ {0} /\ 1 .. taken.auto - 1 \subseteq given
        BY DEF Numbered
    <2> HIDE DEF given
    <2>2. /\ free \in Nat \ {0} /\ free \notin given
          /\ 1 .. free - 1 \subseteq given /\ free <= Cardinality(given) + 1
        BY <1>2, <2>1, FreeNumber
    <2> HIDE DEF free
    <2>3. QED  BY <1>2, <2>2
<1>4. PICK n \in Numbers : /\ n \notin given
                           /\ n \in 1 .. k + 1 \/ NumberRead(n, row)
                           /\ made.numbers = Append(taken.numbers, n)
                           /\ made.auto \in Nat \ {0}
                           /\ 1 .. made.auto - 1 \subseteq given \cup {n}
                           /\ made = [numbers |-> made.numbers, auto |-> made.auto]
    <2>1. CASE row.number # None /\ row.number > 0 /\ row.number \notin given
        <3>1. made = [taken EXCEPT !.numbers = Append(@, row.number)]
            BY <2>1 DEF TakeNumber
        <3>2. /\ made.numbers = Append(taken.numbers, row.number) /\ made.auto = taken.auto
              /\ made = [numbers |-> made.numbers, auto |-> made.auto]
            BY <3>1 DEF Numbered
        <3>3. /\ NumberRead(row.number, row) /\ row.number \in Numbers
              /\ 1 .. made.auto - 1 \subseteq given /\ made.auto \in Nat \ {0}
            BY <2>1, <3>2 DEF Numbered, NumberRead
        <3> HIDE DEF given, made, row
        <3>4. QED  BY <2>1, <3>2, <3>3
    <2>2. CASE ~(row.number # None /\ row.number > 0 /\ row.number \notin given)
        <3>1. made = [numbers |-> Append(taken.numbers, free), auto |-> free + 1]
            BY <2>2 DEF TakeNumber
        <3> HIDE DEF free, given
        <3>2. /\ made.numbers = Append(taken.numbers, free) /\ made.auto = free + 1
              /\ made = [numbers |-> made.numbers, auto |-> made.auto]
            BY <3>1
        <3>3. 1 .. (free + 1) - 1 \subseteq given \cup {free}
            BY <1>3
        <3>4. free \in Numbers /\ free \in 1 .. k + 1 /\ free + 1 \in Nat \ {0}
            BY <1>3
        <3> HIDE DEF made
        <3>5. QED  BY <1>3, <3>2, <3>3, <3>4
    <2>3. QED  BY <2>1, <2>2
<1> HIDE DEF made, row
<1>5. /\ made.numbers \in Seq(Numbers) /\ Len(made.numbers) = k + 1
      /\ \A i \in 1 .. k : made.numbers[i] = taken.numbers[i] /\ taken.numbers[i] \in given
      /\ made.numbers[k + 1] = n
    BY <1>1, <1>4 DEF Numbered, Range
<1>6. \A i, j \in 1 .. k + 1 : made.numbers[i] = made.numbers[j] => i = j
    <2> SUFFICES ASSUME NEW i \in 1 .. k + 1, NEW j \in 1 .. k + 1,
                        made.numbers[i] = made.numbers[j]
                 PROVE  i = j
        OBVIOUS
    <2>1. CASE i \in 1 .. k /\ j \in 1 .. k
        BY <1>5, <2>1 DEF Numbered
    <2>2. CASE i = k + 1 /\ j = k + 1
        BY <2>2
    <2>3. CASE i = k + 1 /\ j \in 1 .. k
        BY <1>4, <1>5, <2>3
    <2>4. CASE i \in 1 .. k /\ j = k + 1
        BY <1>4, <1>5, <2>4
    <2>5. QED  BY <2>1, <2>2, <2>3, <2>4
<1>7. \A i \in 1 .. k + 1 :
        made.numbers[i] \in 1 .. k + 1 \/ NumberRead(made.numbers[i], items[i])
    <2>1. ASSUME NEW i \in 1 .. k
          PROVE  made.numbers[i] \in 1 .. k + 1 \/ NumberRead(made.numbers[i], items[i])
        BY <1>5 DEF Numbered
    <2>2. made.numbers[k + 1] \in 1 .. k + 1 \/ NumberRead(made.numbers[k + 1], items[k + 1])
        BY <1>4, <1>5 DEF row
    <2>3. \A i \in 1 .. k + 1 : i \in 1 .. k \/ i = k + 1
        OBVIOUS
    <2>4. QED  BY <2>1, <2>2, <2>3
<1>8. given \cup {n} \subseteq Range(made.numbers)
    <2>1. \A i \in 1 .. k + 1 : made.numbers[i] \in Range(made.numbers)
        BY <1>5 DEF Range
    <2>2. n \in Range(made.numbers)
        BY <1>5, <2>1
    <2>3. \A x \in given : \E i \in 1 .. k : x = taken.numbers[i]
        BY <1>1 DEF Range
    <2> HIDE DEF given
    <2>4. \A x \in given : x \in Range(made.numbers)
        BY <1>5, <2>1, <2>3
    <2>5. QED  BY <2>2, <2>4
<1> HIDE DEF given
<1>9. QED  BY <1>4, <1>5, <1>6, <1>7, <1>8 DEF Numbered, made, row

-----------------------------------------------------------------------------
\* The recursion by which the lines are folded, over the sets of the first lines.
Folded(taken, items, D) ==
  taken = [s \in SUBSET D |->
             IF s = {} THEN [numbers |-> <<>>, auto |-> 1]
             ELSE TakeNumber(taken[s \ {Max(s)}], items[Max(s)])]

\* The largest of some of the first numbers that has the last is the last.
LEMMA LastIsMax ==
  ASSUME NEW m \in Nat, NEW s \in SUBSET (1 .. m + 1), m + 1 \in s
  PROVE  Max(s) = m + 1
<1>1. \A x \in s : x \in Int /\ m + 1 >= x
    OBVIOUS
<1>2. \A x \in s : (\A y \in s : x >= y) => x = m + 1
    BY <1>1
<1>3. QED  BY <1>1, <1>2 DEF Max

\* The recursion has a solution, so the function the fold chooses is one.
LEMMA FoldExists ==
  ASSUME NEW items
  PROVE  \A m \in Nat : \E taken : Folded(taken, items, 1 .. m)
<1> DEFINE start == [numbers |-> <<>>, auto |-> 1]
           T == {m \in Nat : \E taken : Folded(taken, items, 1 .. m)}
<1>1. 0 \in T
    <2> DEFINE f == [s \in SUBSET (1 .. 0) |-> start]
    <2>1. \A s \in SUBSET (1 .. 0) : s = {}
        OBVIOUS
    <2>2. Folded(f, items, 1 .. 0)
        BY <2>1 DEF Folded
    <2>3. QED  BY <2>2
<1>2. ASSUME NEW m \in T PROVE m + 1 \in T
    <2>1. PICK f : Folded(f, items, 1 .. m)
        OBVIOUS
    <2> DEFINE D == SUBSET (1 .. m + 1)
               g == [s \in D |-> IF m + 1 \in s THEN TakeNumber(f[s \ {m + 1}], items[m + 1])
                                 ELSE f[s]]
               h == [s \in D |-> IF s = {} THEN start
                                 ELSE TakeNumber(g[s \ {Max(s)}], items[Max(s)])]
    <2>2. \A s \in D : g[s] = h[s]
        <3> SUFFICES ASSUME NEW s \in D PROVE g[s] = h[s]
            OBVIOUS
        <3>1. s \ {Max(s)} \in D
            OBVIOUS
        <3>2. CASE m + 1 \in s
            <4>1. Max(s) = m + 1
                BY <3>2, LastIsMax
            <4>2. m + 1 \notin s \ {m + 1}
                OBVIOUS
            <4>3. g[s \ {Max(s)}] = f[s \ {m + 1}]
                BY <3>1, <4>1, <4>2
            <4>4. g[s] = TakeNumber(f[s \ {m + 1}], items[m + 1])
                BY <3>2
            <4>5. h[s] = TakeNumber(g[s \ {Max(s)}], items[Max(s)])
                BY <3>2
            <4>6. QED  BY <4>1, <4>3, <4>4, <4>5
        <3>3. CASE m + 1 \notin s
            <4>1. s \in SUBSET (1 .. m) /\ s \ {Max(s)} \in SUBSET (1 .. m)
                <5>1. m \in Nat /\ \A x \in s : x \in 1 .. m + 1 /\ x # m + 1
                    BY <3>3
                <5>2. \A x \in s : x \in 1 .. m
                    BY <5>1
                <5>3. QED  BY <5>2
            <4>2. g[s] = f[s] /\ g[s \ {Max(s)}] = f[s \ {Max(s)}]
                BY <3>1, <3>3
            <4>3. f[s] = IF s = {} THEN start
                         ELSE TakeNumber(f[s \ {Max(s)}], items[Max(s)])
                BY <2>1, <4>1 DEF Folded
            <4>4. h[s] = IF s = {} THEN start
                         ELSE TakeNumber(g[s \ {Max(s)}], items[Max(s)])
                OBVIOUS
            <4>5. QED  BY <4>2, <4>3, <4>4
        <3>4. QED  BY <3>2, <3>3
    <2>3. g = h
        <3>1. DOMAIN g = D /\ DOMAIN h = D
            OBVIOUS
        <3> HIDE DEF D
        <3>2. QED  BY <2>2
    <2>4. Folded(g, items, 1 .. m + 1)
        <3> HIDE DEF g
        <3>1. QED  BY <2>3 DEF Folded
    <2>5. QED  BY <2>4
<1>3. T = Nat
    <2> HIDE DEF T
    <2>1. T \subseteq Nat
        BY DEF T
    <2>2. QED  BY <1>1, <1>2, <2>1, Inductive
<1>4. QED  BY <1>3

\* build_line_items_from_draft: no two lines share a number, however many there are and
\* whatever numbers they came with, and a number that was not read is at most the number
\* of lines.
THEOREM LinesAreNumbered ==
  ASSUME NEW Lines, NEW items \in Seq(Lines)
  PROVE  /\ \A i, j \in 1 .. Len(items) : LineNumbers(items)[i] = LineNumbers(items)[j] => i = j
         /\ \A i \in 1 .. Len(items) : \/ LineNumbers(items)[i] \in 1 .. Len(items)
                                      \/ NumberRead(LineNumbers(items)[i], items[i])
<1> DEFINE n == Len(items)
           Numbers == Int \cup {items[i].number : i \in 1 .. n}
           iter == CHOOSE taken : Folded(taken, items, 1 .. n)
<1>1. n \in Nat /\ DOMAIN items = 1 .. n
    OBVIOUS
<1>2. Folded(iter, items, 1 .. n)
    <2>1. \E taken : Folded(taken, items, 1 .. n)
        BY <1>1, FoldExists
    <2>2. QED  BY <2>1
<1>3. LineNumbers(items) = iter[1 .. n].numbers
    BY <1>1 DEF LineNumbers, FoldLeft, MapThenFoldSet, Folded
<1> HIDE DEF iter
<1> DEFINE T == {k \in Nat : k <= n => Numbered(iter[1 .. k], k, items, Numbers)}
<1>4. 0 \in T
    <2>1. 1 .. 0 = {} /\ {} \in SUBSET (1 .. n)
        OBVIOUS
    <2>2. iter[1 .. 0] = [numbers |-> <<>>, auto |-> 1]
        BY <1>2, <2>1 DEF Folded
    <2>3. Numbered(iter[1 .. 0], 0, items, Numbers)
        BY <2>2 DEF Numbered, Range
    <2>4. QED  BY <2>3
<1>5. ASSUME NEW k \in T PROVE k + 1 \in T
    <2> SUFFICES ASSUME k + 1 <= n PROVE Numbered(iter[1 .. k + 1], k + 1, items, Numbers)
        OBVIOUS
    <2>1. Numbered(iter[1 .. k], k, items, Numbers) /\ k \in Nat
        BY <1>1
    <2>2. 1 .. k + 1 \in SUBSET (1 .. n) /\ 1 .. k + 1 # {}
        <3> HIDE DEF n
        <3>1. \A x \in 1 .. k + 1 : x \in 1 .. n
            BY <1>1, <2>1
        <3>2. 1 \in 1 .. k + 1
            BY <2>1
        <3>3. QED  BY <3>1, <3>2
    <2>3. Max(1 .. k + 1) = k + 1
        BY <2>1, LastIsMax
    <2>4. (1 .. k + 1) \ {k + 1} = 1 .. k
        BY <2>1
    <2>5. iter[1 .. k + 1] = TakeNumber(iter[1 .. k], items[k + 1])
        BY <1>2, <2>2, <2>3, <2>4 DEF Folded
    <2>6. items[k + 1].number \in Numbers /\ Int \subseteq Numbers
        BY <2>1
    <2> HIDE DEF Numbers
    <2>7. QED  BY <2>1, <2>5, <2>6, NumberTaken
<1>6. T = Nat
    <2>1. T \subseteq Nat
        OBVIOUS
    <2> HIDE DEF T
    <2>2. QED  BY <1>4, <1>5, <2>1, Inductive
<1>7. Numbered(iter[1 .. n], n, items, Numbers)
    <2>1. n \in T
        <3> HIDE DEF T
        <3>1. QED  BY <1>1, <1>6
    <2> HIDE DEF Numbers, n
    <2>2. QED  BY <1>1, <2>1
<1>8. QED  BY <1>3, <1>7 DEF Numbered

-----------------------------------------------------------------------------
(* The draft.                                                                *)

\* The groups are those of the document, as far as there are any.
GroupsOf(groups, document) ==
  /\ groups = [a \in Extractors |-> groups[a]]
  /\ \A a \in Extractors : groups[a] \in Made(document, a) \cup {None}

\* The groups and the draft are made of the document; a draft there is from assembly on,
\* and at the end unless the document could not be read; the row's error is known.
DraftInv ==
  /\ GroupsOf(scratch.groups, job.document)
  /\ scratch.draft \in Drafts(job.document) \cup {None}
  /\ scratch.draft # None => pc \notin PreparationAgents /\ scratch.reading # None
  /\ pc \in {QA} \cup Waiting \cup Business => scratch.draft # None
  /\ pc = "done" /\ job.driver # "prepare" /\ scratch.reading # None => scratch.draft # None
  /\ run.error \in Agents \cup {None, "RETRY_EXHAUSTED"}

\* The row's error is the agent that failed.
LEMMA ErrorTold ==
  ASSUME Shapes, NEW a \in Agents, NEW status, NEW handoffs, NEW signals,
         Recorded(Result(a, status, handoffs), signals)
  PROVE  run'.error \in Agents \cup {run.error}
<1> DEFINE result == Result(a, status, handoffs)
<1>1. \E state : run' = RunRecorded(run, state, result)
    BY DEF Recorded
<1>2. result.agent = a
    BY DEF Result
<1> HIDE DEF result
<1>3. QED  BY <1>1, <1>2 DEF RunRecorded, Shapes

\* Every step keeps to the errors there are.
LEMMA ErrorKnown ==
  ASSUME Shapes, Next, run.error \in Agents \cup {None, "RETRY_EXHAUSTED"}
  PROVE  run'.error \in Agents \cup {None, "RETRY_EXHAUSTED"}
<1> DEFINE known == Agents \cup {None, "RETRY_EXHAUSTED"}
<1>0. /\ {Intake, Layout, Privacy, Assembly, QA, Classifier, Matching, Review, Insight}
           \subseteq Agents
      /\ Extractors \subseteq Agents
    BY Names
<1>1. ASSUME NEW a \in Agents, NEW status, NEW handoffs, NEW signals,
             Recorded(Result(a, status, handoffs), signals)
      PROVE  run'.error \in known
    BY <1>1, ErrorTold
<1>2. CASE AcceptDocument \/ AnalyzeLayout \/ FailLayout \/ ApplyPolicy
    <2>1. CASE AcceptDocument
        BY <1>0, <1>1, <2>1 DEF AcceptDocument
    <2>2. CASE AnalyzeLayout
        BY <1>0, <1>1, <2>2 DEF AnalyzeLayout
    <2>3. CASE FailLayout
        BY <1>0, <1>1, <2>3 DEF FailLayout
    <2>4. CASE ApplyPolicy
        BY <1>0, <1>1, <2>4 DEF ApplyPolicy
    <2>5. QED  BY <1>2, <2>1, <2>2, <2>3, <2>4
<1>3. CASE \E a \in Extractors : ExtractGroup(a)
    BY <1>0, <1>1, <1>3 DEF ExtractGroup
<1>4. CASE Assemble
    BY <1>0, <1>1, <1>4 DEF Assemble
<1>5. CASE Validate
    BY <1>0, <1>1, <1>5 DEF Validate
<1>6. CASE Classify
    BY <1>0, <1>1, <1>6 DEF Classify
<1>7. CASE Match
    BY <1>0, <1>1, <1>7 DEF Match
<1>8. CASE Coordinate
    <2> DEFINE status == IF ReviewReasons = {} THEN "succeeded" ELSE "review_required"
               handoffs == IF ReviewReasons = {} THEN <<Handoff(Review, Insight, "control")>>
                           ELSE <<>>
    <2>1. Recorded(Result(Review, status, handoffs), wf.signals)
        BY <1>8 DEF Coordinate
    <2> HIDE DEF status, handoffs
    <2>2. QED  BY <1>0, <1>1, <2>1
<1>9. CASE ProduceInsights
    BY <1>0, <1>1, <1>9 DEF ProduceInsights
<1>10. CASE RetryGate \/ RequestRetries
    <2>1. \E target : RetryRequested(target)
        BY <1>10 DEF RetryGate, RequestRetries
    <2>2. \E state, error : /\ error \in {None, "RETRY_EXHAUSTED"}
                            /\ StatusUpdated(state, [run EXCEPT !.retryCount = @ + 1], error)
        BY <2>1 DEF RetryRequested
    <2>3. QED  BY <2>2 DEF StatusUpdated, Shapes
<1>11. CASE Complete
    <2>1. \E state : StatusUpdated(state, run, None)
        BY <1>11 DEF Complete
    <2>2. QED  BY <2>1 DEF StatusUpdated, Shapes
<1>12. CASE LoseHandoff
    BY <1>12 DEF LoseHandoff
<1>13. QED
    BY <1>2, <1>3, <1>4, <1>5, <1>6, <1>7, <1>8, <1>9, <1>10, <1>11, <1>12 DEF Next

-----------------------------------------------------------------------------
\* A draft is a function with rows in a sequence, and distinguishable from none.
LEMMA DraftFacts ==
  ASSUME NEW document \in Documents, NEW draft \in Drafts(document)
  PROVE  /\ draft # None /\ DOMAIN draft = Extractors /\ BuiltInvoice(draft) # None
         /\ InvoiceTask(BuiltEvidence(draft, LayoutBlocks(document.page))) # None
         /\ draft[Table].items \in Seq(Range(draft[Table].items))
         /\ \A i \in DOMAIN draft[Table].items : Fits("number", i)
BY OutputAssumption DEF Drafts

\* What an extractor leaves is of the document.
LEMMA ExtractedIsMade ==
  ASSUME AgentInv, OutcomeInv, DraftInv, NEW a \in Extractors, NEW signals, Extracted(a, signals)
  PROVE  GroupsOf(scratch'.groups, job.document)
<1>1. /\ Shapes /\ job.document \in Documents
    BY DEF AgentInv, Shapes, Jobs
<1>2. PICK made, reply :
        /\ reply \in Replies[a]
        /\ made = Extract(a, scratch.groups[a], scratch.reading, job.llm, IsCorrection(a),
                          AnswerTo(reply))
        /\ scratch' = [scratch EXCEPT !.groups[a] = made.group]
        /\ pc = a
    BY DEF Extracted, Took
<1>3. scratch.reading = Reading(job.document)
    BY <1>2, Names, Order DEF OutcomeInv, ReadingTaken
<1>4. scratch'.groups = [scratch.groups EXCEPT ![a] = made.group]
    BY <1>1, <1>2 DEF Shapes
<1>5. made.group \in Made(job.document, a) \cup {None}
    <2> DEFINE ocr == Reading(job.document)
               fb == Fallback(a, ocr)
               strategy == Strategy(a, scratch.groups[a], fb, job.llm, IsCorrection(a))
    <2>1. made \in {[group |-> scratch.groups[a], error |-> None],
                    FromModel(a, AnswerTo(reply), fb, ocr), FromFallback(a, fb, None)}
        <3>1. made = CASE strategy = "provider_fast_path" ->
                            [group |-> scratch.groups[a], error |-> None]
                       [] strategy = "llm_fallback" -> FromModel(a, AnswerTo(reply), fb, ocr)
                       [] OTHER -> FromFallback(a, fb, None)
            BY <1>2, <1>3 DEF Extract
        <3> HIDE DEF strategy, fb, ocr
        <3>2. QED  BY <3>1
    <2>2. scratch.groups[a] \in Made(job.document, a) \cup {None}
        BY DEF DraftInv, GroupsOf
    <2>3. /\ FromFallback(a, fb, None).group \in Made(job.document, a)
          /\ FromModel(a, AnswerTo(reply), fb, ocr).group \in Made(job.document, a)
        BY <1>2 DEF Made
    <2> HIDE DEF fb, ocr
    <2>4. QED  BY <2>1, <2>2, <2>3
<1>6. /\ scratch'.groups = [b \in Extractors |-> IF b = a THEN made.group ELSE scratch.groups[b]]
    BY <1>1, <1>4 DEF Shapes
<1>7. QED  BY <1>5, <1>6 DEF DraftInv, GroupsOf

\* What the provider leaves is too.
LEMMA PrebuiltIsMade ==
  ASSUME AgentInv, DraftInv, AnalyzeLayout
  PROVE  GroupsOf(scratch'.groups, job.document)
<1> DEFINE fields == job.document.prebuilt
<1>1. scratch'.groups = PrebuiltGroups(scratch.groups, fields)
    BY DEF AnalyzeLayout, AgentInv, Shapes
<1>2. CASE fields = None
    BY <1>1, <1>2 DEF PrebuiltGroups, DraftInv
<1>3. CASE fields # None
    <2>1. PrebuiltGroups(scratch.groups, fields) = PrebuiltGroups(EmptyScratchpad.groups, fields)
        BY <1>3 DEF PrebuiltGroups
    <2>2. /\ DOMAIN scratch'.groups = Extractors
          /\ scratch'.groups = [a \in Extractors |-> scratch'.groups[a]]
        BY <1>1, <1>3 DEF PrebuiltGroups
    <2>3. QED  BY <1>1, <2>1, <2>2 DEF Made, GroupsOf
<1>4. QED  BY <1>2, <1>3

\* Every step of the workflow.
LEMMA DraftStep ==
  ASSUME AgentInv, OutcomeInv, OutcomeInv', DraftInv, Next
  PROVE  DraftInv'
<1>0. /\ Shapes /\ job \in Jobs /\ job.document \in Documents
      /\ scratch.draft \in Drafts(job.document) => scratch.draft # None
    BY DraftFacts DEF AgentInv, Shapes, Jobs
<1>1. run'.error \in Agents \cup {None, "RETRY_EXHAUSTED"}
    BY <1>0, ErrorKnown DEF DraftInv
<1>2. /\ Extractors = {Metadata, Table, Totals} /\ PreparationAgents = {Intake, Layout, Privacy}
      /\ Business = {Classifier, Matching, Review, Insight, "complete"}
      /\ Waiting = {"retry_gate", "request_retries"} /\ "done" \notin Agents
      /\ Agents \cap ({"complete", "done", "raised"} \cup Waiting) = {}
      /\ Agents = {Intake, Layout, Privacy, Metadata, Table, Totals, Assembly, QA, Classifier,
                   Matching, Review, Insight}
    BY Names, ControlStates DEF Business, BusinessAgents, Waiting
\* A step that leaves groups, draft and reading, and goes on where a draft is due only
\* if there is one.
<1>3. ASSUME job' = job, scratch'.groups = scratch.groups, scratch'.draft = scratch.draft,
             scratch'.reading = scratch.reading,
             pc' \in PreparationAgents => scratch.draft = None,
             \/ scratch.draft # None
             \/ /\ pc' \notin {QA} \cup Waiting \cup Business
                /\ pc' = "done" => job.driver = "prepare" \/ scratch.reading = None
      PROVE  DraftInv'
    BY <1>1, <1>3 DEF DraftInv
<1>4. CASE AcceptDocument
    <2>1. pc = Intake /\ pc' = Layout /\ scratch' = scratch /\ job' = job
        BY <1>0, <1>4, PreparationTook DEF Took
    <2>2. scratch.draft = None
        BY <1>2, <2>1 DEF DraftInv
    <2>3. pc' \notin {QA} \cup Waiting \cup Business /\ pc' # "done"
        BY <1>2, <2>1, Order
    <2>4. QED  BY <1>3, <2>1, <2>2, <2>3
<1>5. CASE AnalyzeLayout
    <2>1. pc = Layout /\ pc' = Privacy /\ job' = job
        BY <1>0, <1>5, PreparationTook DEF Took
    <2>2. scratch.draft = None /\ scratch'.draft = None
        BY <1>0, <1>2, <1>5, <2>1 DEF DraftInv, AnalyzeLayout, Shapes
    <2>3. pc' \notin {QA} \cup Waiting \cup Business /\ pc' # "done"
        BY <1>2, <2>1, Order
    <2>4. GroupsOf(scratch'.groups, job'.document)
        BY <1>5, <2>1, PrebuiltIsMade
    <2>5. QED  BY <1>1, <2>2, <2>3, <2>4 DEF DraftInv
<1>6. CASE FailLayout
    <2>1. pc = Layout /\ pc' = "done" /\ scratch' = scratch /\ job' = job
        BY <1>0, <1>6, PreparationTook DEF Took
    <2>2. scratch.draft = None /\ scratch.reading = None
        BY <1>2, <2>1 DEF DraftInv, OutcomeInv, ReadingTaken
    <2>3. pc' \notin PreparationAgents \cup {QA} \cup Waiting \cup Business
        BY <1>2, <2>1
    <2>4. QED  BY <1>3, <2>1, <2>2, <2>3
<1>7. CASE ApplyPolicy
    <2>1. /\ pc = Privacy /\ scratch' = scratch /\ job' = job
          /\ pc' = IF job.driver = "prepare" THEN "done" ELSE Metadata
        BY <1>0, <1>7, PreparationTook DEF Took
    <2>2. scratch.draft = None
        BY <1>2, <2>1 DEF DraftInv
    <2>3. pc' \notin {QA} \cup Waiting \cup Business
        BY <1>2, <2>1, Order
    <2>4. pc' = "done" => job.driver = "prepare"
        BY <1>2, <2>1
    <2>5. QED  BY <1>3, <2>1, <2>2, <2>3, <2>4
<1>8. CASE \E a \in Extractors : ExtractGroup(a)
    <2>1. PICK a \in Extractors : ExtractGroup(a)
        BY <1>8
    <2>2. PICK signals : Extracted(a, signals)
        BY <1>0, <2>1, ExtractionTook
    <2>3. /\ pc = a /\ job' = job /\ pc' = Successor[a]
          /\ scratch'.draft = scratch.draft /\ scratch'.reading = scratch.reading
        BY <1>0, <2>2 DEF Extracted, Took, Shapes
    <2>4. pc' \in {Table, Totals, Assembly}
        BY <1>2, <2>3, Order
    <2>5. pc' \notin PreparationAgents \cup {QA, "done"} \cup Waiting \cup Business
        BY <1>2, <2>4, Order
    <2>6. GroupsOf(scratch'.groups, job'.document)
        BY <2>2, <2>3, ExtractedIsMade
    <2>7. QED  BY <1>1, <2>3, <2>5, <2>6 DEF DraftInv
<1>9. CASE Assemble
    <2>1. /\ pc = Assembly /\ job' = job /\ pc' = QA
          /\ scratch'.groups = scratch.groups /\ scratch'.reading = scratch.reading
        BY <1>0, <1>9, ExtractionTook DEF Took
    <2>2. scratch'.draft = scratch.groups
        BY <1>0, <1>9 DEF Assemble, Shapes
    <2>3. \A a \in Extractors : scratch.groups[a] # None
        BY <2>1 DEF OutcomeInv, GroupsMade, After
    <2>4. \A a \in Extractors : scratch.groups[a] \in Made(job.document, a)
        BY <2>3 DEF DraftInv, GroupsOf
    <2>5. scratch.groups \in Drafts(job.document)
        <3> DEFINE all == UNION {Made(job.document, a) : a \in Extractors}
        <3>1. scratch.groups = [a \in Extractors |-> scratch.groups[a]]
            BY DEF DraftInv, GroupsOf
        <3>2. \A a \in Extractors : scratch.groups[a] \in all
            BY <2>4
        <3> HIDE DEF all
        <3>3. scratch.groups \in [Extractors -> all]
            BY <3>1, <3>2
        <3>4. QED  BY <2>4, <3>3 DEF Drafts, all
    <2>6. scratch.groups # None
        BY <1>0, <2>5, DraftFacts
    <2>7. scratch.reading # None
        BY <1>0, <1>2, <2>1, Order, NoneAssumption DEF OutcomeInv, ReadingTaken
    <2>8. pc' \notin PreparationAgents /\ pc' # "done"
        BY <1>2, <2>1, Order
    <2>9. QED  BY <1>1, <2>1, <2>2, <2>5, <2>6, <2>7, <2>8 DEF DraftInv
<1>10. CASE Validate
    <2>1. scratch' = scratch /\ pc = QA /\ job' = job
        BY <1>10, ValidationTook DEF Validate, Await, Recorded
    <2>2. pc' \in {"done", Classifier} \cup Waiting
        BY <1>10 DEF Validate, RouteAfterQA, Waiting
    <2>3. scratch.draft # None /\ pc' \notin PreparationAgents
        BY <1>2, <2>1, <2>2, Order DEF DraftInv
    <2>4. QED  BY <1>3, <2>1, <2>3
<1>11. CASE Classify \/ Match \/ Coordinate \/ ProduceInsights
    <2>1. /\ pc \in Business /\ pc' \in Business /\ DraftKept /\ job' = job
        BY <1>0, <1>2, <1>11, BusinessSteps DEF Ran
    <2>2. scratch'.reading = scratch.reading
        BY <1>0, <1>11, BusinessTook
    <2>3. scratch.draft # None /\ pc' \notin PreparationAgents
        BY <1>2, <2>1, Order DEF DraftInv
    <2>4. QED  BY <1>3, <2>1, <2>2, <2>3 DEF DraftKept
<1>12. CASE RetryGate \/ RequestRetries
    <2>1. /\ UNCHANGED <<job, scratch>> /\ pc \in Waiting
          /\ pc' \in Extractors \cup {QA, "done"}
        BY <1>0, <1>12, RetrySteps DEF AgentInv, Waiting
    <2>2. scratch.draft # None /\ pc' \notin PreparationAgents
        BY <1>2, <2>1, Order DEF DraftInv
    <2>3. QED  BY <1>3, <2>1, <2>2
<1>13. CASE Complete
    <2>1. pc = "complete" /\ pc' = "done" /\ UNCHANGED <<job, scratch>>
        BY <1>0, <1>13, CompleteStep
    <2>2. scratch.draft # None /\ pc' \notin PreparationAgents
        BY <1>2, <2>1 DEF DraftInv
    <2>3. QED  BY <1>3, <2>1, <2>2
<1>14. CASE LoseHandoff
    <2>1. pc' = "raised" /\ UNCHANGED <<job, scratch>>
        BY <1>14 DEF LoseHandoff
    <2>2. pc' \notin PreparationAgents \cup {QA, "done"} \cup Waiting \cup Business
        BY <1>2, <2>1, Order
    <2>3. QED  BY <1>3, <2>1, <2>2
<1>15. QED
    BY <1>4, <1>5, <1>6, <1>7, <1>8, <1>9, <1>10, <1>11, <1>12, <1>13, <1>14 DEF Next

-----------------------------------------------------------------------------
(* The rows.                                                                 *)

\* What is left of rows that do not fit.
RefusedRows == [Nothing EXCEPT !.outcome = "refused"]

\* What was persisted is what the workflow came to, as far as the tables took it.
BookMade == book # None =>
  /\ pc = "done" /\ job.driver \in {"custom", "graph"}
  /\ book = IF Accepted(Rows) THEN Rows ELSE RefusedRows

\* The rows are those of the workflow's state.
LEMMA SameRows ==
  ASSUME UNCHANGED vars
  PROVE  Rows' = Rows
BY DEF vars, Rows, FailureRows, FailureTask, InvoiceRows

\* Every step of workflow, persistence and import keeps draft and book.
LEMMA OutputStep ==
  ASSUME BankInv, OutcomeInv, OutcomeInv', DraftInv, BookMade, [BankNext]_bankVars
  PROVE  DraftInv' /\ BookMade'
<1>1. CASE Next /\ UNCHANGED book
    <2>1. DraftInv'
        BY <1>1, DraftStep DEF BankInv
    <2>2. book = None /\ book' = None
        BY <1>1, MatchStep DEF BankInv, BookMade
    <2>3. QED  BY <2>1, <2>2 DEF BookMade
<1>2. ASSUME UNCHANGED vars PROVE DraftInv' /\ (UNCHANGED book => BookMade')
    <2>1. DraftInv'
        BY <1>2 DEF vars, DraftInv
    <2>2. UNCHANGED book => BookMade'
        BY <1>2, SameRows DEF vars, BookMade, Accepted
    <2>3. QED  BY <2>1, <2>2
<1>3. CASE Persist
    <2>1. UNCHANGED vars /\ pc = "done" /\ job.driver \in {"custom", "graph"}
        BY <1>3 DEF Persist, Persisting
    <2>2. book' = IF Accepted(Rows) THEN Rows ELSE RefusedRows
        BY <1>3 DEF Persist, RefusedRows
    <2>3. Rows' = Rows /\ pc' = pc /\ job' = job
        BY <2>1, SameRows DEF vars
    <2>4. Accepted(Rows)' <=> Accepted(Rows)
        BY <2>3 DEF Accepted
    <2>5. BookMade'
        BY <2>1, <2>2, <2>3, <2>4 DEF BookMade, RefusedRows
    <2>6. QED  BY <1>2, <2>1, <2>5
<1>4. CASE (\E file \in Statements : ImportStatement(file)) \/ UNCHANGED bankVars
    <2>1. UNCHANGED vars /\ UNCHANGED book
        BY <1>4 DEF ImportStatement, bankVars, outVars
    <2>2. QED  BY <1>2, <2>1
<1>5. QED  BY <1>1, <1>3, <1>4 DEF BankNext, OutNext

-----------------------------------------------------------------------------
\* Numbers of lines never collide, and one that no column can hold was read.
LEMMA LinesFit ==
  ASSUME NEW document \in Documents, NEW draft \in Drafts(document),
         NEW lines, lines = BuiltLines(draft)
  PROVE  /\ \A i, k \in DOMAIN lines : lines[i].number = lines[k].number => i = k
         /\ ~ReadTooMuch(draft) => \A i \in DOMAIN lines : \A column \in DOMAIN lines[i] :
              Fits(column, lines[i][column])
<1> DEFINE items == draft[Table].items
<1>1. /\ items \in Seq(Range(items)) /\ \A i \in DOMAIN items : Fits("number", i)
    BY DraftFacts
<1>2. /\ DOMAIN lines = 1 .. Len(items)
      /\ \A i \in DOMAIN lines :
           lines[i] = [number |-> LineNumbers(items)[i], quantity |-> Parsed(items[i].quantity),
                       unit_price |-> Parsed(items[i].unit_price),
                       line_total |-> Parsed(items[i].line_total),
                       currency |-> draft[Totals].fields.currency]
    BY DEF BuiltLines
<1>3. ~ReadTooMuch(draft) => \A i \in DOMAIN items :
         /\ Fits("currency", draft[Totals].fields.currency)
         /\ ~(items[i].number # None /\ items[i].number > 0 /\ ~Fits("number", items[i].number))
         /\ Fits("quantity", Parsed(items[i]["quantity"]))
         /\ Fits("unit_price", Parsed(items[i]["unit_price"]))
         /\ Fits("line_total", Parsed(items[i]["line_total"]))
    BY DEF ReadTooMuch
<1> HIDE DEF items
<1>4. DOMAIN items = 1 .. Len(items)
    BY <1>1
<1>5. /\ \A i, k \in 1 .. Len(items) :
            LineNumbers(items)[i] = LineNumbers(items)[k] => i = k
      /\ \A i \in 1 .. Len(items) : \/ LineNumbers(items)[i] \in 1 .. Len(items)
                                   \/ NumberRead(LineNumbers(items)[i], items[i])
    BY <1>1, LinesAreNumbered
<1>6. \A i, k \in DOMAIN lines : lines[i].number = lines[k].number => i = k
    BY <1>2, <1>5
<1>7. ASSUME ~ReadTooMuch(draft), NEW i \in DOMAIN lines, NEW column \in DOMAIN lines[i]
      PROVE  Fits(column, lines[i][column])
    <2>1. Fits("number", LineNumbers(items)[i])
        <3>1. CASE LineNumbers(items)[i] \in 1 .. Len(items)
            BY <1>1, <1>4, <3>1
        <3>2. CASE NumberRead(LineNumbers(items)[i], items[i])
            BY <1>2, <1>3, <1>4, <1>7, <3>2 DEF NumberRead
        <3>3. QED  BY <1>2, <1>5, <1>7, <3>1, <3>2
    <2>2. column \in {"number", "quantity", "unit_price", "line_total", "currency"}
        BY <1>2, <1>7
    <2>3. i \in DOMAIN items
        BY <1>2, <1>4
    <2>4. CASE column = "number"
        BY <1>2, <2>1, <2>4
    <2>5. CASE column = "quantity"
        BY <1>2, <1>3, <1>7, <2>3, <2>5
    <2>6. CASE column = "unit_price"
        BY <1>2, <1>3, <1>7, <2>3, <2>6
    <2>7. CASE column = "line_total"
        BY <1>2, <1>3, <1>7, <2>3, <2>7
    <2>8. CASE column = "currency"
        BY <1>2, <1>3, <1>7, <2>3, <2>8
    <2>9. QED  BY <2>2, <2>4, <2>5, <2>6, <2>7, <2>8
<1>8. QED  BY <1>6, <1>7

\* The invoice's own currency is a code or none.
LEMMA InvoiceFits ==
  ASSUME NEW draft, ~ReadTooMuch(draft), NEW column \in DOMAIN BuiltInvoice(draft).fields
  PROVE  Fits(column, BuiltInvoice(draft).fields[column])
<1>1. CASE column = "currency"
    <2>1. BuiltInvoice(draft).fields[column] = InvoiceCurrency(draft)
        <3>1. "currency" \in MetadataFields \cup TotalsFields
            BY DEF TotalsFields
        <3>2. column \notin {"issue_date", "due_date"} \cup AmountFields
            BY <1>1 DEF AmountFields
        <3>3. BuiltInvoice(draft).fields[column] =
                CASE column = "currency"                    -> InvoiceCurrency(draft)
                  [] column \in {"issue_date", "due_date"}  -> Parsed(draft[Metadata].fields[column])
                  [] column \in AmountFields                -> Parsed(draft[Totals].fields[column])
                  [] OTHER                                  -> draft[Metadata].fields[column]
            BY <1>1, <3>1 DEF BuiltInvoice
        <3>4. QED  BY <1>1, <3>2, <3>3
    <2>2. InvoiceCurrency(draft) \in CurrencyCodes \cup {None}
        BY DEF InvoiceCurrency, NormalizedCurrency
    <2> HIDE DEF BuiltInvoice
    <2>3. QED  BY <1>1, <2>1, <2>2, OutputAssumption
<1>2. CASE column # "currency"
    BY <1>2 DEF ReadTooMuch
<1>3. QED  BY <1>1, <1>2

\* So rows of a draft of which nothing is too much are accepted.
LEMMA RowsFit ==
  ASSUME NEW document \in Documents, NEW draft \in Drafts(document), NEW rows,
         rows.lines = BuiltLines(draft), rows.invoice = BuiltInvoice(draft),
         rows.reconciliation = BuiltReconciliation(scratch.match, BuiltInvoice(draft)),
         ~Accepted(rows)
  PROVE  ReadTooMuch(draft)
<1> DEFINE match == BuiltReconciliation(scratch.match, BuiltInvoice(draft))
<1> SUFFICES ASSUME ~ReadTooMuch(draft) PROVE Accepted(rows)
    OBVIOUS
<1>1. /\ \A i, k \in DOMAIN rows.lines : rows.lines[i].number = rows.lines[k].number => i = k
      /\ \A i \in DOMAIN rows.lines : \A column \in DOMAIN rows.lines[i] :
           Fits(column, rows.lines[i][column])
    BY LinesFit
<1>2. \A column \in DOMAIN rows.invoice.fields : Fits(column, rows.invoice.fields[column])
    BY InvoiceFits
<1>3. match # None => Fits("allocated", match.allocated) /\ Fits("difference", match.difference)
    BY DEF ReadTooMuch
<1> HIDE DEF match
<1>4. rows.reconciliation = match
    BY DEF match
<1>5. QED  BY <1>1, <1>2, <1>3, <1>4 DEF Accepted

\* Every value of the invoice was a value of a group, so there is a row of evidence.
LEMMA ValuesHaveEvidence ==
  ASSUME NEW draft, NEW blocks, NEW f \in DOMAIN BuiltInvoice(draft).fields,
         BuiltInvoice(draft).fields[f] # None
  PROVE  \E a \in Extractors : <<a, f>> \in DOMAIN BuiltEvidence(draft, blocks)
<1>1. /\ ValueFields(Metadata) = MetadataFields /\ ValueFields(Totals) = TotalsFields
      /\ {Metadata, Totals} \subseteq Extractors
    BY DEF ValueFields, Metadata, Totals, Extractors
<1>2. DOMAIN BuiltInvoice(draft).fields = MetadataFields \cup TotalsFields
    BY DEF BuiltInvoice
<1>3. ASSUME NEW a \in {Metadata, Totals}, f \in ValueFields(a), draft[a].fields[f] # None
      PROVE  <<a, f>> \in DOMAIN BuiltEvidence(draft, blocks)
    BY <1>2, <1>3 DEF BuiltEvidence
<1>4. BuiltInvoice(draft).fields[f] =
        CASE f = "currency"                    -> InvoiceCurrency(draft)
          [] f \in {"issue_date", "due_date"}  -> Parsed(draft[Metadata].fields[f])
          [] f \in AmountFields                -> Parsed(draft[Totals].fields[f])
          [] OTHER                             -> draft[Metadata].fields[f]
    BY <1>2 DEF BuiltInvoice
<1>5. Parsed(None) = None
    BY DEF Parsed
<1>6. CASE f = "currency"
    <2> DEFINE text == FirstOf([totals |-> draft[Totals].fields.currency,
                                metadata |-> draft[Metadata].fields.currency],
                               "totals", "metadata")
    <2>1. NormalizedCurrency(text) # None
        <3>1. InvoiceCurrency(draft) = NormalizedCurrency(text)
            BY DEF InvoiceCurrency
        <3>2. f \notin AmountFields \cup {"issue_date", "due_date"}
            BY <1>6 DEF AmountFields
        <3> HIDE DEF text
        <3>3. QED  BY <1>4, <1>6, <3>1, <3>2
    <2>2. text # None
        <3> HIDE DEF text
        <3>1. NormalizedCurrency(None) = None
            BY OutputAssumption DEF NormalizedCurrency
        <3>2. QED  BY <2>1, <3>1
    <2>3. draft[Totals].fields["currency"] # None \/ draft[Metadata].fields["currency"] # None
        BY <2>2 DEF FirstOf
    <2>4. "currency" \in MetadataFields \cap TotalsFields
        BY DEF MetadataFields, TotalsFields
    <2>5. QED  BY <1>1, <1>3, <1>6, <2>3, <2>4
<1>7. CASE f \in {"issue_date", "due_date"}
    <2>1. f \in MetadataFields /\ f \notin AmountFields \cup {"currency"}
        BY <1>7 DEF MetadataFields, AmountFields
    <2>2. draft[Metadata].fields[f] # None
        BY <1>4, <1>5, <1>7, <2>1
    <2>3. QED  BY <1>1, <1>3, <2>1, <2>2
<1>8. CASE f \in AmountFields
    <2>1. f \in TotalsFields /\ f \notin {"currency", "issue_date", "due_date"}
        BY <1>8 DEF AmountFields, TotalsFields
    <2>2. draft[Totals].fields[f] # None
        BY <1>4, <1>5, <1>8, <2>1
    <2>3. QED  BY <1>1, <1>3, <2>1, <2>2
<1>9. CASE f \notin AmountFields \cup {"currency", "issue_date", "due_date"}
    <2>1. f \in MetadataFields
        BY <1>2, <1>9 DEF TotalsFields
    <2>2. draft[Metadata].fields[f] # None
        BY <1>4, <1>9
    <2>3. QED  BY <1>1, <1>3, <2>1, <2>2
<1>10. QED  BY <1>6, <1>7, <1>8, <1>9

\* The reviewer has a task, as the property says.
LEMMA ReviewedByBook ==
  ASSUME BankInv, OutcomeInv, DraftInv, BookMade
  PROVE  EveryDocumentReviewed
<1> SUFFICES ASSUME book # None
             PROVE  IF book.outcome = "refused"
                    THEN ReadTooMuch(scratch.draft)
                    ELSE /\ book.document = "review_required" /\ book.task # None
                         /\ book.task.target = "invoice" <=> book.invoice # None
                         /\ book.task.target = "document" <=> wf.status = "failed"
                         /\ book.invoice # None => \A f \in DOMAIN book.invoice.fields :
                              book.invoice.fields[f] # None =>
                                \E a \in Extractors : <<a, f>> \in DOMAIN book.evidence
    BY DEF EveryDocumentReviewed
<1>1. /\ pc = "done" /\ job.driver # "prepare" /\ job.document \in Documents
      /\ book = IF Accepted(Rows) THEN Rows ELSE RefusedRows
    BY DEF BookMade, BankInv, AgentInv, Shapes, Jobs
<1>2. wf.status = "failed" <=> scratch.reading = None
    BY <1>1 DEF OutcomeInv, FinalOutcome
<1>3. scratch.draft = None <=> wf.status = "failed"
    BY <1>1, <1>2 DEF DraftInv
<1>4. CASE scratch.draft = None
    <2>1. Rows = [Nothing EXCEPT !.task = FailureTask, !.document = "review_required"]
        BY <1>3, <1>4 DEF Rows, FailureRows
    <2>2. /\ Rows.outcome = "written" /\ Rows.document = "review_required"
          /\ Rows.task = FailureTask /\ Rows.invoice = None /\ Rows.lines = <<>>
          /\ Rows.reconciliation = None
        BY <2>1 DEF Nothing
    <2>3. Accepted(Rows)
        <3>1. DOMAIN Rows.lines = {}
            BY <2>2
        <3>2. QED  BY <2>2, <3>1 DEF Accepted
    <2>4. FailureTask # None /\ FailureTask.target = "document"
        <3>1. (IF run.error = None THEN "workflow_failed" ELSE run.error)
                 \in Agents \cup {"RETRY_EXHAUSTED", "workflow_failed"}
            BY DEF DraftInv
        <3>2. FailureTask # None
            BY <3>1, OutputAssumption DEF FailureTask
        <3>3. QED  BY <3>2 DEF FailureTask, OpenTask
    <2>5. QED  BY <1>1, <1>3, <1>4, <2>2, <2>3, <2>4
<1>5. CASE scratch.draft # None
    <2> DEFINE draft == scratch.draft
               evidence == BuiltEvidence(draft, LayoutBlocks(job.document.page))
    <2>1. draft \in Drafts(job.document) /\ wf.status # "failed"
        BY <1>3, <1>5 DEF DraftInv
    <2>2. /\ Rows.outcome = "written" /\ Rows.document = "review_required"
          /\ Rows.invoice = BuiltInvoice(draft) /\ Rows.lines = BuiltLines(draft)
          /\ Rows.evidence = evidence /\ Rows.task = InvoiceTask(evidence)
          /\ Rows.reconciliation = BuiltReconciliation(scratch.match, BuiltInvoice(draft))
        BY <1>5 DEF Rows, InvoiceRows
    <2>3. InvoiceTask(evidence).target = "invoice"
        BY DEF InvoiceTask, OpenTask
    <2>4. BuiltInvoice(draft) # None /\ InvoiceTask(evidence) # None
        BY <1>1, <2>1, DraftFacts
    <2>5. RefusedRows.outcome = "refused"
        BY DEF RefusedRows, Nothing
    <2> HIDE DEF draft, evidence
    <2>6. CASE Accepted(Rows)
        <3>1. \A f \in DOMAIN BuiltInvoice(draft).fields :
                BuiltInvoice(draft).fields[f] # None =>
                  \E a \in Extractors : <<a, f>> \in DOMAIN evidence
            BY ValuesHaveEvidence DEF evidence
        <3>2. book = Rows
            BY <1>1, <2>6
        <3>3. QED  BY <2>1, <2>2, <2>3, <2>4, <3>1, <3>2
    <2>7. CASE ~Accepted(Rows)
        <3>1. ReadTooMuch(draft)
            BY <1>1, <2>1, <2>2, <2>7, RowsFit
        <3>2. book.outcome = "refused"
            BY <1>1, <2>5, <2>7
        <3>3. QED  BY <3>1, <3>2 DEF draft
    <2>8. QED  BY <2>6, <2>7
<1>6. QED  BY <1>4, <1>5

\* Whatever a workflow came to, somebody has an open task for the document or for its
\* invoice with evidence for every value of it, and the tables refuse an output only for
\* something read that its column cannot hold: the numbers of the lines never collide.
THEOREM DocumentsAreReviewed == BankSpec => []EveryDocumentReviewed
<1>1. BankInit => DraftInv /\ BookMade
    <2> SUFFICES ASSUME BankInit PROVE DraftInv /\ BookMade
        OBVIOUS
    <2>1. Init /\ book = None
        BY DEF BankInit, OutInit
    <2>2. /\ scratch.groups = [a \in Extractors |-> None] /\ scratch.draft = None
          /\ pc = Intake /\ run.error = None
        BY <2>1 DEF Init, EmptyScratchpad
    <2>3. pc \notin {QA, "done"} \cup Waiting \cup Business
        BY <2>2, Names, Order, ControlStates DEF Business, Waiting, PreparationAgents
    <2>4. GroupsOf(scratch.groups, job.document)
        BY <2>2 DEF GroupsOf
    <2>5. QED  BY <2>1, <2>2, <2>3, <2>4 DEF DraftInv, BookMade
<1>2. BankInv /\ OutcomeInv /\ OutcomeInv' /\ DraftInv /\ BookMade /\ [BankNext]_bankVars
        => DraftInv' /\ BookMade'
    BY OutputStep
<1>3. BankInv /\ OutcomeInv /\ DraftInv /\ BookMade => EveryDocumentReviewed
    BY ReviewedByBook
<1>4. QED
    BY <1>1, <1>2, <1>3, BankInvHolds, WorkflowUndisturbed, OutcomeHolds, PTL DEF BankSpec
=============================================================================
