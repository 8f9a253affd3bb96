-------------------------- MODULE MCAgentWorkflow --------------------------
(* One invoice of 100.00 and 10.00 tax as OCR, Azure and the model may read *)
(* it, and the ledgers it may meet.                                         *)
EXTENDS BankStatement, TLC

CONSTANTS n1, acme, bob

KeyOf(name) == name

MetadataOf(number, supplier, customer, issue) == [f \in MetadataFields |->
  CASE f = "invoice_number" -> number   [] f = "supplier_name" -> supplier
    [] f = "customer_name"  -> customer [] f = "issue_date"    -> issue
    [] f = "due_date"       -> IF issue = None THEN None ELSE issue + 30
    [] OTHER -> None]

TotalsOf(subtotal, tax, total) == [f \in TotalsFields |->
  CASE f = "subtotal_amount" -> subtotal [] f = "tax_amount" -> tax
    [] f = "total_amount" -> total [] OTHER -> "EUR"]

InWords(fields) == [fields EXCEPT !.currency = "EURO"]

Row(number, description, quantity, price, total) ==
  [number |-> number, description |-> description, quantity |-> quantity,
   unit_price |-> price, line_total |-> total]

\* The rules' keywords in a text: one of a strong rule, one of a weak one, two of
\* rules that compete.
KeywordsOf(text) == CASE text = "consulting"       -> {"consulting"}
                      [] text = "office lease"     -> {"lease"}
                      [] text = "rent and hosting" -> {"rent", "hosting"}
                      [] OTHER                     -> {}
KeywordsOfAll(texts) == UNION {KeywordsOf(texts[i]) : i \in DOMAIN texts}

Facts(fields, explicit) == fields @@ [explicit |-> explicit, tax_summary |-> FALSE]

Block(marks, parties) == [text |-> TRUE, marks |-> marks, parties |-> parties,
                          box |-> None, confidence |-> None]

\* Header, supplier, customer, table, totals and a footer of three lines.
Page(supplier, customer) ==
  <<Block({}, {}), Block({}, {supplier}), Block({"bill_to"}, {customer}),
    Block({"table"}, {}), Block({"totals"}, {}), Block({}, {}), Block({}, {}),
    Block({}, {})>>

NoFields == [n \in {"InvoiceTotal.code", "SubTotal.code", "TotalTax.code",
                    "AmountDue.code", "InvoiceId", "VendorName", "VendorTaxId",
                    "CustomerName", "CustomerAddressRecipient", "CustomerTaxId",
                    "InvoiceDate", "DueDate", "InvoiceTotal", "AmountDue", "SubTotal",
                    "TotalTax"} |-> None]

\* A stamp over the total, as the comment in azure_di.py has it.
Stamped == ("Items" :> <<Row(1, "office lease", 2, 5000, 10000)>>) @@ ("InvoiceId" :> n1) @@
  ("VendorName" :> acme) @@ ("CustomerName" :> bob) @@ ("InvoiceDate" :> 10) @@
  ("InvoiceTotal" :> 11) @@ ("SubTotal" :> 10000) @@ ("TotalTax" :> 1000) @@ NoFields

Clear == [page |-> Page(acme, bob), text |-> TRUE, prebuilt |-> None,
          totals |-> Facts(TotalsOf(10000, 1000, 11000), TRUE),
          items |-> <<Row(1, "consulting", 2, 5000, 10000)>>,
          metadata |-> MetadataOf(n1, acme, bob, 10)]
Swapped == [Clear EXCEPT !.metadata = MetadataOf(n1, bob, acme, 10)]
Faint == [Clear EXCEPT !.totals = Facts(TotalsOf(10000, None, None), FALSE),
                       !.items = <<>>, !.metadata = MetadataOf(None, acme, bob, None)]
Prebuilt == [Faint EXCEPT !.prebuilt = Stamped]
Unread == [Faint EXCEPT !.text = FALSE, !.page = <<>>]

MCDocuments == {Clear, Swapped, Faint, Prebuilt, Unread}

Group(fields, items, confidence) ==
  [shape |-> "schema", body |-> [status |-> "extracted", fields |-> fields,
                                 items |-> items, confidence |-> confidence]]

Saying(answer) == [json |-> "object", answer |-> answer]
Ollama(text) == [api |-> "ollama", received |-> TRUE, message |-> text, response |-> None]
Responses(status, chunks) == [api |-> "responses", received |-> TRUE, error |-> None,
                              status |-> status, outputText |-> None, chunks |-> chunks]
Chat(choices) == [api |-> "chat", received |-> TRUE, error |-> None, choices |-> choices]

RowsOf(rows) == [shape |-> "wrapped", body |-> [items |-> rows]]

MCReplies == [a \in Extractors |->
  CASE a = Metadata ->
         {Ollama(Saying(Group(MetadataOf(n1, acme, bob, 10), <<>>, "high"))),
          Responses("incomplete", Saying(Group(MetadataOf(n1, acme, bob, 10), <<>>, "high")))}
    [] a = Table ->
         {Ollama(Saying(RowsOf(<<Row(None, "repair", 2, 5000, 10000),
                                 Row(None, None, None, None, 10000)>>))),
          Chat(<<Saying(Group(<<>>, <<Row(1, "rent and hosting", 1, 4000, 4000),
                                      Row(1, None, 1, 6000, 6000)>>, "medium"))>>),
          Ollama(Saying([shape |-> "empty", body |-> None]))}
    [] OTHER ->
         {Ollama(Saying(Group(TotalsOf(10000, 1000, 11000), <<>>, "high"))),
          Responses("completed", Saying(Group(TotalsOf(10000, 1000, 12000), <<>>, "low"))),
          Ollama(Saying(Group(InWords(TotalsOf(10000, 1000, 11000)), <<>>, "high"))),
          Chat(<<[json |-> "other", answer |-> None]>>)}]

Cells(description, date, debit, credit) ==
  [description |-> description, date |-> date, debit |-> debit, credit |-> credit,
   balance |-> None, currency |-> "EUR", mentions |-> {n1}, compact |-> {}]

File(rows) == [bank |-> None, number |-> 1, rows |-> rows]

\* A payment, a refund that looks like it beside a row without an amount, and an old
\* payment.
Paid == File(<<Cells("payment", 20, 11000, None)>>)
Refunded == File(<<Cells("opening balance", 1, None, Unreadable),
                   Cells("refund", 20, None, 11050)>>)
Archive == File(<<Cells("payment", -90, 11000, None)>>)

MCStatements == {Paid, Refunded, Archive}

\* What was imported before the workflow looks.
MCLedgers == {UNION {Transactions(file) : file \in before} :
                before \in {{}, {Paid}, {Paid, Refunded}, {Paid, Archive}, {Archive}}}

MCCategories == {None, [code |-> "repairs_and_maintenance", confidence |-> "high"],
                 [code |-> "gifts", confidence |-> "certain"]}

\* A currency in words has more than three characters, and 120.00 is an amount that an
\* invoice has no room for.
FitsIn(column, value) ==
  /\ column = "currency" => value # "EURO"
  /\ column = "total_amount" => value # 12000

\* A party's block says its name; "supplier" heads the first block.
LikenessOf(value, block) == IF value \in block.parties THEN 100 ELSE 0
AnchoringOf(field, block) ==
  IF field = "customer_name" /\ "bill_to" \in block.marks THEN "starts" ELSE "none"
=============================================================================
