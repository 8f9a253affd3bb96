-------------------------- MODULE PrebuiltInvoice --------------------------
(***************************************************************************)
(* The groups Azure's prebuilt-invoice model fills in before any extractor   *)
(* runs (providers/azure_di.py, _parse_prebuilt_invoice_fields).            *)
(*                                                                          *)
(* fields maps Azure's field names to a value or None: an amount is whole    *)
(* cents, Unreadable when its text is not a number.  A currency code is a    *)
(* field of its own, "<amount field>.code".                                 *)
(***************************************************************************)
EXTENDS InvoiceExtraction

FirstKnown(fields, names) ==
  LET known == SelectSeq(names, LAMBDA n : fields[n] # None)
  IN  IF known = <<>> THEN None ELSE fields[Head(known)]

PrebuiltCurrency(fields) ==
  FirstKnown(fields, <<"InvoiceTotal.code", "SubTotal.code", "TotalTax.code",
                       "AmountDue.code">>)

PrebuiltMetadata(fields) ==
  [status |-> "extracted", items |-> <<>>, confidence |-> "high",
   fields |-> [f \in MetadataFields |->
     CASE f = "invoice_number"  -> fields["InvoiceId"]
       [] f = "supplier_name"   -> fields["VendorName"]
       [] f = "supplier_tax_id" -> fields["VendorTaxId"]
       [] f = "customer_name"   -> FirstKnown(fields, <<"CustomerName",
                                                        "CustomerAddressRecipient">>)
       [] f = "customer_tax_id" -> fields["CustomerTaxId"]
       [] f = "issue_date"      -> fields["InvoiceDate"]
       [] f = "due_date"        -> fields["DueDate"]
       [] OTHER                 -> PrebuiltCurrency(fields)]]

\* Items is a sequence of rows; without rows the group says placeholder, unknown.
PrebuiltTable(fields) ==
  [EmptyGroup(Table) EXCEPT
     !.items = fields["Items"],
     !.status = IF fields["Items"] # <<>> THEN "extracted" ELSE @,
     !.confidence = IF fields["Items"] # <<>> THEN "high" ELSE @]

\* A total below a positive subtotal is implausible and marks the group low.
PrebuiltTotals(fields) ==
  LET total == FirstKnown(fields, <<"InvoiceTotal", "AmountDue">>)
      subtotal == fields["SubTotal"]
      readable == {total, subtotal} \cap {None, Unreadable} = {}
      found == \E v \in {total, subtotal, fields["TotalTax"]} : v # None
      implausible == readable /\ subtotal > 0 /\ total < subtotal
  IN  [status |-> IF implausible THEN "low_confidence"
                  ELSE IF found THEN "extracted" ELSE "placeholder",
       fields |-> [f \in TotalsFields |->
                     CASE f = "subtotal_amount" -> subtotal
                       [] f = "tax_amount"      -> fields["TotalTax"]
                       [] f = "total_amount"    -> total
                       [] OTHER                 -> PrebuiltCurrency(fields)],
       items |-> <<>>,
       confidence |-> IF implausible THEN "low"
                      ELSE IF ~found THEN "unknown"
                      ELSE IF total = None THEN "medium" ELSE "high"]

\* populate_scratchpad_from_prebuilt_extraction; without a prebuilt result the
\* groups stay as they are.
PrebuiltGroups(groups, fields) ==
  IF fields = None THEN groups
  ELSE [a \in Extractors |-> CASE a = Metadata -> PrebuiltMetadata(fields)
                               [] a = Table    -> PrebuiltTable(fields)
                               [] OTHER        -> PrebuiltTotals(fields)]
=============================================================================
