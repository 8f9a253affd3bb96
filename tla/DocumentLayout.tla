--------------------------- MODULE DocumentLayout ---------------------------
(***************************************************************************)
(* How layout analysis groups the text blocks of an OCR result into the     *)
(* coarse regions of an invoice (workflows/document_preparation.py).        *)
(*                                                                          *)
(* A raw block is [text, marks, parties, box, confidence]: text says whether *)
(* there is any, marks which marker words it holds ("table", "totals",      *)
(* "bill_to", "ship_to"), parties the keys of the party names in it; box is *)
(* <<x1, y1, x2, y2>> or None, confidence a number or None.                 *)
(***************************************************************************)
EXTENDS Integers, Sequences, SequencesExt

CONSTANT None   \* Python's None

RegionNames == {"header", "supplier", "bill_to", "ship_to", "line_item_table",
                "totals", "footer"}

Earliest(S) == IF S = {} THEN None ELSE Min(S)

\* build_ocr_layout_blocks: blocks without text are dropped.
LayoutBlocks(raw) == SelectSeq(raw, LAMBDA block : block.text)

\* first_block_index_matching; blocks are numbered from 1 here.
FirstMatching(blocks, mark, from) ==
  Earliest({i \in from .. Len(blocks) : mark \in blocks[i].marks})

TableStart(blocks) == FirstMatching(blocks, "table", 1)

TotalsStart(blocks) ==
  FirstMatching(blocks, "totals",
                IF TableStart(blocks) = None THEN 1 ELSE TableStart(blocks) + 1)

\* infer_region_name.  The last three blocks after the totals begin are the footer.
RegionOf(blocks, i) ==
  LET from(start) == start # None /\ i >= start
  IN  IF from(TotalsStart(blocks)) THEN
        IF i <= Len(blocks) - 3 THEN "totals" ELSE "footer"
      ELSE IF from(TableStart(blocks)) THEN "line_item_table"
      ELSE IF from(FirstMatching(blocks, "ship_to", 1)) THEN "ship_to"
      ELSE IF from(FirstMatching(blocks, "bill_to", 1)) THEN "bill_to"
      ELSE IF i > 1 THEN "supplier" ELSE "header"

MembersOf(blocks, name) == {i \in 1 .. Len(blocks) : RegionOf(blocks, i) = name}

\* merge_region_bounding_box over the blocks that have a box.
RegionBox(blocks, members) ==
  LET boxed == {i \in members : blocks[i].box # None}
      corner(k) == {blocks[i].box[k] : i \in boxed}
  IN  IF boxed = {} THEN None
      ELSE <<Min(corner(1)), Min(corner(2)), Max(corner(3)), Max(corner(4))>>

\* add_block_to_region, over all the blocks of one region.
Region(blocks, name) ==
  LET members == MembersOf(blocks, name)
  IN  [blocks     |-> members,
       parties    |-> UNION {blocks[i].parties : i \in members},
       box        |-> RegionBox(blocks, members),
       confidence |-> Earliest({blocks[i].confidence : i \in members} \ {None})]

\* build_ocr_layout_regions keeps the regions that got a block.
Regions(raw) ==
  LET blocks == LayoutBlocks(raw)
  IN  [name \in {r \in RegionNames : MembersOf(blocks, r) # {}} |-> Region(blocks, name)]

PartiesIn(regions, name) == IF name \in DOMAIN regions THEN regions[name].parties ELSE {}
=============================================================================
