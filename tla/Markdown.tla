------------------------------- MODULE Markdown -------------------------------
(***************************************************************************)
(* md_to_html of scripts/build-site.py as operators: a document is the     *)
(* sequence of the kinds of its lines, its HTML a sequence of blocks, each *)
(* with the lines that went into it. One round of the outer loop looks at  *)
(* line i, emits at most one block and moves i past it.                    *)
(*                                                                         *)
(*   "row"     a line with a bar        "divider"  |---|---|               *)
(*   "ragged"  |---| and more behind    "nested"   an indented list item   *)
(*   "hash"    # with no title behind   "dash"     --- and more behind     *)
(***************************************************************************)
EXTENDS Integers, Sequences

Kinds == {"blank", "hr", "heading", "quote", "row", "divider", "ragged",
          "item", "nested", "text", "hash", "dash"}

HasBar(line) == line \in {"row", "divider", "ragged"}

StartsTable(doc, i) == HasBar(doc[i]) /\ i < Len(doc) /\ doc[i + 1] = "divider"

IsItem(line) == line \in {"item", "nested"}

\* The conditions at which a paragraph ends are not those at which another block
\* begins: a title may be missing, a rule may go on, a divider may be ragged.
EndsParagraph(doc, i) ==
  \/ doc[i] \in {"blank", "heading", "hash", "quote", "item", "hr", "dash"}
  \/ HasBar(doc[i]) /\ i < Len(doc) /\ doc[i + 1] \in {"divider", "ragged"}

\* Line k belongs to a block of this kind: what the inner loops test.
Within(doc, k, kind) ==
  CASE kind = "quote"     -> doc[k] = "quote"
    [] kind = "table"     -> HasBar(doc[k])
    [] kind = "list"      -> IsItem(doc[k])
    [] kind = "paragraph" -> ~EndsParagraph(doc, k)
    [] OTHER              -> FALSE

\* The first line from i on that does not belong to it, or the end of the document.
Past(doc, i, kind) ==
  CHOOSE j \in i .. Len(doc) + 1 :
    /\ \A k \in i .. j - 1 : Within(doc, k, kind)
    /\ j <= Len(doc) => ~Within(doc, j, kind)

\* The blocks that consist of line i alone.
Single(line) == line \in {"blank", "hr", "heading"}

\* Mutant of KindAt: a table needs no divider, and a paragraph does not end there.
KindAtNoDivider(doc, i) ==
  CASE Single(doc[i]) \/ doc[i] = "quote" -> doc[i]
    [] IsItem(doc[i]) -> "list"
    [] OTHER -> "paragraph"

\* The kind of the block that begins at line i.
KindAt(doc, i) ==
  CASE Single(doc[i]) \/ doc[i] = "quote" -> doc[i]
    [] StartsTable(doc, i) -> "table"
    [] IsItem(doc[i]) -> "list"
    [] OTHER -> "paragraph"

\* That block, and the line the loop goes on at. A line that ends a paragraph and begins
\* no other block leaves the loop where it is.
BlockAt(doc, i) ==
  [kind |-> KindAt(doc, i),
   from |-> i,
   next |-> IF Single(doc[i]) THEN i + 1 ELSE Past(doc, i, KindAt(doc, i))]

\* The lines of a block that come out: a table drops its dividers, a blank shows nothing.
ComesOut(doc, b) == {k \in b.from .. b.next - 1 : doc[k] \notin {"blank", "divider"}}

\* The lines of a quote without their >, which are converted again. report.py prints one
\* quote, of a line of plain text.
Quoted(b) == [k \in 1 .. b.next - b.from |-> "text"]

\* The lines a block shows: a quote those of the block that its own text begins with.
Shows(doc, b) ==
  IF b.kind = "quote"
  THEN {b.from + k - 1 : k \in ComesOut(Quoted(b), BlockAt(Quoted(b), 1))}
  ELSE ComesOut(doc, b)

-----------------------------------------------------------------------------
\* What the conversion is there for, said without a loop: the blocks of a document are
\* its maximal runs of lines of one class, and headings and rules by themselves.
Class(line) ==
  CASE line \in {"row", "divider"} -> "table"
    [] line = "item" -> "list"
    [] line = "text" -> "paragraph"
    [] OTHER -> line

Alone(line) == line \in {"heading", "hr"}

MaximalRuns(doc) ==
  {r \in (DOMAIN doc) \X (DOMAIN doc) :
     /\ r[1] <= r[2]
     /\ \A k \in r[1] .. r[2] : doc[k] # "blank" /\ Class(doc[k]) = Class(doc[r[1]])
     /\ Alone(doc[r[1]]) => r[1] = r[2]
     /\ ~Alone(doc[r[1]]) => /\ r[1] > 1 => Class(doc[r[1] - 1]) # Class(doc[r[1]])
                             /\ r[2] < Len(doc) => Class(doc[r[2] + 1]) # Class(doc[r[1]])}

ExpectedHtml(doc) ==
  {[kind |-> Class(doc[r[1]]),
    lines |-> {k \in r[1] .. r[2] : doc[k] # "divider"}] : r \in MaximalRuns(doc)}

\* The documents the converter is for: lines of the kinds report.md has, in which every
\* table begins with a header and a divider.
InSubset(doc) ==
  \A k \in DOMAIN doc :
    /\ doc[k] \in {"blank", "hr", "heading", "quote", "row", "divider", "item", "text"}
    /\ doc[k] = "divider" => k > 1 /\ doc[k - 1] = "row"
    /\ doc[k] = "row" /\ (k = 1 \/ ~HasBar(doc[k - 1])) => StartsTable(doc, k)
=============================================================================
