--------------------------- MODULE Transcription ---------------------------
(***************************************************************************)
(* Transcriptions in IVTFF (crate vah-ivtff): the items of a locus, the    *)
(* pages of a file, and the corpus a view makes of them (crate vah-corpus).*)
(*                                                                         *)
(* The text of a locus is a sequence of marks, one for each glyph, space,  *)
(* bracket or whole tag; "<" stands for a tag that is never closed.  A     *)
(* file is its header and its lines; a line is a page, a locus, an         *)
(* unclosed identifier or something that is passed over.                   *)
(***************************************************************************)
EXTENDS Kernel, Integers, Sequences, FiniteSets
LOCAL INSTANCE SequencesExt

-----------------------------------------------------------------------------
(* The items of a locus                                                    *)

Unbalanced == [ok |-> FALSE]
Leaf(mark) == [kind |-> mark, branches |-> <<>>]

RECURSIVE ParseSeq(_,_,_), ParseItem(_,_), ParseBranches(_,_)

\* The items from a position to a mark of stop, or to the end of the text.
ParseSeq(text, pos, stop) ==
    IF pos > Len(text) THEN [ok |-> TRUE, items |-> <<>>, pos |-> pos]
    ELSE IF text[pos] \in stop THEN [ok |-> TRUE, items |-> <<>>, pos |-> pos]
    ELSE LET one  == ParseItem(text, pos)
             rest == ParseSeq(text, one.pos, stop)
         IN IF ~one.ok THEN Unbalanced
            ELSE IF ~rest.ok THEN Unbalanced
            ELSE [rest EXCEPT !.items = <<one.item>> \o @]

ParseItem(text, pos) ==
    LET Closed(kind, found) ==
          IF found.ok THEN [ok |-> TRUE, item |-> [kind |-> kind, branches |-> found.branches], pos |-> found.pos]
          ELSE Unbalanced
        inner == ParseSeq(text, pos + 1, {"}"})
    IN CASE text[pos] = "<" -> Unbalanced
         [] text[pos] = "[" -> Closed("[", ParseBranches(text, pos + 1))
         [] text[pos] = "{" ->
              IF ~inner.ok THEN Unbalanced
              ELSE IF inner.pos > Len(text) THEN Unbalanced
              ELSE Closed("{", [ok |-> TRUE, branches |-> <<inner.items>>, pos |-> inner.pos + 1])
         [] OTHER -> [ok |-> TRUE, item |-> Leaf(text[pos]), pos |-> pos + 1]

ParseBranches(text, pos) ==
    LET branch == ParseSeq(text, pos, {":", "]"})
        more   == ParseBranches(text, branch.pos + 1)
    IN IF ~branch.ok THEN Unbalanced
       ELSE IF branch.pos > Len(text) THEN Unbalanced
       ELSE IF text[branch.pos] = "]"
            THEN [ok |-> TRUE, branches |-> <<branch.items>>, pos |-> branch.pos + 1]
       ELSE IF ~more.ok THEN Unbalanced
       ELSE [more EXCEPT !.branches = <<branch.items>> \o @]

ParseItems(text) == ParseSeq(text, 1, {})

RECURSIVE Render(_)
Render(items) ==
    FlattenSeq([i \in DOMAIN items |->
        LET it == items[i]
            parts == [b \in DOMAIN it.branches |->
                        (IF b > 1 THEN <<":">> ELSE <<>>) \o Render(it.branches[b])]
        IN CASE it.kind = "[" -> <<"[">> \o FlattenSeq(parts) \o <<"]">>
             [] it.kind = "{" -> <<"{">> \o FlattenSeq(parts) \o <<"}">>
             [] OTHER -> <<it.kind>>])

-----------------------------------------------------------------------------
(* Views                                                                   *)

ParagraphText ==
    [categories |-> {"P"}, splits |-> {".", ",", "<->"}, drops |-> {"?", "@nnn;"}]
AllText == [ParagraphText EXCEPT !.categories = {"P", "L", "C", "R", "T", "X"}]
ViewOf(view) ==
    CASE view = "para-v1" -> ParagraphText [] view = "all-v1" -> AllText [] OTHER -> None

Glyphs == {"a", "o", "y"}

\* The word being built, and the line it will belong to.
Begun == [word |-> <<>>, words |-> <<>>, start |-> FALSE, end |-> FALSE]

EndWord(view, line) ==
    [line EXCEPT !.word = <<>>,
        !.words = IF line.word = <<>> \/ \E k \in DOMAIN line.word : line.word[k] \in view.drops
                  THEN @ ELSE Append(@, line.word)]

RECURSIVE Walk(_,_,_)
Walk(view, items, begun) ==
    FoldLeft(LAMBDA line, it :
        CASE it.kind \in view.splits -> EndWord(view, line)
          [] it.kind \in Glyphs \cup {"?", "@nnn;"} -> [line EXCEPT !.word = Append(@, it.kind)]
          [] it.kind = "<%>" -> [line EXCEPT !.start = TRUE]
          [] it.kind = "<$>" -> [line EXCEPT !.end = TRUE]
          [] it.kind \in {"[", "{"} -> Walk(view, it.branches[1], line)
          [] OTHER -> line,
        begun, items)

-----------------------------------------------------------------------------
(* Files, pages and corpora                                                *)

Readings(file) ==
    [n \in DOMAIN file.lines |->
        IF file.lines[n].kind = "locus" THEN ParseItems(file.lines[n].text) ELSE Unbalanced]

WellFormed(file) ==
    /\ file.header
    /\ \A n \in DOMAIN file.lines :
          /\ file.lines[n].kind # "unclosed"
          /\ file.lines[n].kind = "locus" => file.lines[n].sound /\ Readings(file)[n].ok

\* A locus of another page than the last one opens a page that has no variables.
Meta(name, quire, currier) ==
    [name |-> name, quire |-> quire, currier |-> IF currier \in {"A", "B"} THEN currier ELSE None]

AddLocus(pages, name, locus) ==
    LET last == Len(pages)
    IN IF last > 0 /\ pages[last].meta.name = name
       THEN [pages EXCEPT ![last].loci = Append(@, locus)]
       ELSE Append(pages, [meta |-> Meta(name, None, None), loci |-> <<locus>>])

PagesOf(file) ==
    FoldLeft(LAMBDA pages, n :
        LET line == file.lines[n] IN
        CASE line.kind = "page" ->
                Append(pages, [meta |-> Meta(line.name, line.quire, line.currier), loci |-> <<>>])
          [] line.kind = "locus" ->
                AddLocus(pages, line.name,
                         [category |-> line.category, items |-> Readings(file)[n].items])
          [] OTHER -> pages,
        <<>>, [n \in DOMAIN file.lines |-> n])

\* Every page stays; a locus stays when a word of it does.
LineOf(view, p, locus) ==
    LET line == EndWord(view, Walk(view, locus.items, Begun))
    IN [page |-> p, words |-> line.words, start |-> line.start, end |-> line.end]

BuildCorpus(file, view) ==
    LET pages == PagesOf(file)
        lines(p) ==
          LET shown == SelectSeq(pages[p].loci, LAMBDA l : l.category \in view.categories)
          IN SelectSeq([i \in DOMAIN shown |-> LineOf(view, p, shown[i])], LAMBDA l : l.words # <<>>)
    IN [pages |-> [p \in DOMAIN pages |-> pages[p].meta],
        lines |-> FlattenSeq([p \in DOMAIN pages |-> lines(p)])]

\* The lines of the pages that are kept; kept pages are numbered anew.
FilterPages(corpus, kept) ==
    LET pages == SetToSortSeq(kept, <)
        new(p) == Cardinality({q \in kept : q <= p})
        lines  == SelectSeq(corpus.lines, LAMBDA l : l.page \in kept)
    IN [pages |-> [k \in DOMAIN pages |-> corpus.pages[pages[k]]],
        lines |-> [i \in DOMAIN lines |-> [lines[i] EXCEPT !.page = new(@)]]]

WordCount(lines) == FoldLeft(LAMBDA n, l : n + Len(l.words), 0, lines)

=============================================================================
