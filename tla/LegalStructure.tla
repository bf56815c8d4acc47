---------------------------- MODULE LegalStructure ----------------------------
(***************************************************************************)
(* LegalStructureParser of agent/rag/legal_structure.py: the text of a law *)
(* is read line by line into units (preamble, articles, clauses, points,   *)
(* appendices) and every unit with text becomes a chunk.                   *)
(*                                                                         *)
(* A line is what the regular expressions, tried in their order, make of   *)
(* it; its wording is left out.  A unit, a heading and a label are named   *)
(* by the number of the line they stand in, 0 is None.                     *)
(***************************************************************************)
EXTENDS Integers, Sequences, SequencesExt, FiniteSetsExt

CONSTANTS
    MaxLines,  \* bound: the lines of the text
    MaxPages   \* bound: its pages

ASSUME BoundsAreNumbers == MaxLines \in Nat /\ MaxPages \in Nat \ {0}

Kind == {"appendix", "part", "chapter", "section", "article", "clause", "point",
         "text", "blank"}

VARIABLES
    kinds, pages,            \* the lines read so far and the page of each
    page,                    \* the page being read
    nodes,                   \* every _Node in the order of creation
    active,                  \* the unit that takes the next line of text
    article, clause,         \* the units the next clause or point belongs to
    part, chapter, section,  \* the headings in force
    appendix                 \* appendix_mode

parserVars == <<kinds, pages, page, nodes, active, article, clause, part, chapter, section, appendix>>
open == <<active, article, clause, appendix>>
headings == <<part, chapter, section>>

\* at: the line that opens the unit; article and clause: nodes; lines: what
\* append was given.
Unit == [kind : {"PREAMBLE", "ARTICLE", "CLAUSE", "POINT"}, at : 0..MaxLines,
         part : 0..MaxLines, chapter : 0..MaxLines, section : 0..MaxLines,
         article : 0..(MaxLines + 1), clause : 0..(MaxLines + 1), lines : Seq(1..MaxLines)]

Preamble == [kind |-> "PREAMBLE", at |-> 0, part |-> 0, chapter |-> 0, section |-> 0,
             article |-> 0, clause |-> 0, lines |-> <<>>]

ParseInit ==
    /\ kinds = <<>> /\ pages = <<>> /\ page = 1
    /\ nodes = <<Preamble>> /\ active = 1
    /\ article = 0 /\ clause = 0
    /\ part = 0 /\ chapter = 0 /\ section = 0
    /\ appendix = FALSE

-----------------------------------------------------------------------------
(***************************************************************************)
(* parse_pages, one action per kind of line.                               *)
(***************************************************************************)
Here == Len(kinds) + 1
NewNode == Len(nodes) + 1

Line(k) ==
    /\ Len(kinds) < MaxLines
    /\ kinds' = Append(kinds, k)
    /\ pages' = Append(pages, page)
    /\ UNCHANGED page

NewUnit(kind, a, c, ls) ==
    [kind |-> kind, at |-> Here, part |-> part, chapter |-> chapter, section |-> section,
     article |-> a, clause |-> c, lines |-> ls]

Extended(n) == [nodes EXCEPT ![n].lines = Append(@, Here)]

\* _clean_lines keeps one blank line between two others of a page.
Blank ==
    /\ kinds # <<>> /\ Last(kinds) # "blank" /\ Last(pages) = page
    /\ Line("blank")
    /\ nodes' = IF nodes[active].lines # <<>> /\ kinds[Last(nodes[active].lines)] # "blank"
                THEN Extended(active) ELSE nodes
    /\ UNCHANGED <<open, headings>>

Appendix ==
    /\ Line("appendix")
    /\ nodes' = Append(nodes, NewUnit("ARTICLE", 0, 0, <<>>))
    /\ active' = NewNode /\ article' = 0 /\ clause' = 0 /\ appendix' = TRUE
    /\ UNCHANGED headings

Part ==
    /\ ~appendix /\ Line("part")
    /\ part' = Here /\ chapter' = 0 /\ section' = 0
    /\ UNCHANGED <<nodes, open>>

\* Mutant: the section of the chapter before stays in force.
ChapterKeepsSection ==
    /\ ~appendix /\ Line("chapter")
    /\ chapter' = Here
    /\ UNCHANGED <<nodes, open, part, section>>

Chapter ==
    /\ ~appendix /\ Line("chapter")
    /\ chapter' = Here /\ section' = 0
    /\ UNCHANGED <<nodes, open, part>>

Section ==
    /\ ~appendix /\ Line("section")
    /\ section' = Here
    /\ UNCHANGED <<nodes, open, part, chapter>>

Article ==
    /\ ~appendix /\ Line("article")
    /\ nodes' = Append(nodes, NewUnit("ARTICLE", 0, 0, <<>>))
    /\ active' = NewNode /\ article' = NewNode /\ clause' = 0
    /\ UNCHANGED <<appendix, headings>>

Clause ==
    /\ ~appendix /\ article # 0 /\ Line("clause")
    /\ nodes' = Append(nodes, NewUnit("CLAUSE", article, 0, <<Here>>))
    /\ active' = NewNode /\ clause' = NewNode
    /\ UNCHANGED <<article, appendix, headings>>

\* Mutant: the text that follows a point goes to the unit it stands in.
PointStaysBehind ==
    /\ ~appendix /\ article # 0 /\ Line("point")
    /\ nodes' = Append(nodes, NewUnit("POINT", article, clause, <<Here>>))
    /\ UNCHANGED <<open, headings>>

Point ==
    /\ ~appendix /\ article # 0 /\ Line("point")
    /\ nodes' = Append(nodes, NewUnit("POINT", article, clause, <<Here>>))
    /\ active' = NewNode
    /\ UNCHANGED <<article, clause, appendix, headings>>

\* Everything else, also what would open a unit or be a heading elsewhere.
TextLine(k) ==
    /\ \/ k = "text"
       \/ appendix /\ k \in {"part", "chapter", "section", "article"}
       \/ (appendix \/ article = 0) /\ k \in {"clause", "point"}
    /\ Line(k)
    /\ nodes' = Extended(active)
    /\ UNCHANGED <<open, headings>>

\* A page never ends in a blank line.
TurnPage ==
    /\ page < MaxPages
    /\ kinds # <<>> /\ Last(kinds) # "blank"
    /\ page' = page + 1
    /\ UNCHANGED <<kinds, pages, nodes, open, headings>>

ParseNext ==
    \/ Blank \/ Appendix \/ Part \/ Chapter \/ Section \/ Article \/ Clause \/ Point
    \/ \E k \in Kind : TextLine(k)
    \/ TurnPage

Parsing == ParseInit /\ [][ParseNext]_parserVars
-----------------------------------------------------------------------------
(***************************************************************************)
(* _flatten: the chunks of what has been read, were it the whole text.     *)
(***************************************************************************)
UpTo(n) == [i \in 1..n |-> i]

\* The elements of s that are in S.
Keep(s, S) == FlattenSeq([i \in DOMAIN s |-> IF s[i] \in S THEN <<s[i]>> ELSE <<>>])

Parent(n) == IF nodes[n].clause # 0 THEN nodes[n].clause ELSE nodes[n].article
Children(n) == Keep(UpTo(Len(nodes)), {m \in DOMAIN nodes : Parent(m) = n})

LabelOf(n) == IF n = 0 THEN 0 ELSE nodes[n].at

Written == {l \in DOMAIN kinds : kinds[l] # "blank"}

IsAppendix(n) == nodes[n].kind = "ARTICLE" /\ kinds[nodes[n].at] = "appendix"

\* _append_chunk; a unit that was given no line becomes no chunk.
ChunkOf(n, type) ==
    LET u == nodes[n] IN
    IF u.lines = <<>> THEN <<>> ELSE
    << [type |-> type,
        article |-> IF type = "APPENDIX" THEN 0 ELSE
                    IF u.kind = "ARTICLE" THEN u.at ELSE LabelOf(u.article),
        clause |-> IF u.kind = "CLAUSE" THEN u.at ELSE LabelOf(u.clause),
        point |-> IF u.kind = "POINT" THEN u.at ELSE 0,
        part |-> u.part, chapter |-> u.chapter, section |-> u.section,
        from |-> Min({pages[l] : l \in ToSet(u.lines)}),
        to |-> Max({pages[l] : l \in ToSet(u.lines)}),
        lines |-> Keep(u.lines, Written)] >>

ClauseChunks(n) ==
    IF nodes[n].kind = "POINT" THEN ChunkOf(n, "POINT")
    ELSE IF Children(n) = <<>> THEN ChunkOf(n, "CLAUSE")
    ELSE ChunkOf(n, "CLAUSE_INTRO") \o
         FlattenSeq([i \in DOMAIN Children(n) |-> ChunkOf(Children(n)[i], "POINT")])

\* Mutant: an article with clauses is taken for the sum of its clauses.
RootWithoutIntro(n) ==
    IF nodes[n].kind = "PREAMBLE" THEN ChunkOf(n, "PREAMBLE")
    ELSE IF IsAppendix(n) THEN ChunkOf(n, "APPENDIX")
    ELSE IF Children(n) = <<>> THEN ChunkOf(n, "ARTICLE")
    ELSE FlattenSeq([i \in DOMAIN Children(n) |-> ClauseChunks(Children(n)[i])])

RootChunks(n) ==
    IF nodes[n].kind = "PREAMBLE" THEN ChunkOf(n, "PREAMBLE")
    ELSE IF IsAppendix(n) THEN ChunkOf(n, "APPENDIX")
    ELSE IF Children(n) = <<>> THEN ChunkOf(n, "ARTICLE")
    ELSE ChunkOf(n, "ARTICLE_INTRO") \o
         FlattenSeq([i \in DOMAIN Children(n) |-> ClauseChunks(Children(n)[i])])

Roots == Keep(UpTo(Len(nodes)), {n \in DOMAIN nodes : nodes[n].kind \in {"PREAMBLE", "ARTICLE"}})

Chunks == FlattenSeq([i \in DOMAIN Roots |-> RootChunks(Roots[i])])
-----------------------------------------------------------------------------
(***************************************************************************)
(* Properties.  They are stated on the lines alone, without the parser's   *)
(* state: which lines open what, and what lies above a line.               *)
(***************************************************************************)
\* The parser's state stays within the fields the code gives it.
ParserTypeOK ==
    /\ kinds \in Seq(Kind) /\ Len(kinds) <= MaxLines
    /\ pages \in Seq(1..MaxPages) /\ Len(pages) = Len(kinds)
    /\ page \in 1..MaxPages
    /\ nodes \in Seq(Unit)
    /\ active \in DOMAIN nodes
    /\ {article, clause} \subseteq {0} \cup DOMAIN nodes
    /\ {part, chapter, section} \subseteq 0..Len(kinds)
    /\ appendix \in BOOLEAN

InAppendix(i) == \E j \in 1..(i - 1) : kinds[j] = "appendix"
InArticle(i) == \E j \in 1..(i - 1) : kinds[j] = "article"

IsHeading(i) == kinds[i] \in {"part", "chapter", "section"} /\ ~InAppendix(i)
Opens(i) ==
    \/ kinds[i] = "appendix"
    \/ ~InAppendix(i) /\ kinds[i] = "article"
    \/ ~InAppendix(i) /\ kinds[i] \in {"clause", "point"} /\ InArticle(i)

\* The lines that are text of some unit: no heading, no title of an article.
BodyLines ==
    {i \in DOMAIN kinds : /\ kinds[i] # "blank" /\ ~IsHeading(i)
                          /\ ~(Opens(i) /\ kinds[i] \in {"appendix", "article"})}

\* The last line of kind k that opens something or is a heading, from line
\* i back to line above, which is excluded.
LastAbove(k, i, above) ==
    LET S == {j \in (above + 1)..i : kinds[j] = k /\ (Opens(j) \/ IsHeading(j))}
    IN  IF S = {} THEN 0 ELSE Max(S)

\* A law is quoted by its chunks: every line of its text is in exactly one of
\* them, and one after the other they are the text in its order.
TextIsKept ==
    LET chunks == Chunks IN
    FlattenSeq([i \in DOMAIN chunks |-> chunks[i].lines])
        = Keep(UpTo(Len(kinds)), BodyLines)

\* A chunk is cited by article, clause and point under part, chapter and
\* section: for each of its lines these are the ones the line stands under.
\* Headings count from where the unit begins; a heading below it only takes
\* effect with the next unit.
UnitsUnderTheirHeadings ==
    \A c \in ToSet(Chunks) : \A l \in ToSet(c.lines) :
        LET start == Max({0} \cup {j \in 1..l : Opens(j)})
            inAppendix == LastAbove("appendix", l, 0) # 0
            a == IF inAppendix THEN 0 ELSE LastAbove("article", l, 0)
            k == IF a = 0 THEN 0 ELSE LastAbove("clause", l, a)
            p == IF a = 0 THEN 0 ELSE LastAbove("point", l, Max({a, k}))
            pt == LastAbove("part", start, 0)
            ch == LastAbove("chapter", start, pt)
        IN  /\ c.article = a /\ c.clause = k /\ c.point = p
            /\ c.part = pt /\ c.chapter = ch
            /\ c.section = LastAbove("section", start, Max({pt, ch}))
            /\ c.type = "APPENDIX" <=> inAppendix

\* The pages a chunk is cited with begin where its text begins and never
\* reach past the first page of the next chunk, although a blank line below a
\* heading on a later page still goes to the unit before.
PagesInOrder ==
    LET chunks == Chunks IN
    \A i \in DOMAIN chunks :
        /\ chunks[i].from = pages[Head(chunks[i].lines)]
        /\ i > 1 => chunks[i - 1].to <= chunks[i].from
=============================================================================
