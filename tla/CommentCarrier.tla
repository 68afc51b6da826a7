--------------------------- MODULE CommentCarrier ---------------------------
(***************************************************************************)
(* Where the metadata block goes in a file that carries it in a comment,   *)
(* and how it is found again (comment.ts, and the comment branch of        *)
(* inject.ts).  Behind a byte order mark and whatever must stay first; in  *)
(* front of everything else, as an earlier version wrote it, when found.   *)
(*                                                                         *)
(* A text is its lines; a mark stays in front of them and moves nothing.  A*)
(* line is what it says, as far as any rule asks, and the carriage returns *)
(* and the line feed that end it: only the last may lack the line feed, and*)
(* a carriage return in front of CRLF is content.                          *)
(***************************************************************************)
EXTENDS Naturals, Sequences, SequencesExt, FiniteSets, FiniteSetsExt

CONSTANTS
    Header,     \* what the lines of the metadata say
    Nowhere     \* no position, no block

ASSUME NowhereAssumption ==
    Nowhere \notin Nat /\ Nowhere \notin [from : Nat, to : Nat]

Line(says, ends)  == [says |-> says, ends |-> ends]
Terminated(line)  == line.ends # <<>> /\ Last(line.ends) = "lf"
Exact(line)       == line.ends \in {<<>>, <<"lf">>, <<"cr", "lf">>}
Says(lines, n)    == IF n \in DOMAIN lines THEN lines[n].says ELSE "end"

\* detectNewlineConvention: as the first line ends.
Newline(lines) ==
    IF lines # <<>> /\ Terminated(lines[1]) /\ Len(lines[1].ends) > 1
    THEN <<"cr", "lf">> ELSE <<"lf">>

-----------------------------------------------------------------------------
(* The carrier position: how many lines must stay in front, if that is all *)
(* right; a file type's prologue is what it lets stand there.              *)

Shebang(lines) == IF Says(lines, 1) = "shebang" THEN 1 ELSE 0

\* PEP 263: in the first line, or in the second if the first is a comment or blank.
BehindCookie(lines, comments) ==
    LET n == Shebang(lines)
    IN  IF Says(lines, n + 1) = "cookie" THEN n + 1
        ELSE IF /\ n = 0 /\ Says(lines, 2) = "cookie"
                /\ lines[1].says \in comments \cup {"blank"} /\ Exact(lines[1])
             THEN 2
             ELSE n

BehindPhpTag(lines) ==
    LET n == Shebang(lines) + 1
    IN  IF Says(lines, n) = "php" /\ Exact(lines[n]) THEN n ELSE Nowhere

\* A declaration at the very start, on to the first `?>`, which ends its line.
BehindXmlDeclaration(lines) ==
    LET closing == {n \in DOMAIN lines : lines[n].says \in {"xml", "?>", "xml and more"}}
        n == Min(closing)
    IN  IF Says(lines, 1) \notin {"xml", "xml opens", "xml and more"} THEN Shebang(lines)
        ELSE IF closing = {} \/ lines[n].says = "xml and more" \/ ~Exact(lines[n]) THEN Nowhere
        ELSE n

BehindCharset(lines) ==
    IF Says(lines, 1) \notin {"charset", "charset and more"} THEN Shebang(lines)
    ELSE IF lines[1].says = "charset" /\ Exact(lines[1]) THEN 1 ELSE Nowhere

BehindDirectives(lines) ==
    LET n == Shebang(lines)
    IN  Max({n} \cup {m \in DOMAIN lines : \A i \in n + 1 .. m : lines[i].says = "directive"})

CarrierPosition(lines, spec) ==
    CASE spec.prologue = "encoding-cookie"       -> BehindCookie(lines, spec.forms[1].inside)
      [] spec.prologue = "php-open-tag"          -> BehindPhpTag(lines)
      [] spec.prologue = "xml-declaration"       -> BehindXmlDeclaration(lines)
      [] spec.prologue = "css-charset"           -> BehindCharset(lines)
      [] spec.prologue = "dockerfile-directives" -> BehindDirectives(lines)
      [] spec.prologue = "none"                  -> Shebang(lines)

-----------------------------------------------------------------------------
(* The block at the head of a text.                                        *)

\* blockAt: the block that starts behind n lines, by its last line.  In a line
\* comment every line is one; a block comment goes on until it is closed.
BlockEnd(lines, n, form) ==
    LET closes == {m \in n + 2 .. Len(lines) :
                      /\ lines[m].says = form.close
                      /\ \A i \in n + 2 .. m - 1 : form.line => lines[i].says \in form.inside}
    IN  IF Says(lines, n + 1) = form.open /\ Terminated(lines[n + 1]) /\ closes # {}
        THEN Min(closes) ELSE Nowhere

\* Behind the prologue first and then at the very start; as it is written now
\* first and then as it once was.
FindHeadBlock(lines, spec) ==
    LET p == CarrierPosition(lines, spec)
        Spans(start) == [k \in DOMAIN spec.forms |->
                            [from |-> start, to |-> BlockEnd(lines, start, spec.forms[k])]]
        behind == IF p # Nowhere /\ p > 0 /\ Terminated(lines[p]) THEN Spans(p) ELSE <<>>
        spans  == behind \o Spans(0)
        hits   == {n \in DOMAIN spans : spans[n].to # Nowhere}
    IN  IF hits = {} THEN Nowhere ELSE spans[Min(hits)]

\* A block that ends a text without a line feed stands behind a prologue that had
\* none: what was supplied, in the convention of the rest, goes with it.
Mutant_OneCharacter(lines) == [lines EXCEPT ![Len(lines)].ends = Front(@)]

Unsupplied(lines) ==
    LET ends == Last(lines).ends
        crlf == Len(ends) > 1 /\ Len(lines) > 1 /\ Newline(lines) = <<"cr", "lf">>
    IN  [lines EXCEPT ![Len(lines)].ends = SubSeq(ends, 1, Len(ends) - (IF crlf THEN 2 ELSE 1))]

Without(lines, head) ==
    LET before == SubSeq(lines, 1, head.from)
    IN  IF head = Nowhere THEN lines
        ELSE IF head.from > 0 /\ head.to = Len(lines) /\ ~Terminated(lines[head.to])
             THEN Unsupplied(before)
             ELSE before \o SubSeq(lines, head.to + 1, Len(lines))

StripInjectedBlock(lines, spec) == Without(lines, FindHeadBlock(lines, spec))

ExtractInjected(lines, spec) ==
    LET head == FindHeadBlock(lines, spec)
    IN  [n \in 1 .. head.to - head.from - 2 |-> lines[head.from + 1 + n].says]

-----------------------------------------------------------------------------
(* Writing it.                                                             *)

\* yamlToBlock, the end of the last line left open.
Block(form, newline) ==
    <<Line(form.open, newline)>> \o [n \in DOMAIN Header |-> Line(Header[n], newline)]
        \o <<Line(form.close, <<>>)>>

EndedWith(lines, newline) == [lines EXCEPT ![Len(lines)].ends = @ \o newline]

ApplyCommentInjection(clean, spec) ==
    LET p       == CarrierPosition(clean, spec)
        newline == Newline(clean)
        block   == Block(spec.forms[1], newline)
    IN  IF p > 0 /\ ~Terminated(clean[p])
        THEN EndedWith(clean, newline) \o block
        ELSE SubSeq(clean, 1, p) \o EndedWith(block, newline) \o SubSeq(clean, p + 1, Len(clean))

\* withCarrierPosition: is the file one that can carry its block at all?  Judged by
\* what it is without one.
CarriesItself(lines, spec) ==
    CarrierPosition(StripInjectedBlock(lines, spec), spec) # Nowhere

-----------------------------------------------------------------------------
(* What a host makes of the start of a file, from the languages' own rules:*)
(* the lines that mean something only because of where they stand.         *)

Counts(lines, m, spec) ==
    LET says    == lines[m].says
        comment == spec.forms[1].inside \cup {"blank", "shebang"}
        leads   == {n \in 1 .. m : lines[n].says = "directive" \/ Shebang(lines) = n}
    IN  \/ says \in {"shebang", "xml", "xml opens", "charset", "php"} /\ m = 1
        \/ says = "php" /\ m = 2 /\ Shebang(lines) = 1
        \/ says = "cookie" /\ spec.prologue = "encoding-cookie" /\ m = 1
        \/ says = "cookie" /\ spec.prologue = "encoding-cookie" /\ m = 2
                          /\ lines[1].says \in comment \ {"cookie"} /\ Exact(lines[1])
        \/ says = "directive" /\ leads = 1 .. m

HostReads(lines, spec) == {lines[m].says : m \in {n \in DOMAIN lines : Counts(lines, n, spec)}}

\* docs/decisions/057: "strip(inject(x)) === x holds for every prologue, BOM, CRLF
\* and no-terminator case".  What is written can be taken out again to the byte and
\* read back, whatever the host looks for at the start of the file it still finds,
\* and a block an earlier version put in front of everything is taken out, too.
RoundTrips(clean, written, spec) ==
    /\ StripInjectedBlock(written, spec) = clean
    /\ ExtractInjected(written, spec) = Header
    /\ HostReads(written, spec) = HostReads(clean, spec)
    /\ Shebang(clean) = 0 =>
          \A k \in DOMAIN spec.forms :
              LET old == EndedWith(Block(spec.forms[k], Newline(clean)), Newline(clean))
              IN  StripInjectedBlock(old \o clean, spec) = clean

CarriersRoundTrip(lines, spec) ==
    CarriesItself(lines, spec) =>
        \A clean \in {StripInjectedBlock(lines, spec)} :
            RoundTrips(clean, ApplyCommentInjection(clean, spec), spec)
=============================================================================
