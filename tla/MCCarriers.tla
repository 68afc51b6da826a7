----------------------------- MODULE MCCarriers -----------------------------
(***************************************************************************)
(* Files that carry their metadata themselves: every text of up to Tallest *)
(* lines, each in a file type that writes it in a comment or as Markdown.  *)
(***************************************************************************)
EXTENDS CommentCarrier, FrontMatter, TLC

CONSTANTS Tallest, Markdown

VARIABLES
    type,       \* the file's type: StrategySpec, or Markdown
    draft       \* its lines

carrierVars == <<type, draft>>

-----------------------------------------------------------------------------
(* Comments: the delimiters of a language, those it once had, its prologue *)
(* and the lines that matter to it.  The second line of the metadata would *)
(* pass for a cookie.                                                      *)

IdAndCookie == <<"meta", "cookie">>

Form(open, close, line, inside) ==
    [open |-> open, close |-> close, line |-> line, inside |-> inside]
Hash  == Form("# open", "# close", TRUE,
              ToSet(Header) \cup {"# open", "# close", "remark", "shebang", "directive"})
Slash == Form("// open", "// close", TRUE, ToSet(Header) \cup {"// open", "// close", "remark"})
Star  == Form("/* open", "close */", FALSE, {})

FileType(prologue, forms, leads, others) ==
    [prologue |-> prologue, forms |-> forms, leads |-> leads \cup {"shebang"},
     others |-> others \cup {"code"}]
CommentTypes ==
    {FileType("encoding-cookie", <<Hash>>, {"cookie", "remark"}, {"# open", "# close", "blank"}),
     FileType("dockerfile-directives", <<Hash>>, {"directive"}, {"# open", "# close", "remark"}),
     FileType("php-open-tag", <<Slash>>, {"php"}, {"// open", "// close", "remark"}),
     FileType("xml-declaration", <<Star>>, {"xml", "xml opens", "?>"},
              {"xml and more", "/* open", "close */"}),
     FileType("css-charset", <<Star>>, {"charset"}, {"charset and more", "/* open", "close */"}),
     FileType("none", <<Slash, Hash>>, {}, {"// open", "// close", "# open", "# close", "remark"}),
     FileType("none", <<Slash, Star>>, {}, {"// open", "// close", "/* open", "close */"})}

CommentLines(t) ==
    {Line(s, <<"lf">>) : s \in t.leads \cup t.others}
    \cup {Line(s, <<"cr", "lf">>) : s \in t.leads}
    \cup {Line(s, <<"cr", "cr", "lf">>) : s \in t.leads \ {"?>", "xml opens"}}

\* With its last line as it is, without an end, and with half a CRLF.
CommentTexts ==
    {draft} \cup
        IF draft = <<>> \/ Last(draft).says = "blank" THEN {}
        ELSE {[draft EXCEPT ![Len(draft)].ends = ends] : ends \in {<<>>, <<"cr">>}}

-----------------------------------------------------------------------------
(* Markdown: one key in every form, and another beside it.                 *)

TwoFields == <<"k", "j">>
FieldLine(says, key, value, note) ==
    [says |-> says, key |-> key, value |-> value, note |-> note, ends |-> "lf"]
MarkdownLines ==
    {Plain(s, "lf") : s \in {"fence", "skewed", "blank", "remark", "indented remark", "nested",
                             "odd"}}
    \cup {Plain(s, "crlf") : s \in {"fence", "blank"}}
    \cup {FieldLine("item", "", Scalar("a"), ""),
          FieldLine("list", "k", Silence, "#"), FieldLine("list", "j", Silence, ""),
          FieldLine("scalar", "k", Scalar("a"), "#"), FieldLine("scalar", "j", Scalar("b"), ""),
          FieldLine("opaque", "k", Scalar("b"), ""),
          FieldLine("inline", "k", List(<<"a", "b">>), "")}

\* "R &D" reads back nowhere, "c:\\" only in a line of its own.
Plainly    == {"a", "b"}
OnTheirOwn == Plainly \cup {"c:\\"}
Managed ==
    {<<>>, "k" :> Scalar("b"), "k" :> List(<<"b">>), "k" :> Silence,
     "k" :> Scalar("a") @@ "j" :> List(<<"a", "b">>),
     "k" :> List(<<"b", "c:\\">>), "j" :> Scalar("R &D")}

\* As a header before some prose; while it is short, also as it is, without an end,
\* and as a header that is not closed.
MarkdownTexts ==
    LET fence   == <<Plain("fence", "lf")>>
        endings ==
            {draft} \cup
                IF draft = <<>> \/ Last(draft).says = "blank" THEN {}
                ELSE {[draft EXCEPT ![Len(draft)].ends = ""]}
    IN  {fence \o draft \o fence \o <<Plain("prose", "")>>}
            \cup IF Len(draft) = Tallest THEN {} ELSE endings \cup {fence \o e : e \in endings}

-----------------------------------------------------------------------------
CarrierInit == type \in CommentTypes \cup {Markdown} /\ draft = <<>>

\* Whatever follows a line no header may hold, or code at the start, changes nothing.
Settled ==
    /\ draft # <<>>
    /\ IF type = Markdown THEN Last(draft).says \in {"skewed", "odd", "nested"}
                          ELSE draft[1].says = "code"

CarrierNext ==
    /\ Len(draft) < Tallest /\ ~Settled
    /\ \E line \in IF type = Markdown THEN MarkdownLines ELSE CommentLines(type) :
          draft' = Append(draft, line)
    /\ UNCHANGED type

CarrierSpec == CarrierInit /\ [][CarrierNext]_carrierVars

\* Whatever carries metadata gives it back, and the rest of the file with it.
CarriersAgree ==
    IF type = Markdown
    THEN \A text \in MarkdownTexts, fields \in Managed : PatchesAreExact(text, fields)
    ELSE \A text \in CommentTexts : CarriersRoundTrip(text, type)
=============================================================================
