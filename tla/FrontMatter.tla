---------------------------- MODULE FrontMatter ----------------------------
(***************************************************************************)
(* The YAML front matter of a Markdown file, read and patched in place     *)
(* (frontmatter_patch.ts): managed fields are set, and every other byte of *)
(* the header and of the body stays.  What the patcher cannot be sure of   *)
(* it refuses.                                                             *)
(*                                                                         *)
(* A document is its lines.  A line says "fence", "skewed" (almost one),   *)
(* "blank", "remark", "indented remark", "item" (of a block list), "nested"*)
(* (indented otherwise, or an item that is no plain scalar), "odd" (what no*)
(* header may hold: tabs, other keys, directives, values too rich) or      *)
(* "prose"; or it is a field whose value stands in the line ("scalar",     *)
(* "inline" list, "opaque" text) or in the lines below ("list").  A value  *)
(* is the sequence of its items, one if it is no list.  An item is what it *)
(* reads as: a number printed with an exponent is the text that is printed.*)
(***************************************************************************)
EXTENDS Naturals, Sequences, SequencesExt, FiniteSets, FiniteSetsExt

Scalar(v) == [list |-> FALSE, of |-> <<v>>]
List(vs)  == [list |-> TRUE, of |-> vs]
Silence   == List(<<>>)

Plain(says, ends) == [says |-> says, key |-> "", value |-> Silence, note |-> "", ends |-> ends]
Valued == {"scalar", "inline", "opaque"}
Keyed  == Valued \cup {"list"}
Below  == {"blank", "indented remark", "item", "nested"}

FirstNewline(lines) ==
    IF lines # <<>> /\ lines[1].ends # "" THEN lines[1].ends ELSE "lf"

-----------------------------------------------------------------------------
(* inspectFrontMatterDocument                                              *)

Fences(lines, after) == {n \in DOMAIN lines : n > after /\ lines[n].says = "fence"}
HasHeader(lines) == lines # <<>> /\ lines[1].says = "fence"
Closing(lines)   == Min(Fences(lines, 1))
Inner(lines)     == IF HasHeader(lines) THEN 2 .. Closing(lines) - 1 ELSE {}
Body(lines) ==
    IF HasHeader(lines) THEN SubSeq(lines, Closing(lines) + 1, Len(lines)) ELSE lines

LooksLikeDuplicateBlock(rest) ==
    LET said == {n \in DOMAIN rest : rest[n].says # "blank"}
        n    == Min(said)
    IN  said # {} /\ rest[n].says = "fence" /\ \E m \in Fences(rest, n) : m <= n + 200

Newlines(lines) == {lines[n].ends : n \in 1 .. Closing(lines)} \ {""}

\* The lines below a field that are its own, whatever they say.
Under(lines, n) ==
    {m \in Inner(lines) :
        m > n /\ lines[n].says = "list" /\ \A i \in n + 1 .. m : lines[i].says \in Below}
Items(lines, n) == {m \in Under(lines, n) : lines[m].says = "item"}

\* collectSequenceItems and readSequenceField: a list of scalars, without a gap.
ReadsAsList(lines, n) ==
    /\ Items(lines, n) # {}
    /\ \A m \in Under(lines, n) : lines[m].says # "nested"
    /\ \A m \in Min(Items(lines, n)) .. Max(Items(lines, n)) : m \in Items(lines, n)

ReadsAsFields(lines) ==
    LET fields == {n \in Inner(lines) : lines[n].says \in Keyed}
    IN  /\ \A n \in Inner(lines) :
              /\ lines[n].says \notin {"odd", "prose", "skewed"}
              /\ lines[n].says \in {"item", "nested"} => \E f \in fields : n \in Under(lines, f)
        /\ \A f \in fields : lines[f].says = "list" => ReadsAsList(lines, f)
        /\ \A f, g \in fields : lines[f].key = lines[g].key => f = g

Safe(lines) ==
    /\ lines # <<>> => lines[1].says # "skewed"
    /\ HasHeader(lines) =>
          /\ lines[1].ends # "" /\ Fences(lines, 1) # {}
          /\ Cardinality(Newlines(lines)) = 1
          /\ ~LooksLikeDuplicateBlock(Body(lines))
          /\ ReadsAsFields(lines)

FieldAt(lines, key) == {n \in Inner(lines) : lines[n].says \in Keyed /\ lines[n].key = key}

\* frontMatterReconciliationView, for one key: opaque text as it stands, a list from
\* its first item on.
ViewOf(lines, n) ==
    LET items == Items(lines, n)
    IN  IF lines[n].says # "list" THEN lines[n].value
        ELSE List([i \in 1 .. Cardinality(items) |-> lines[Min(items) + i - 1].value.of[1]])

-----------------------------------------------------------------------------
(* patchManagedFrontMatter, with the managed fields as a function; those a *)
(* header misses are added in the order of the record, here of KeyOrder.   *)

CONSTANTS
    KeyOrder,
    Legible,          \* items whose rendering reads back, in a line of their own
    LegibleInline     \* and between brackets

Rendered(line, value) ==
    IF line.says = "opaque" /\ value = line.value THEN line
    ELSE [line EXCEPT !.value = value, !.says = IF value.list THEN "inline" ELSE "scalar"]

NewField(key, value, newline) ==
    Rendered([Plain("scalar", newline) EXCEPT !.key = key], value)
NewFields(keys, managed, newline) ==
    FlattenSeq([i \in DOMAIN KeyOrder |->
        IF KeyOrder[i] \in keys
        THEN <<NewField(KeyOrder[i], managed[KeyOrder[i]], newline)>> ELSE <<>>])

\* A list keeps its form: its items are replaced, and what stands in front of them
\* and behind them stays.
NewItems(value, newline) ==
    [i \in DOMAIN value.of |->
        [Plain("item", newline) EXCEPT !.value = Scalar(value.of[i])]]

Mutant_ItemsOnly(lines, managed, n, newline) ==
    LET line   == lines[n]
        lists  == {f \in Inner(lines) : lines[f].says = "list" /\ lines[f].key \in DOMAIN managed
                                        /\ n \in Under(lines, f)}
        f      == CHOOSE g \in lists : TRUE
    IN  IF line.says \in Valued /\ line.key \in DOMAIN managed
        THEN <<Rendered(line, managed[line.key])>>
        ELSE IF lists = {} THEN <<line>>
        ELSE IF n = f + 1 THEN NewItems(managed[lines[f].key], newline) ELSE <<>>

Becomes(lines, managed, n, newline) ==
    LET line   == lines[n]
        lists  == {f \in Inner(lines) : lines[f].says = "list" /\ lines[f].key \in DOMAIN managed
                                        /\ n \in Items(lines, f)}
        f      == CHOOSE g \in lists : TRUE
    IN  IF line.says \in Valued /\ line.key \in DOMAIN managed
        THEN <<Rendered(line, managed[line.key])>>
        ELSE IF lists = {} THEN <<line>>
        ELSE IF n = Min(Items(lines, f)) THEN NewItems(managed[lines[f].key], newline) ELSE <<>>

Missing(lines, managed) == {k \in DOMAIN managed : FieldAt(lines, k) = {}}

Patched(lines, managed) ==
    LET newline == IF HasHeader(lines) THEN CHOOSE e \in Newlines(lines) : TRUE
                                       ELSE FirstNewline(lines)
        close   == Closing(lines)
        kept    == FlattenSeq([i \in 1 .. close - 2 |-> Becomes(lines, managed, i + 1, newline)])
        added   == NewFields(Missing(lines, managed), managed, newline)
        fence   == <<Plain("fence", newline)>>
    IN  IF HasHeader(lines)
        THEN <<lines[1]>> \o kept \o added \o SubSeq(lines, close, Len(lines))
        ELSE IF managed = <<>> THEN lines
        ELSE fence \o added \o fence \o lines

\* A block list must stay a list.
KeepsForms(lines, managed) ==
    \A k \in DOMAIN managed : \A n \in FieldAt(lines, k) :
        lines[n].says = "list" => managed[k].list

\* Each item must render and parse again: one that is no single line of text renders not
\* at all, and an ampersand before a word is taken for an anchor, quoted or not.  A list
\* that is not written below its field stands between brackets, where a backslash at
\* the end of an item hides the quote behind it.  (An opaque value that stays as it is
\* reads back as well: it holds no quote, anchor or bracket.)
ReadsBack(lines, managed) ==
    \A k \in DOMAIN managed :
        LET below == \E n \in FieldAt(lines, k) : lines[n].says = "list"
        IN  ToSet(managed[k].of) \subseteq
                IF managed[k].list /\ ~below THEN LegibleInline ELSE Legible

\* What is written must read as safe again, with the same body; otherwise nothing is
\* written at all.
Patchable(lines, managed) ==
    /\ Safe(lines) /\ KeepsForms(lines, managed)
    /\ ReadsBack(lines, managed) /\ Safe(Patched(lines, managed))
    /\ Body(Patched(lines, managed)) = Body(lines)

-----------------------------------------------------------------------------
\* What is not managed: the header's other lines, in order, and what stands behind
\* and around the managed values.
Others(lines, managed) ==
    LET theirs(n) ==
            \/ lines[n].says \in Valued /\ lines[n].key \in DOMAIN managed
            \/ \E k \in DOMAIN managed : \E f \in FieldAt(lines, k) : n \in Items(lines, f)
    IN  FlattenSeq([n \in DOMAIN lines |->
            IF n \in Inner(lines) /\ ~theirs(n) THEN <<lines[n]>> ELSE <<>>])

\* Patching sets what is managed, keeps every other line of the header and the notes
\* behind the values, settles at once, and refuses a header that it can read only
\* where a value would not read back, where a list would become empty or a scalar, or
\* where the new header would stand in front of what looks like another.
PatchIsExact(lines, managed, after) ==
    /\ \A k \in DOMAIN managed : \E n \in FieldAt(after, k) : ViewOf(after, n) = managed[k]
    /\ Others(lines, managed) = Others(after, managed)
    /\ \A k \in DOMAIN managed : \A n \in FieldAt(lines, k) :
          \E m \in FieldAt(after, k) : after[m].note = lines[n].note
    /\ Patchable(after, managed) /\ Patched(after, managed) = after

PatchesAreExact(lines, managed) ==
    LET emptied == \E k \in DOMAIN managed : \E n \in FieldAt(lines, k) :
                      lines[n].says = "list" /\ managed[k] = Silence
        doubled == ~HasHeader(lines) /\ LooksLikeDuplicateBlock(lines)
    IN  IF Patchable(lines, managed)
        THEN PatchIsExact(lines, managed, Patched(lines, managed))
        ELSE Safe(lines) /\ KeepsForms(lines, managed) /\ ReadsBack(lines, managed)
                => emptied \/ doubled
=============================================================================
