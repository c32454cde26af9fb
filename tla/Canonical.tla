----------------------------- MODULE Canonical -----------------------------
(***************************************************************************)
(* Canonical JSON (canonical.py): what is signed and digested, what is     *)
(* written to a file, and what a file decodes to that other programs have  *)
(* reformatted in between.                                                 *)
(*                                                                         *)
(* A text is JSON source as a tree: <<"number", literal>>,                 *)
(* <<"string", s>>, <<"array", texts>> and <<"object", members>>, where a  *)
(* member <<name, escaped, text>> keeps its place, may be there twice, and *)
(* may spell its name with \u escapes.  A value is what Python makes of    *)
(* it: <<"int", n>>, <<"float", literal>>, <<"str", s>>, <<"list", values>>*)
(* and <<"dict", items>>, the items <<name, value>> in the order they were *)
(* inserted.  true, false and null need no rule of their own.              *)
(***************************************************************************)
EXTENDS Errors, Integers, SequencesExt

CONSTANTS
    MAX_BYTES, MAX_INTEGER, MAX_DEPTH,
    NameOrder,          \* all strings, in the order of their characters
    Printable,          \* those of characters 32 to 126
    integer,            \* the integer literals and what int() makes of them
    literal,            \* the decimal literal of an integer
    alias,              \* other literals for the number of a literal
    Value,              \* the values that are written
    MaxPadding,         \* bound: white space others put around the tokens
    MaxRewritings       \* bound: changes of a text between two write()s

first_code(codes) == FoldLeft(LAMBDA first, next : first ?? next, OK, codes)

magnitude(n) == IF n < 0 THEN -n ELSE n

(* canonical._check                                                        *)
RECURSIVE check(_, _)
check(value, depth) ==
    require(depth <= MAX_DEPTH, "CANONICAL_DEPTH")
    ?? CASE value[1] = "int" ->
                require(magnitude(value[2]) <= MAX_INTEGER, "CANONICAL_INTEGER")
         [] value[1] = "str" ->
                require(value[2] \in Printable, "CANONICAL_STRING")
         [] value[1] = "list" ->
                first_code([i \in DOMAIN value[2] |->
                               check(value[2][i], depth + 1)])
         [] value[1] = "dict" ->
                first_code([i \in DOMAIN value[2] |->
                               check(<<"str", value[2][i][1]>>, depth + 1)
                               ?? check(value[2][i][2], depth + 1)])
         [] OTHER -> "CANONICAL_TYPE"

(* sort_keys=True                                                          *)
sorted(items) ==
    SortSeq(items, LAMBDA a, b : \E i, j \in DOMAIN NameOrder :
                       i < j /\ a[1] = NameOrder[i] /\ b[1] = NameOrder[j])

(* json.dumps                                                              *)
RECURSIVE dumps(_)
dumps(value) ==
    CASE value[1] = "int"  -> <<"number", literal[value[2]]>>
      [] value[1] = "str"  -> <<"string", value[2]>>
      [] value[1] = "list" ->
             <<"array", [i \in DOMAIN value[2] |-> dumps(value[2][i])]>>
      [] value[1] = "dict" ->
             LET items == sorted(value[2])
             IN  <<"object", [i \in DOMAIN items |->
                     <<items[i][1], FALSE, dumps(items[i][2])>>]>>

(* The bytes of a text without white space.                                *)
RECURSIVE length(_)
length(text) ==
    LET name(m)    == Len(m[1]) * (IF m[2] THEN 6 ELSE 1) + 3
        commas(s)  == IF s = <<>> THEN 0 ELSE Len(s) - 1
        total(f)   == FoldLeft(+, 0, f)
    IN  CASE text[1] = "number" -> Len(text[2])
          [] text[1] = "string" -> Len(text[2]) + 2
          [] text[1] = "array"  ->
                 2 + commas(text[2])
                 + total([i \in DOMAIN text[2] |-> length(text[2][i])])
          [] text[1] = "object" ->
                 2 + commas(text[2])
                 + total([i \in DOMAIN text[2] |->
                             name(text[2][i]) + length(text[2][i][3])])

(* canonical.canonical: the text of a value, when this is OK.              *)
canonical(value) ==
    check(value, 0)
    ?? require(length(dumps(value)) <= MAX_BYTES, "DOCUMENT_TOO_LARGE")

-----------------------------------------------------------------------------
(* Mutant: the last member of a name counts.                               *)
pairs_last_wins(members) == OK

(* canonical._pairs: names are compared after decoding.                    *)
pairs(members) ==
    require(\A i, j \in DOMAIN members :
                i # j => members[i][1] # members[j][1],
            "DUPLICATE_JSON_KEY")

(* canonical._integer and _reject_number                                   *)
number(lit) ==
    require(lit \in DOMAIN integer, "CANONICAL_NUMBER")
    ?? require(lit # "-0", "CANONICAL_INTEGER")

(* The hooks of json.loads.                                                *)
RECURSIVE hooks(_)
hooks(text) ==
    CASE text[1] = "number" -> number(text[2])
      [] text[1] = "string" -> OK
      [] text[1] = "array"  ->
             first_code([i \in DOMAIN text[2] |-> hooks(text[2][i])])
      [] text[1] = "object" ->
             first_code([i \in DOMAIN text[2] |-> hooks(text[2][i][3])])
             ?? pairs(text[2])

(* A dict takes the last of two members of one name, in the first's place. *)
as_dict(items) ==
    FoldLeft(LAMBDA dict, item :
                 IF \E i \in DOMAIN dict : dict[i][1] = item[1]
                 THEN [i \in DOMAIN dict |->
                          IF dict[i][1] = item[1] THEN item ELSE dict[i]]
                 ELSE Append(dict, item),
             <<>>, items)

(* What json.loads returns.                                                *)
RECURSIVE loads(_)
loads(text) ==
    CASE text[1] = "number" -> IF text[2] \in DOMAIN integer
                               THEN <<"int", integer[text[2]]>>
                               ELSE <<"float", text[2]>>
      [] text[1] = "string" -> <<"str", text[2]>>
      [] text[1] = "array"  ->
             <<"list", [i \in DOMAIN text[2] |-> loads(text[2][i])]>>
      [] text[1] = "object" ->
             <<"dict", as_dict([i \in DOMAIN text[2] |->
                           <<text[2][i][1], loads(text[2][i][3])>>])>>

(* Mutant: a file must stay below the limit.                               *)
decode_below(text, padding) ==
    require(length(text) + padding < MAX_BYTES, "DOCUMENT_TOO_LARGE")
    ?? hooks(text)
    ?? check(loads(text), 0)

(* canonical.decode of a text with some white space in it: the value is    *)
(* loads(text) when this is OK.                                            *)
decode(text, padding) ==
    require(length(text) + padding <= MAX_BYTES, "DOCUMENT_TOO_LARGE")
    ?? hooks(text)
    ?? check(loads(text), 0)

-----------------------------------------------------------------------------
VARIABLES
    written,        \* the value that write() was called with
    text, padding,  \* the bytes of the file
    rewritten       \* how often the text was changed since a write()

vars == <<written, text, padding, rewritten>>

(* canonical.write: the canonical bytes and a newline.                     *)
Init ==
    /\ written \in Value
    /\ canonical(written) = OK
    /\ text = dumps(written)
    /\ padding = 1
    /\ rewritten = 0

(* What other programs may make of a text in one step, anywhere in it:     *)
(* another literal for a number, another order of the members, another     *)
(* spelling of a name, or a second member of the same name.                *)
RECURSIVE rewritings(_)
rewritings(t) ==
    CASE t[1] = "number" -> {<<"number", lit>> : lit \in alias[t[2]]}
      [] t[1] = "string" -> {}
      [] t[1] = "array"  ->
             UNION {{<<"array", [t[2] EXCEPT ![i] = new]>> :
                        new \in rewritings(t[2][i])} : i \in DOMAIN t[2]}
      [] t[1] = "object" ->
             LET members == t[2] IN
             UNION {{<<"object", [members EXCEPT ![i][3] = new]>> :
                        new \in rewritings(members[i][3])} :
                        i \in DOMAIN members}
             \cup {<<"object", [members EXCEPT ![i][2] = ~ @]>> :
                        i \in DOMAIN members}
             \cup {<<"object", [members EXCEPT ![i] = members[i + 1],
                                               ![i + 1] = members[i]]>> :
                        i \in 1 .. Len(members) - 1}
             \cup {<<"object", Append(members,
                        <<members[i][1], ~ members[i][2], members[j][3]>>)>> :
                        i, j \in {k \in DOMAIN members : Len(members) < 3}}

Rewrite ==
    /\ rewritten < MaxRewritings
    /\ rewritten' = rewritten + 1
    /\ text' \in rewritings(text)
    /\ UNCHANGED <<written, padding>>

Indent ==
    /\ padding < MaxPadding
    /\ padding' = padding + 1
    /\ UNCHANGED <<written, text, rewritten>>

(* The file is parsed and written again.                                   *)
Normalise ==
    /\ decode(text, padding) = OK
    /\ text' = dumps(loads(text))
    /\ padding' = 1
    /\ rewritten' = 0
    /\ UNCHANGED written

Next == Rewrite \/ Indent \/ Normalise

Spec == Init /\ [][Next]_vars

(* Whatever others made of a file, what is accepted from it has the very   *)
(* bytes that were signed: its digest is that of what was written, and     *)
(* anything that could be read in two ways is refused.                     *)
DigestStable ==
    decode(text, padding) = OK => dumps(loads(text)) = dumps(written)

(* What write() puts into a file can be read back, in the shape it comes   *)
(* from write(), except that a document of exactly MAX_BYTES is one byte   *)
(* too long with its newline.                                              *)
WrittenReadable ==
    text = dumps(written) /\ padding = 1 /\ length(text) < MAX_BYTES =>
        decode(text, padding) = OK

=============================================================================
