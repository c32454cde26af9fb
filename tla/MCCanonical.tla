---------------------------- MODULE MCCanonical ----------------------------
(* Small limits, so that documents exist on both sides of each of them.    *)
EXTENDS Canonical

MCNameOrder == <<"a", "b", "c">>
MCPrintable == {"a", "b"}

MCInteger == [lit \in {"0", "-0", "1", "-1", "7", "9"} |->
                 CASE lit = "0" -> 0 [] lit = "-0" -> 0 [] lit = "1" -> 1
                   [] lit = "-1" -> -1 [] lit = "7" -> 7 [] lit = "9" -> 9]
MCLiteral == [n \in {0, 1, -1, 7, 9} |->
                 CHOOSE lit \in DOMAIN MCInteger \ {"-0"} : MCInteger[lit] = n]
MCAlias == [lit \in DOMAIN MCInteger \cup {"1.0", "1e0"} |->
               CASE lit \in {"0", "-0"} -> {"0", "-0"} \ {lit}
                 [] lit \in {"1", "1.0", "1e0"} -> {"1", "1.0", "1e0"} \ {lit}
                 [] OTHER -> {}]

int(n)   == <<"int", n>>
str(s)   == <<"str", s>>
pair(v, w) == <<"dict", <<<<"b", v>>, <<"a", w>>>>>>

Leaves == {int(n) : n \in {0, 1, -1, 7, 9}} \cup {str("a"), str("c")}

Pairs == {pair(v, w) : v \in Leaves, w \in {int(1), str("a")}}

(* One is nested too deep.  Lists of six, seven and eight strings have 25, *)
(* 29 and 33 bytes, next to a limit of 29; with -1 the first has 28, and   *)
(* 29 in a file.                                                           *)
MCValue ==
    Leaves \cup Pairs
    \cup {pair(v, int(1)) : v \in {pair(int(-1), str("a")),
                                   <<"list", <<int(0), int(7)>>>>}}
    \cup {<<"list", <<pair(pair(int(1), int(0)), int(0))>>>>,
          pair(pair(int(1), int(0)), pair(int(7), str("a")))}
    \cup {<<"list", [i \in 1 .. n |-> str("a")]>> : n \in {6, 7, 8}}
    \cup {<<"list", [i \in 1 .. 6 |-> str("a")] \o <<int(-1)>>>>}

=============================================================================
