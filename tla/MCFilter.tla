------------------------------- MODULE MCFilter -------------------------------
(* Three patterns, one of which does not compile; lines that match the one, *)
(* the other, both, or nothing, some only if the case is ignored; one match *)
(* that gives no host; and files that order the patterns, scores (one is    *)
(* cut to a short int) and switches in every way that matters.              *)
EXTENDS Filter, TLC

P(p) == [pattern |-> p]
Score(n) == [defscore |-> n]
IgnoreCase(b) == [icase |-> b]
Other == [other |-> TRUE]

MCHits == "ssh" :> {"a", "both"} @@ "any" :> {"both"} @@ "bad" :> {}
MCHitsNoCase == "ssh" :> {"a", "both", "A"} @@ "any" :> {"both", "A"} @@ "bad" :> {}
MCNoHost == {<<"any", "both">>}
MCSection == <<IgnoreCase(FALSE), Score(5)>>

MCFiles ==
    {Missing,
     <<>>,
     <<Other, P("bad")>>,
     <<P("ssh"), P("any")>>,
     <<P("any"), P("bad"), Score(3), P("ssh")>>,
     <<P("ssh"), IgnoreCase(TRUE), Score(1), Score(150), P("any")>>}
===============================================================================
