------------------------------- MODULE MCConfig -------------------------------
(* A top file and two included ones, in two directories that share one of   *)
(* them. The files repeat sections and keys, start without a header, hold   *)
(* unknown sections and lines that do not parse, and name other directories.*)
EXTENDS Config, TLC

H(h) == [header |-> h]
P(k, v) == [key |-> k, value |-> v]
Comment == [comment |-> TRUE]

Of(t, n) == [type |-> t, name |-> n]
MCMeaning ==
    "main" :> Of("main", "") @@ "mainly" :> Of("main", "")
    @@ "defaults" :> Of("defaults", "") @@ "backend:b" :> Of("backend", "b")
    @@ "jail:a" :> Of("jail", "a") @@ "jail:b" :> Of("jail", "b") @@ "source:s" :> Of("source", "s")
    @@ "typo" :> Unknown

MCIncludes == "all" :> <<"10", "20">> @@ "some" :> <<"20">>

MCVersions ==
    "top" :>
        {Absent,
         <<H("main"), P("includes", "all"), H("backend:b"), P("ban", "x"), P("ban", "y")>>,
         <<P("k", "x"), H("main"), P("includes", "all"), P("k", "x"),
           H("mainly"), P("includes", "some"), H("jail:a"), P("k", "")>>,
         <<H("defaults"), P("k", "x"), H("jail:b"), Comment, P("k", "y")>>}
    @@ "10" :>
        {Absent,
         <<H("main"), P("includes", "some"), H("jail:a"), P("k", "x")>>,
         <<P("k", "y"), H("backend:b"), P("ban", "x"), H("typo"), P("ban", "y"),
           H("jail:b"), P("k", "long"), P("k", "x"), H("defaults"), P("k", "y")>>}
    @@ "20" :>
        {<<H("defaults"), P("k", "y"), P("k", "x"), H("backend:b"), P("ban", "y"),
           H("jail:a"), P("k", "y")>>,
         <<H("typo"), P("k", "y"), H("source:s"), P("k", "x"), H("jail:b"), P("ban", "y"), H("jail:a"), P("k", "x"), H("main"), P("k", "y")>>}
===============================================================================
