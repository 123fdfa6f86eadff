---------------------------- MODULE MCJobManager ----------------------------
(* JobManager for TLC: two definitions, with one input and with two, of which one fails. *)
EXTENDS JobManager

OneAndTwo == "one" :> 1 @@ "two" :> 2
SecondOfTwo == {<<"two", 1>>}

\* A definition is submitted at one node, and the other one at the other node, where the first
\* may be repeated; either node is asked; one claims by hand.
CallsMade ==
    {Submission("j", "one", 1), Submission("j", "two", 2), Submission("j", "one", 2),
     Query("j", 1), Query("j", 2), Claim(<<"j", 0>>, 2)}
=============================================================================
