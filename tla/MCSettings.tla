---------------------------- MODULE MCSettings -----------------------------
(***************************************************************************)
(* Constants for the run of Settings.                                      *)
(***************************************************************************)
EXTENDS Settings, TLC

CONSTANTS i1, i2, r1, r2

\* A deployment that has everything off and no templates by language, and one in
\* full use.
Bare == Zero
InUse == [k \in Fields |->
            CASE k[1] \in Switches -> IF k[2] = "enabled" THEN "on" ELSE "usable"
              [] k = <<"uploads", "enabled">> -> "on"
              [] k = <<"uploads", "backend">> -> "local"
              [] k[1] = "templates" -> "written"
              [] k \in {<<"uploads", "bucket">>, <<"slack", "error">>} -> "none"
              [] OTHER -> "usable"] \* connected to Slack and to GitHub
BareAndInUse == {Bare, InUse}

On(g) == <<g, "enabled">> :> "on"
Off(g) == <<g, "enabled">> :> "off"
Value(g, v) == <<g, "value">> :> v
Uploads(backend, bucket) == <<"uploads", "backend">> :> backend
                            @@ <<"uploads", "bucket">> :> bucket

SomePatches == {On("ai"), Value("ai", "none"), On("ai") @@ Value("ai", "usable"),
                Off("ai") @@ Value("ai", "none"),
                On("customAuth"), Value("customAuth", "malformed"),
                Off("googleAuth") @@ Value("googleAuth", "none"),
                On("uploads"), Uploads("gcs", "bucket1"),
                On("uploads") @@ Uploads("local", "bucket2"),
                Off("uploads") @@ Uploads("none", "none"),
                <<"templates", "byLang">> :> "written"}

Symmetry == Permutations(Requests) \cup Permutations(Instances)
=============================================================================
