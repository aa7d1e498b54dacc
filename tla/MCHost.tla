-------------------------------- MODULE MCHost --------------------------------
(* Host for TLC: an older and a newer daemon, and panes 1 and 10.           *)
EXTENDS Host

MCVersion(d) == IF d = "old" THEN 4 ELSE 5
MCClaudePanes == {<<1>>, <<1, 0>>}
=============================================================================
