------------------------------ MODULE MCRetention ------------------------------
(***************************************************************************)
(* Two letters of different tasks, and purges by either age, by both, with  *)
(* a glob, by the settings, by both of these, and by ones that are refused. *)
(***************************************************************************)
EXTENDS Retention

CONSTANTS a, b

TwoLetters == {1, 2}
TwoNames == [l \in TwoLetters |-> IF l = 1 THEN a ELSE b]

Only(dead, created, name) == [dead |-> dead, created |-> created, name |-> name]
Nothing == Only(NULL, NULL, NULL)
InSettings == Only(0, 1, {a})

Valid ==
    {[options |-> Only(1, NULL, NULL), settings |-> InSettings],
     [options |-> Only(NULL, 1, NULL), settings |-> NULL],
     [options |-> Only(0, 1, {b}), settings |-> Junk],
     [options |-> Only(NULL, NULL, {b}), settings |-> InSettings],
     [options |-> Nothing, settings |-> InSettings]}

Invalid ==
    {[options |-> Nothing, settings |-> NULL],
     [options |-> Nothing, settings |-> Only(NULL, NULL, {a})],
     [options |-> Only(Junk, 0, NULL), settings |-> NULL],
     [options |-> Only(Endless, NULL, NULL), settings |-> InSettings]}

With(q, dry) == [options |-> q.options, settings |-> q.settings, dry |-> dry]

SomeRequests == {With(q, d) : q \in Valid, d \in BOOLEAN} \cup {With(q, FALSE) : q \in Invalid}
===============================================================================
