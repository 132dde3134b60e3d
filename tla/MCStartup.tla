------------------------------- MODULE MCStartup -------------------------------
(***************************************************************************)
(* Settings with at most one thing wrong, and options on both sides of each *)
(* limit, the limits scaled down to 2^3 for a float, to 5 for a span and to *)
(* 4 for the age of a row.                                                 *)
(***************************************************************************)
EXTENDS Startup

Good == [app |-> "loads", exclude |-> TRUE, redactor |-> TRUE, retention |-> TRUE,
         stale |-> 1]

OneWrong ==
    {Good, [Good EXCEPT !.app = "unset"], [Good EXCEPT !.app = "unloadable"],
     [Good EXCEPT !.exclude = FALSE], [Good EXCEPT !.redactor = FALSE],
     [Good EXCEPT !.retention = FALSE], [Good EXCEPT !.stale = 0],
     [Good EXCEPT !.stale = 6]}

With(retry, base, cap, window) ==
    [maxRetries |-> retry, backoff |-> base, maxBackoff |-> cap, stale |-> window]

SomeOptions ==
    {With(1, 1, 1, NULL), With(4, 1, 2, NULL), With(5, 1, 2, 1), With(3, 3, 4, NULL),
     With(3, 3, 9, NULL), With(2, 3, 9, 1), With(0, 1, 1, NULL), With(2, 0, 1, 1),
     With(2, 1, 0, 1), With(2, 1, 1, 0), With(2, 1, 1, 5), With(2, 1, 1, 6)}
===============================================================================
