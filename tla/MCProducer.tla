------------------------------ MODULE MCProducer -------------------------------
(***************************************************************************)
(* The requests of Producer for TLC: a plain one, an excluded one (which   *)
(* Celery may read otherwise), and one for each kind of every option.      *)
(***************************************************************************)
EXTENDS Producer

Plain == [excluded |-> FALSE, countdown |-> NULL, eta |-> NULL, expires |-> NULL,
          link |-> <<>>]

VariedRequests ==
    {Plain, [Plain EXCEPT !.excluded = TRUE, !.countdown = 0, !.eta = 2],
     [Plain EXCEPT !.countdown = 1, !.link = <<"first">>],
     [Plain EXCEPT !.countdown = 0, !.eta = 2],
     [Plain EXCEPT !.eta = 2, !.link = <<"second", "junk", "second", "first">>],
     [Plain EXCEPT !.expires = [kind |-> "at", time |-> 2], !.link = <<"junk">>],
     [Plain EXCEPT !.expires = [kind |-> "in", time |-> 1]]}
===============================================================================
