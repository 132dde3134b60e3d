----------------------------- MODULE MCTestSession -----------------------------
(* Tests that use all of the fixtures, and tests that use none. *)
EXTENDS TestSession

SomeFixtures == {<<TRUE, TRUE>>, <<FALSE, FALSE>>}
===============================================================================
