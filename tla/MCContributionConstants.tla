---------------------- MODULE MCContributionConstants ----------------------
(* Small instances of ContributionConstants for TLC. *)
EXTENDS ContributionConstants

\* Nothing and the whole, what lies between, and what the setters refuse.
MCProportions == {Zero, <<1, 4>>, <<1, 2>>, One, <<-1, 4>>, <<3, 2>>}
=============================================================================
