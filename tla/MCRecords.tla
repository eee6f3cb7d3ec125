------------------------------ MODULE MCRecords ------------------------------
(* Records with three writers, the last of them careless.  Relations and the
   collection ignore each other's events, so no history has both. *)
EXTENDS Records, TLC

CONSTANTS ada, bo, cy

Plan(x, y, z) == (ada :> x) @@ (bo :> y) @@ (cy :> z)

MCPlans == {
  \* ada retires what bo uses; cy's document may be late at either
  Plan(<<"define", "define">>, <<"assert">>, <<"put">>),
  \* careless assertions, retractions and definitions
  Plan(<<"define", "define">>, <<>>, <<"assert">>),
  Plan(<<"define">>, <<>>, <<"put", "assert">>),
  Plan(<<"put">>, <<>>, <<"assert", "retract">>),
  Plan(<<"define">>, <<"assert">>, <<"put", "define">>),
  Plan(<<"put">>, <<"assert", "retract">>, <<"retract">>),
  \* a slug minted, retired, revived and minted again
  Plan(<<"define", "define", "define", "define">>, <<>>, <<>>),
  \* the collection, with history that is late and with two items
  Plan(<<"retain", "organize">>, <<"organize">>, <<"put">>),
  Plan(<<"retain", "organize", "organize">>, <<"retain", "organize">>, <<>>)}

=============================================================================
