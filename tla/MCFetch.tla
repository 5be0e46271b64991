------------------------------ MODULE MCFetch ------------------------------
(***************************************************************************)
(* A month of two days and one of a single day; a monthly archive that is  *)
(* absent, parses to nothing or holds its month; days with and without an  *)
(* archive; up to two parts a day, of which one may be empty.              *)
(***************************************************************************)
EXTENDS Fetch, TLC

MCMonth == <<{1, 2}, {3}>>

Of(contents) ==
  [f \in Files |-> IF f \in DOMAIN contents THEN contents[f] ELSE None]

MCPublished ==
  {Of(Monthly(1) :> a @@ Monthly(2) :> b @@ Daily(1) :> {1} @@ Daily(2) :> c @@ Daily(3) :> {3}) :
     a \in {None, {}, {1, 2}}, b \in {None, {3}}, c \in {{}, {2}}}
  \cup
  {Of(Part(1, 1) :> {1} @@ Part(1, 2) :> a @@ Part(2, 1) :> b) :
     a \in {{}, {1}}, b \in {None, {2}}}
=============================================================================
