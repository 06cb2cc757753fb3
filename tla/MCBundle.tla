------------------------------ MODULE MCBundle ------------------------------
(* One edit of any file or generator; and the generator of the records,    *)
(* the specification and a stray file together, in any order with the rest;*)
(* in a repository that holds the released specification.                  *)
EXTENDS Bundle
MCTogether == {<<"generator", "records">>, <<"file", "specification">>, <<"file", "stray">>}
MCRepository == Released("specification")
=============================================================================
