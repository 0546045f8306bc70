----------------------------- MODULE MCDirectory -----------------------------
(* Values for the constants of Directory. *)
EXTENDS Directory

\* Two accounts that cannot both exist: the same email, another username.
MCIdents == {<<"email", "name">>, <<"email", "other name">>}
=============================================================================
