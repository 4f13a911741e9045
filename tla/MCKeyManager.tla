---------------------------- MODULE MCKeyManager ----------------------------
(***************************************************************************)
(* Words over three letters and ">", which ends a URI.  URIs are free of   *)
(* prefixes; a literal and the same literal with a language tag are not.   *)
(***************************************************************************)
EXTENDS KeyManager

URI(s) == Append(s, ">")

Person == URI(<<"p", "e">>)
Place == URI(<<"p", "l">>)
MCLetters == {"p", "e", "l", ">"}
MCClasses == {Person, Place}
MCScotland == URI(<<"p">>)

\* Fragments that split each other at every position.
MCWords == {MCScotland, URI(<<"p", "l", "e">>), URI(<<"e">>)}

\* "X" and "X"@en.
TaggedLiterals == {MCScotland, <<"e", "e">>, <<"e", "e", "l">>}
==============================================================================
