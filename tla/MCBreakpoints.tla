---------------------------- MODULE MCBreakpoints ----------------------------
(* Three scripts: a has a URL, b has none, x does not compile; the pattern *)
(* matches all of them, the empty URL included.  Line 2 of a has no code   *)
(* of its own, so that V8 moves a break point there to line 1.             *)
EXTENDS Breakpoints

MCScriptIds == {"a", "b", "x"}
MCPatterns  == {"all"}
MCLines     == {1, 2}
MCFailed    == {"x"}
MCAnonymous == {"b"}
MCMatches   == {<<"all", "a">>, <<"all", "b">>, <<"all", "x">>}
MCInRange   == {<<"a", 1>>, <<"a", 2>>, <<"b", 1>>, <<"x", 1>>}
MCActual    == [at \in {<<"a", 1>>, <<"a", 2>>, <<"b", 1>>} |-> 1]
=============================================================================
