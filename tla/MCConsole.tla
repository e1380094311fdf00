----------------------------- MODULE MCConsole -----------------------------
(* Console for TLC: a small screen, and strings that end short of, at and  *)
(* past the end of a line, with line feeds where they matter.              *)
EXTENDS ConsoleProofs

MCPrintable == {"a", "b"}
MCStrings ==
  {<<"a">>, <<"b">>, <<LF>>, <<BEL, "b">>, <<LF, "a">>, <<"a", "b", "a">>,
   <<"a", "b", LF>>, <<"a", "b", "b", LF, "a">>, <<"b", "a", "b", "a", LF, LF>>,
   <<"a", "b", "a", BEL, LF, "b">>}
=============================================================================
