------------------------------ MODULE MCShell ------------------------------
(* Shell with lines of one to three commands, with and without files, and  *)
(* scripts whose lines compete with the commands for the input.            *)
EXTENDS Shell

MCKind == [plain |-> "plain", filter |-> "filter", gen |-> "gen"]

OneLine == {
  <<"filter", "<", "file">>, <<"plain", ">", "new", "<", "file">>,
  <<"plain", "<", "file", ">", "new">>, <<"filter", "<", "nofile">>,
  <<"gen", ">">>, <<"<", "file">>, <<"&">>, <<"|", "plain">>,
  <<"plain", "|", "filter", ">", "new">>, <<"gen", "x", "|", "plain">>,
  <<"gen", "|", "filter">>, <<"gen", "|", "plain", "|", "filter", "&">>,
  <<"plain", "|", "filter", "|", "filter">>, <<"filter", "|", "filter", "&">>,
  <<"gen", "|", "bad", "|", "filter">>, <<"plain", "|", "|", "plain">>}

MCScripts ==
  {<<l, <<"plain">>>> : l \in OneLine} \cup {
  <<<<"plain">>, <<" ">>, <<"bad">>, <<"plain", "&">>>>,
  <<<<"plain">>, <<"bad", "&">>, <<"filter">>, <<"plain">>>>,
  <<<<"filter", "&">>, <<"bad">>, <<"plain", " ", "x">>>>,
  <<<<"echo", "-n", "1">>, <<"cd", "dir">>, <<"plain", "&">>, <<"quit">>>>,
  <<<<"echo", "x">>, <<"builtin", "cd">>, <<"pwd">>, <<"cd", "file">>>>,
  <<<<"plain", "&">>, <<"builtin">>, <<"echo">>, <<"plain">>>>}

=============================================================================
