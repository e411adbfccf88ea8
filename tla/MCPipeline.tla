----------------------------- MODULE MCPipeline -----------------------------
(* Projects of a few sources: one for what stands in the body of a function, one for items, and some for *)
(* several units, with and without interop backends. *)
EXTENDS Pipeline

Src(stem) == [stem |-> stem, missing |-> FALSE]
Missing(stem) == [stem |-> stem, missing |-> TRUE]
Project(sources, interops, out, phrases, frame, length) ==
  [sources |-> sources, interops |-> interops, out |-> out, phrases |-> phrases, frame |-> frame, length |-> length]

Module == <<"module", "m", Newline>>
Main == <<Module \o <<"func", "main", "(", ")", "->", "int", "{">>, <<"return", "1", ";", "}">>>>
Items3 == <<Module, <<>>>>

Statements1 ==
  {<<"let", "a", "=", "1", ";">>, <<"var", "b", "=", "a", ";">>, <<"b", "=", "1", ";">>, <<"b", ";">>,
   <<"let", "g", "=", "main", ";">>, <<"main", "(", ")", ";">>,
   <<"defer", "{">>, <<"defer", "a", ";">>, <<"defer", "main", "(", ")", ";">>,
   <<"loop", "var", "b", "=", "1", ";", "b", "<", "1", ";", "b", "++", "{">>,
   <<"loop", "a", ";", "b", "=", "1", "{">>, <<"loop", "{">>,
   <<"if", "a", "{">>, <<"}">>, <<"}", "else", "{">>,
   <<"switch", "1", "{", "case", "E", "::", "A", ":">>, <<"fallthrough", "else", ":">>,
   <<"return", "a", ";">>, <<"break", ";">>}

MCProjects ==
  [body  |-> Project(<<Src("p")>>, <<>>, "app", Statements1, Main, 3),
   item  |-> Project(<<Src("p")>>, <<"lua">>, "",
               {<<"declare", "struct", "S", Newline>>, <<"struct", "S", "{", "}">>, <<"struct", "S", "{", "a", ":", "int", ";", "}">>,
                <<"func", "(", "S", ")", "g", "(", ")", "->", "int", "{", "return", "1", ";", "}">>,
                <<"func", "(", "S", ")", "g", "(", "a", ":", "*", "S", ")", "->", "int", "{", "return", "self", ".", "g", "(", ")", ";", "}">>,
                <<"func", "f", "(", "a", ":", "S", ")", "->", "int", "{", "a", ".", "g", "(", ")", ";", "return", "a", ".", "a", ";", "}">>,
                <<"enum", "E", "{", "A", ",", "}">>, <<"let", "b", "=", "E", "::", "A", Newline>>,
                <<"[[", "inline", "]]">>, <<"[[", "export", "(", "lua", ")", "]]">>,
                <<"declare", "let", "b", ":", "E", Newline>>}, Items3, 3),
   lua   |-> Project(<<Src("p"), Src("q")>>, <<"lua">>, "app",
               {<<"[[", "export", "(", "lua", ")", "]]", "func", "f", "(", "a", ":", "i64", ")", "->", "int", "{", "return", "1", ";", "}">>,
                <<"[[", "export", "(", "lua", ")", "]]", "func", "h", "(", "a", ":", "int", ")", "->", "int", "{", "return", "1", ";", "}">>,
                <<"func", "k", "(", ")", "->", "f64", "{", "return", "1", ";", "}">>,
                <<"import", "path", Newline>>}, Items3, 2),
   both  |-> Project(<<Src("p")>>, <<"python", "lua", "js">>, "my-app", {}, Items3, 1),
   files |-> Project(<<Src("p"), Src("p"), Src("q"), Missing("r")>>, <<>>, "app", {<<"#error">>, <<"$">>}, Items3, 1)]

MCPreprocessFails == "#error" :> "diagnostic"
MCLexFails == "$" :> "diagnostic"
MCIdentifiers == {"m", "main", "a", "b", "f", "g", "h", "k", "S", "E", "A", "inline", "export"}
MCIntegerValue == "1" :> 1
=============================================================================
