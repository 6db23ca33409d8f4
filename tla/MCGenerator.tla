---------------------------- MODULE MCGenerator -----------------------------
(* An instance of Generator for TLC: requests of up to two files with up to *)
(* two services each, whose names collide across the kinds of declarations, *)
(* the services, the files and the directories.                             *)
EXTENDS Generator, SequencesExt

Method(name, streams) == [name |-> name, streams |-> streams, comment |-> {"word"}]
Service_(name, methods) == [name |-> name, methods |-> methods, comment |-> {"tab", "word"}]

\* Foo.Bar_Baz and Foo_Bar.Baz have one constant; the alias of Foo.Bar is the
\* interface of Foo_Bar; the constructor of Foo is the interface of NewFoo.
Services == {
  Service_(<<"Foo">>, <<Method(<<"Bar", "_", "Baz">>, FALSE)>>),
  Service_(<<"Foo">>, <<Method(<<"Bar">>, TRUE), Method(<<"Baz">>, FALSE)>>),
  Service_(<<"Foo", "_", "Bar">>, <<Method(<<"Baz">>, FALSE)>>),
  Service_(<<"New", "Foo">>, <<>>),
  Service_(<<"Qux">>, <<Method(<<"Config">>, FALSE)>>),
  Service_(<<"Qux">>, <<Method(<<"Say">>, FALSE), Method(<<"Say">>, TRUE)>>),
  Service_(<<"Uncased">>, <<>>) }

TheFile(dir, imp, generate, services) ==
  [dir |-> dir, imp |-> imp, generate |-> generate, services |-> services]

\* The files of both directories have one go_package.
Files == {TheFile("d1", "d1", TRUE, s) : s \in BoundedSeq(Services, 2)}
           \cup {TheFile("d2", "d1", TRUE, s) : s \in BoundedSeq(Services, 1)}
           \cup {TheFile("d1", "d1", FALSE, <<s>>) : s \in Services}

TheRequests == {<<f>> : f \in Files} \cup {<<f, g>> : f \in Files, g \in Files}

TheLower == [w \in {"Foo", "New", "Qux"} |->
               CASE w = "Foo" -> "foo" [] w = "New" -> "new" [] OTHER -> "qux"]

TheIdentifiers == {"poseidon", "client"}

TheSettings == {
  <<"separate_package", "0">>, <<"callers", "false">>, <<"interfaces", "false">>,
  <<"interfaces", "">>, <<"callers", "1">>, <<"method_consts", "F">>, <<"callers", "maybe">>,
  <<"package_suffix", "client">>, <<"package_suffix", "range">>, <<"package_suffix", "">>,
  <<"runtime_import", "">>, <<"default_codec", "none">>, <<"default_codec", "vt">>,
  <<"caller", "true">> }
=============================================================================
