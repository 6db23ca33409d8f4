----------------------------- MODULE Generator ------------------------------
(***************************************************************************)
(* internal/gen: one run of the plugin, from its options to the files it   *)
(* returns or the error it reports (config.go, gen.go, names.go, emit.go,  *)
(* comments.go, and main.go, which binds the options and calls Run).       *)
(*                                                                         *)
(* A Go identifier is a sequence of words: concatenation is what the       *)
(* generator does with names, and two different sequences of words are two *)
(* different identifiers.  Of a generated file the model keeps what the Go *)
(* compiler may refuse: the package-scope names it declares, the methods   *)
(* of its types, the package-scope names it mentions, and its comments.    *)
(***************************************************************************)
EXTENDS Naturals, Sequences, Functions

CONSTANTS Requests,     \* what protoc may ask for: sequences of files, each
                        \* with its directory, Go import path and services
          Lower,        \* the lower case of the words that have one
          Identifiers,  \* option values that are Go identifiers, not keywords
          Settings,     \* options on the command line, as <<name, value>>
          MaxOptions    \* bound: options given to one run

BoolOptions == {"separate_package", "callers", "interfaces", "method_consts"}

IsSeq(s) == s \in Seq(Range(s))

\* A request, a file's services and a service's methods are lists.
ASSUME GeneratorAssumption ==
  /\ MaxOptions \in Nat
  /\ \A r \in Requests :
       /\ IsSeq(r)
       /\ \A f \in Range(r) :
            /\ f.generate \in BOOLEAN /\ IsSeq(f.services)
            /\ \A s \in Range(f.services) : IsSeq(s.methods)

VARIABLES
  cfg,       \* the Config
  given,     \* how many options have been parsed
  request,   \* the files of the request
  at,        \* the file Run is at
  next,      \* the service of that file to generate next; 0 before it is opened
  sets,      \* per output directory: the nameset
  order,     \* output directories in the order of their first file
  out,       \* the generated files
  result,    \* "running", then how the run ended
  report     \* the collisions the error names: output directory and identifier

vars == <<cfg, given, request, at, next, sets, order, out, result, report>>

\* Bind: the defaults.
Init ==
  /\ cfg = [separate_package |-> TRUE, callers |-> TRUE, interfaces |-> TRUE,
            method_consts |-> TRUE, package_suffix |-> "poseidon",
            runtime_import |-> "pgrpc", default_codec |-> "protocodec"]
  /\ given = 0 /\ at = 0 /\ next = 0
  /\ request \in Requests
  /\ sets = <<>> /\ order = <<>> /\ out = <<>>
  /\ result = "running" /\ report = {}

-----------------------------------------------------------------------------
(* Options.                                                                *)

\* What strconv.ParseBool reads, and boolFlag.Set's bare option.
TrueTexts == {"", "1", "t", "T", "true", "TRUE", "True"}
FalseTexts == {"0", "f", "F", "false", "FALSE", "False"}

\* boolFlag.Set: ParseBool's error comes after the assignment of its FALSE, and
\* ends the run.  FlagSet.Set refuses a name nobody bound.
SetOption(name, value) ==
  /\ result = "running" /\ at = 0 /\ given < MaxOptions
  /\ given' = given + 1
  /\ cfg' = IF name \notin DOMAIN cfg THEN cfg
            ELSE [cfg EXCEPT ![name] = IF name \in BoolOptions
                                       THEN value \in TrueTexts ELSE value]
  /\ result' = IF \/ name \notin DOMAIN cfg
                  \/ name \in BoolOptions /\ value \notin TrueTexts \cup FalseTexts
               THEN "bad option" ELSE result
  /\ UNCHANGED <<request, at, next, sets, order, out, report>>

ValidIdent(s) == s # "" /\ s \in Identifiers

Valid == /\ cfg.separate_package
         /\ ValidIdent(cfg.package_suffix)
         /\ cfg.runtime_import # ""
         /\ cfg.default_codec \in {"protocodec", "none"}

Validate ==
  /\ result = "running" /\ at = 0
  /\ IF Valid THEN at' = 1 /\ UNCHANGED result
     ELSE result' = "bad config" /\ UNCHANGED at
  /\ UNCHANGED <<cfg, given, request, next, sets, order, out, report>>

-----------------------------------------------------------------------------
(* The names of a service s and its methods m.                             *)

FullMethodName(s, m) == s.name \o <<"_">> \o m.name \o <<"_", "FullMethodName">>
StreamAlias(s, m) == s.name \o <<"_">> \o m.name \o <<"Client">>
Iface(s) == s.name \o <<"Client">>
CallerName(s) == s.name \o <<"Caller">>

\* unexport fails if the first rune has no lower case.
CanUnexport(s) == Head(s.name) \in DOMAIN Lower
ImplName(s) == <<Lower[Head(s.name)]>> \o Tail(s.name) \o <<"Client">>

\* A type's constructor, and the one that supplies the codec.
Constructors(type) ==
  LET ctor == <<"New">> \o type IN
  IF cfg.default_codec = "protocodec" THEN <<ctor, ctor \o <<"On">>>> ELSE <<ctor>>

MethodConsts(s) ==
  IF cfg.method_consts
  THEN [i \in DOMAIN s.methods |-> FullMethodName(s, s.methods[i])] ELSE <<>>

\* One alias for each method that streams.
AddAlias(s, m, aliases) ==
  IF m.streams THEN Append(aliases, StreamAlias(s, m)) ELSE aliases
StreamAliases(s) ==
  LET after[i \in 0..Len(s.methods)] ==
        IF i = 0 THEN <<>> ELSE AddAlias(s, s.methods[i], after[i - 1])
  IN after[Len(s.methods)]

\* The package-scope names a service declares, each claimed as it is emitted.
Declared(s) ==
  MethodConsts(s) \o StreamAliases(s)
    \o (IF cfg.interfaces THEN <<Iface(s)>> ELSE <<>>)
    \o <<ImplName(s)>> \o Constructors(Iface(s))
    \o (IF cfg.callers THEN <<CallerName(s)>> \o Constructors(CallerName(s)) ELSE <<>>)

\* The methods it declares, with the type they belong to.
MethodNames(s) == [i \in DOMAIN s.methods |-> s.methods[i].name]
On(type, names) == [i \in DOMAIN names |-> <<type, names[i]>>]
Methods(s) ==
  (IF cfg.interfaces THEN On(Iface(s), MethodNames(s)) ELSE <<>>)
    \o On(ImplName(s), MethodNames(s))
    \o (IF cfg.callers THEN On(CallerName(s), <<<<"Config">>>> \o MethodNames(s))
        ELSE <<>>)

\* Mutant of MethodRefs: the constant even when none is emitted.
MethodRefsAlways(s) == {FullMethodName(s, m) : m \in Range(s.methods)}

\* The package-scope names its bodies mention: a method's constant (or the
\* literal), the interface.
MethodRefs(s) ==
  IF cfg.method_consts THEN {FullMethodName(s, m) : m \in Range(s.methods)} ELSE {}
Mentioned(s) == MethodRefs(s) \cup (IF cfg.interfaces THEN {Iface(s)} ELSE {})

\* A comment line is known by what follows its "//".
Defuse(line) == IF line = "word" THEN "space" ELSE line

MethodComments(s) == UNION {m.comment : m \in Range(s.methods)}

\* The service's comment goes to the interface and the Caller, if there are any.
ServiceComment(s) == IF cfg.interfaces \/ cfg.callers THEN s.comment ELSE {}

Comments(s) == {Defuse(l) : l \in ServiceComment(s) \cup MethodComments(s)}

-----------------------------------------------------------------------------
(* Files and services.                                                     *)

File == request[at]
OutDir(f) == <<f.dir, cfg.package_suffix>>

\* Mutant of SetKey: one nameset for each Go import path.
SetKeyImport(f) == <<f.imp, cfg.package_suffix>>

\* What a nameset is kept by.
SetKey(f) == OutDir(f)

Running == result = "running" /\ at \in DOMAIN request

\* Imports that were not asked for, and files without a service.
SkipFile ==
  /\ Running /\ next = 0
  /\ ~File.generate \/ File.services = <<>>
  /\ at' = at + 1
  /\ UNCHANGED <<cfg, given, request, next, sets, order, out, result, report>>

OpenFile ==
  /\ Running /\ next = 0
  /\ File.generate /\ File.services # <<>>
  /\ IF SetKey(File) \in DOMAIN sets THEN UNCHANGED <<sets, order>>
     ELSE /\ sets' = [k \in DOMAIN sets \cup {SetKey(File)} |->
                        IF k \in DOMAIN sets THEN sets[k]
                        ELSE [owned |-> {}, conflicts |-> {}]]
          /\ order' = Append(order, SetKey(File))
  /\ out' = Append(out, [dir |-> OutDir(File), declared |-> <<>>,
                         methods |-> <<>>, mentioned |-> {}, comments |-> {}])
  /\ next' = 1
  /\ UNCHANGED <<cfg, given, request, at, result, report>>

Claim(set, name) ==
  IF name \in set.owned THEN [set EXCEPT !.conflicts = @ \cup {name}]
  ELSE [set EXCEPT !.owned = @ \cup {name}]

\* The nameset after one claim for each of the names.
ClaimAll(set, names) ==
  LET after[i \in 0..Len(names)] ==
        IF i = 0 THEN set ELSE Claim(after[i - 1], names[i])
  IN after[Len(names)]

\* checkService: two methods with one Go name, or one the Caller has already.
Reserved == {<<"Config">>}
BadService(s) ==
  \/ ~IsInjective(MethodNames(s))
  \/ cfg.callers /\ Range(MethodNames(s)) \cap Reserved # {}

\* After a service comes the next one, or the next file.
Advance == IF next < Len(File.services) THEN next' = next + 1 /\ UNCHANGED at
           ELSE next' = 0 /\ at' = at + 1

Emit(s) ==
  /\ sets' = [sets EXCEPT ![SetKey(File)] = ClaimAll(@, Declared(s))]
  /\ out' = [out EXCEPT ![Len(out)] =
       [dir |-> @.dir, declared |-> @.declared \o Declared(s),
        methods |-> @.methods \o Methods(s), mentioned |-> @.mentioned \cup Mentioned(s),
        comments |-> @.comments \cup Comments(s)]]

\* A service that cannot be named is a conflict of its own, and is skipped.
Service ==
  /\ Running /\ next > 0
  /\ LET s == File.services[next] IN
     \/ /\ BadService(s)
        /\ result' = "bad service"
        /\ UNCHANGED <<at, next, sets, out>>
     \/ /\ ~BadService(s) /\ CanUnexport(s)
        /\ Emit(s) /\ Advance
        /\ UNCHANGED result
     \/ /\ ~BadService(s) /\ ~CanUnexport(s)
        /\ sets' = [sets EXCEPT ![SetKey(File)].conflicts = @ \cup {s.name}]
        /\ Advance
        /\ UNCHANGED <<out, result>>
  /\ UNCHANGED <<cfg, given, request, order, report>>

\* Mutant of Reported: the first package with a collision ends the report.
ReportedFirst ==
  LET bad == SelectSeq(order, LAMBDA k : sets[k].conflicts # {})
  IN IF bad = <<>> THEN {} ELSE {<<bad[1], n>> : n \in sets[bad[1]].conflicts}

Reported == UNION {{<<k, n>> : n \in sets[k].conflicts} : k \in Range(order)}

\* After the last file: every collision of every package.
Report ==
  /\ result = "running" /\ at = Len(request) + 1
  /\ report' = Reported
  /\ result' = IF Reported = {} THEN "ok" ELSE "collisions"
  /\ UNCHANGED <<cfg, given, request, at, next, sets, order, out>>

Next == \/ \E s \in Settings : SetOption(s[1], s[2])
        \/ Validate \/ SkipFile \/ OpenFile \/ Service \/ Report

Spec == Init /\ [][Next]_vars

-----------------------------------------------------------------------------
(* Properties.                                                             *)

\* Everything declared in the Go package of a directory, by file and place.
Places(field, dir) ==
  UNION {{<<i, j>> : j \in DOMAIN out[i][field]} :
           i \in {n \in DOMAIN out : out[n].dir = dir}}

Twice(field, dir) ==
  {out[p[1]][field][p[2]] :
     p \in {q \in Places(field, dir) :
              \E r \in Places(field, dir) \ {q} :
                out[r[1]][field][r[2]] = out[q[1]][field][q[2]]}}

OutDirs == {out[i].dir : i \in DOMAIN out}

Builds(dir) ==
  /\ Twice("declared", dir) = {} /\ Twice("methods", dir) = {}
  /\ \A i \in DOMAIN out : out[i].dir = dir =>
       /\ out[i].mentioned \subseteq
            {out[p[1]].declared[p[2]] : p \in Places("declared", dir)}
       /\ "word" \notin out[i].comments

\* "A collision is a clear error rather than a compile failure in the user's
\* build" (names.go:14-16): if the run succeeds, then in every output directory
\* nothing is declared twice, on a package or on a type, from whichever files
\* it comes, what is mentioned is declared, and no comment is a directive.
AcceptedBuilds == result = "ok" => \A dir \in OutDirs : Builds(dir)

\* The services of an output directory's files that cannot be named.
Unnamed(dir) ==
  {s.name : s \in {t \in UNION {Range(f.services) : f \in
                           {g \in Range(request) : g.generate /\ OutDir(g) = dir}} :
                   ~CanUnexport(t)}}

\* No false alarm (gen.go:28-34): an identifier that is reported is declared
\* twice in the output directory it is reported for, or is a service of that
\* directory that could not be named.
RefusedIsBroken ==
  \A e \in report : e[1] \in OutDirs /\ e[2] \in Twice("declared", e[1]) \cup Unnamed(e[1])

\* "One run names every collision" of "EVERY package, not the first"
\* (gen.go:64-71), each with its directory.
EveryCollisionNamed ==
  result = "collisions" =>
    \A dir \in OutDirs : \A n \in Twice("declared", dir) : <<dir, n>> \in report

-----------------------------------------------------------------------------
(* The inductive invariant.                                                *)

FilesIn(dir) == {i \in DOMAIN out : out[i].dir = dir}
NamesIn(dir) == UNION {Range(out[i].declared) : i \in FilesIn(dir)}

\* Declarations are lists, and a nameset has its fields.
ShapeInv ==
  /\ IsSeq(out) /\ IsSeq(order)
  /\ \A i \in DOMAIN out : IsSeq(out[i].declared) /\ IsSeq(out[i].methods)
  /\ \A k \in DOMAIN sets :
       sets[k] = [owned |-> sets[k].owned, conflicts |-> sets[k].conflicts]

\* Where Run is: an open file is the last one generated, and its output
\* directory the key of its nameset.  Before the first file there is nothing.
PlaceInv ==
  /\ request \in Requests /\ at \in Nat /\ next \in Nat
  /\ at = 0 => out = <<>> /\ next = 0
  /\ next > 0 =>
       /\ at \in DOMAIN request /\ File.generate /\ next \in DOMAIN File.services
       /\ out # <<>> /\ out[Len(out)].dir = SetKey(File)

\* The namesets are those of the output directories, and order lists them.
DirsInv == DOMAIN sets = OutDirs /\ Range(order) = OutDirs

\* A nameset owns the names declared in its directory, and its conflicts are
\* the names declared twice there, and the services that cannot be named.
SetsInv ==
  \A k \in DOMAIN sets :
    /\ sets[k].owned = NamesIn(k)
    /\ Twice("declared", k) \subseteq sets[k].conflicts
    /\ sets[k].conflicts \subseteq Twice("declared", k) \cup Unnamed(k)

\* Methods are on types declared in the same file, and a method that is there
\* twice is one of a type that is declared twice.
MethodsInv ==
  /\ \A i \in DOMAIN out : \A m \in Range(out[i].methods) : m[1] \in Range(out[i].declared)
  /\ \A dir \in OutDirs : \A m \in Twice("methods", dir) : m[1] \in Twice("declared", dir)

\* What a file mentions it declares, and its comments are defused.
TextInv ==
  \A i \in DOMAIN out : /\ out[i].mentioned \subseteq Range(out[i].declared)
                        /\ "word" \notin out[i].comments

\* What has been reported.
EndInv ==
  /\ result # "collisions" => report = {}
  /\ result = "collisions" => report = Reported
  /\ result = "ok" => Reported = {}

IInv == ShapeInv /\ PlaceInv /\ DirsInv /\ SetsInv /\ MethodsInv /\ TextInv /\ EndInv
=============================================================================
