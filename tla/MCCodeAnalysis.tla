--------------------------- MODULE MCCodeAnalysis ---------------------------
(***************************************************************************)
(* A repository of a few small files:                                      *)
(*                                                                         *)
(*   models    app/models.py            package   app/models/__init__.py   *)
(*   service   app/service.py           suite     tests/test_service.py    *)
(***************************************************************************)
EXTENDS CodeAnalysis

CONSTANTS models, package, service, suite

MCDirectories == models :> <<"app">> @@ package :> <<"app", "models">> @@ service :> <<"app">>
                    @@ suite :> <<"tests">>

MCCandidates == <<"app", "models">> :> <<models, package>> @@ <<"app", "service">> :> <<service>>
                    @@ <<"tests", "test_service">> :> <<suite>>

MCScanOrder == <<models, service, package, suite>>

import(alias, module, name) == [op |-> "import", scope |-> <<>>, alias |-> alias, module |-> module, name |-> name]

class(name, bases) == [op |-> "class", scope |-> <<>>, name |-> name, bases |-> bases]

function(scope, name, params) == [op |-> "function", scope |-> scope, name |-> name, params |-> params]

call(scope, target, args) == [op |-> "call", scope |-> scope, target |-> target, models |-> args]

assign(scope, lhs, value) == [op |-> "assign", scope |-> scope, lhs |-> lhs, call |-> value]

route(name, handler) == [op |-> "route", scope |-> <<>>, name |-> name, handler |-> handler]

text(scope, name) == [op |-> "text", scope |-> scope, name |-> name]

(* An ORM model whose save method calls another one, and an edited one.    *)
Entity == <<import("Model", <<"orm">>, "Model"),
            class("User", {<<"Model">>}),
            function(<<"User">>, "save", {}),
            call(<<"User", "save">>, <<"self", "check">>, {}),
            function(<<"User">>, "check", {})>>

Shifted == <<text(<<>>, "constant"),
             class("User", {}),
             function(<<"User">>, "save", {}),
             text(<<"User", "save">>, "pass")>>

(* The class is imported from the service, which imports it from here.     *)
Circular == <<import("User", <<".", "service">>, "User"),
              import("run", <<".", "service">>, "run"),
              function(<<>>, "helper", {}),
              call(<<"helper">>, <<"run">>, {})>>

(* Uses of the model: an instance, a query, a parameter that shadows it.   *)
Service == <<import("User", <<".", "models">>, "User"),
             function(<<>>, "run", {}),
             assign(<<"run">>, <<"user">>, <<"User">>),
             call(<<"run">>, <<"user", "save">>, {}),
             call(<<"run">>, <<"User", "filter">>, {}),
             function(<<>>, "shadow", {[name |-> "User", type |-> <<>>]}),
             call(<<"shadow">>, <<"session", "add">>, {"User"})>>

Recursive == <<import("requests", <<"requests">>, "*"),
               import("User", <<"app", "models">>, "User"),
               function(<<>>, "run", {[name |-> "user", type |-> <<"User">>]}),
               call(<<"run">>, <<"run">>, {}),
               call(<<"run">>, <<"user", "save">>, {}),
               call(<<"run">>, <<"session", "add">>, {"User"}),
               call(<<"run">>, <<"requests", "get">>, {}),
               route("GET", <<"run">>)>>

(* A module imported from a directory without __init__.py.                 *)
Namespace == <<import("models", <<"app">>, "models"),
               function(<<>>, "run", {}),
               call(<<"run">>, <<"models", "User">>, {}),
               call(<<"run">>, <<"helper">>, {}),
               call(<<>>, <<"models", "User">>, {})>>

Test == <<import("run", <<"app", "service">>, "run"),
          function(<<>>, "test_run", {}),
          call(<<"test_run">>, <<"run">>, {})>>

(* A name of a package that another file imports by another module.        *)
Routes == <<import("missing", <<".">>, "missing"),
            import("basic", <<"requests", "auth">>, "basic"),
            route("GET", <<"missing">>),
            function(<<>>, "check", {})>>

(* "from . import service", which is taken for "from .. import service".   *)
Upwards == <<import("service", <<".">>, "service"),
             function(<<>>, "helper", {}),
             call(<<"helper">>, <<"service", "run">>, {})>>

MCContents == models :> {Absent, Entity, Shifted, Circular} @@ package :> {Absent, Entity, Upwards}
                @@ service :> {Absent, Skipped, Service, Recursive, Namespace}
                @@ suite :> {Absent, Test, Routes}

(* Policies that can be read and that cannot: a rule twice, no rule, lists *)
(* in the place of words.                                                  *)
named(module) == <<[module |-> module]>>

forbid(id, severity, from, to, types) ==
    [id |-> id, type |-> "forbid_dependency", severity |-> severity, from |-> from, to |-> to,
     relationships |-> types]

acyclic(id, severity) == [id |-> id, type |-> "no_cycles", severity |-> severity]

MCDocuments == {Absent, Unreadable, <<>>, <<acyclic(1, "error"), acyclic(1, "warning")>>,
    <<acyclic(1, "error"), forbid(2, "warning", {models}, {service}, <<"IMPORTS">>)>>,
    <<acyclic(1, "warning"), forbid(2, "error", {service, suite}, {named(<<"app">>), models},
                                    <<"CALLS", "USES_PACKAGE">>)>>,
    <<forbid(1, "error", {service}, {named(<<"requests", "auth">>)}, <<"USES_PACKAGE">>)>>,
    <<acyclic(1, Unhashable)>>, <<acyclic(1, "error"), acyclic(1, Unhashable)>>,
    <<acyclic(1, "error"), forbid(2, "error", {suite}, {service}, <<"CALLS", Unhashable>>)>>}

(* Replies that cite the target and a file, nothing, or too many things.   *)
reply(stages, restates) == [stages |-> stages, restates |-> restates]

MCReplies(g, id) ==
    {Failure, reply(<<<<id>>, <<>>>>, FALSE), reply(<<<<id>>, <<FileId(models)>>>>, TRUE),
     reply(<<<<id>>, <<FileId(models)>>>>, FALSE), reply(<<<<id>>, <<FileId(suite)>>>>, FALSE)}
=============================================================================
