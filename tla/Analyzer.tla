------------------------------ MODULE Analyzer ------------------------------
(***************************************************************************)
(* TreeSitterAnalyzer.analyze: what is extracted from one source file.     *)
(*                                                                         *)
(* A file is a sequence of lines, one statement each; a statement's scope  *)
(* is the qualified name it is written in, a sequence of names.  Dotted    *)
(* names are sequences.  What a statement may be, and its fields:          *)
(*                                                                         *)
(*   import    alias, module, name ("*" for the module itself)             *)
(*   class     name, bases                                                 *)
(*   function  name, params: [name, type], type <<>> without annotation    *)
(*   assign    lhs, call: what is called on the right-hand side, or <<>>   *)
(*   call      target, models: names in the arguments                      *)
(*   route     name, handler: an endpoint declared with its handler's name *)
(*   text      name: anything else, by its content                         *)
(*                                                                         *)
(* Default exports, decorated routes (their handler is found by its id),   *)
(* annotated variables and the syntax itself are left out.                 *)
(***************************************************************************)
EXTENDS Integers, Sequences, FiniteSets, SequencesExt, FiniteSetsExt

Names == Seq(STRING) \ {<<>>}

Statement ==
    [op : {"import"}, scope : Seq(STRING), alias : STRING, module : Names, name : STRING]
    \union [op : {"class"}, scope : Seq(STRING), name : STRING, bases : SUBSET Names]
    \union [op : {"function"}, scope : Seq(STRING), name : STRING,
            params : SUBSET [name : STRING, type : Seq(STRING)]]
    \union [op : {"assign"}, scope : Seq(STRING), lhs : Names, call : Seq(STRING)]
    \union [op : {"call"}, scope : Seq(STRING), target : Names, models : SUBSET STRING]
    \union [op : {"route"}, scope : Seq(STRING), name : STRING, handler : Names]
    \union [op : {"text"}, scope : Seq(STRING), name : STRING]

QualifiedName(line) == Append(line.scope, line.name)

LinesOf(source, ops) == {i \in DOMAIN source : source[i].op \in ops}

Definitions(source) == LinesOf(source, {"class", "function"})

(* A file defines a qualified name or an alias once, and each scope.       *)
WellFormed(source) ==
    /\ source \in Seq(Statement)
    /\ \A i \in DOMAIN source :
        /\ source[i].scope # <<>> => \E j \in Definitions(source) : QualifiedName(source[j]) = source[i].scope
        /\ source[i].op = "class" => IsFiniteSet(source[i].bases)
    /\ \A i, j \in Definitions(source) : QualifiedName(source[i]) = QualifiedName(source[j]) => i = j
    /\ \A i, j \in LinesOf(source, {"import"}) : source[i].alias = source[j].alias => i = j

(* A definition ends with the last line of its body.                       *)
EndLine(source, i) ==
    LET inside(j) == IsPrefix(QualifiedName(source[i]), source[j].scope)
    IN  Max({j \in i..Len(source) : \A k \in (i + 1)..j : inside(k)})

Kind(source, i) ==
    LET owner == {j \in Definitions(source) : QualifiedName(source[j]) = source[i].scope}
    IN  IF source[i].op = "class" THEN "Class"
        ELSE IF \E j \in owner : source[j].op = "class" THEN "Method"
        ELSE "Function"

Symbol(source, i) ==
    [name |-> QualifiedName(source[i]), kind |-> Kind(source, i), owner |-> source[i].scope,
     start |-> i, end |-> EndLine(source, i), text |-> SubSeq(source, i, EndLine(source, i))]

Params(source) ==
    UNION {{[key |-> <<QualifiedName(source[i]), <<p.name>>>>, type |-> p.type] :
        p \in source[i].params} : i \in LinesOf(source, {"function"})}

Assigned(source, key) ==
    {i \in LinesOf(source, {"assign"}) : <<source[i].scope, source[i].lhs>> = key}

(* What a name is known to be an instance of: the class called in its only *)
(* assignment in the scope, or its annotation unless it is assigned twice. *)
InstanceOf(source, key) ==
    LET once == {i \in Assigned(source, key) : source[i].call # <<>>}
        annotations == {p.type : p \in {q \in Params(source) : q.key = key}} \ {<<>>}
    IN  CASE Cardinality(Assigned(source, key)) > 1 -> {}
          [] once # {} -> {source[i].call : i \in once}
          [] OTHER -> annotations

Keys(source) ==
    {p.key : p \in Params(source)} \union
    {<<source[i].scope, source[i].lhs>> : i \in LinesOf(source, {"assign"})}

Bindings(source) ==
    [key \in {k \in Keys(source) : InstanceOf(source, k) # {}} |->
        CHOOSE target \in InstanceOf(source, key) : TRUE]

Called(line) == IF line.op = "assign" THEN line.call ELSE line.target

(* The references of a file: the bases of its classes and its calls.       *)
References(source) ==
    {[owner |-> source[i].scope, scope |-> source[i].scope, target |-> Called(source[i]),
      kind |-> "CALLS", line |-> i,
      models |-> IF source[i].op = "call" THEN source[i].models ELSE {}] :
        i \in {j \in LinesOf(source, {"call", "assign"}) : Called(source[j]) # <<>>}}
    \union
    UNION {{[owner |-> QualifiedName(source[i]), scope |-> source[i].scope, target |-> base,
             kind |-> "EXTENDS", line |-> i, models |-> {}] :
        base \in source[i].bases} : i \in LinesOf(source, {"class"})}

Imports(source) ==
    LET imports == LinesOf(source, {"import"})
    IN  [alias \in {source[i].alias : i \in imports} |->
            LET i == CHOOSE i \in imports : source[i].alias = alias
            IN  [module |-> source[i].module, name |-> source[i].name, line |-> i]]

Analyze(source) ==
    [symbols |-> {Symbol(source, i) : i \in Definitions(source)},
     imports |-> Imports(source),
     bindings |-> Bindings(source),
     shadowed |-> Keys(source),
     references |-> References(source),
     endpoints |-> {[name |-> source[i].name, handler |-> source[i].handler, line |-> i] :
                        i \in LinesOf(source, {"route"})},
     text |-> source]
=============================================================================
