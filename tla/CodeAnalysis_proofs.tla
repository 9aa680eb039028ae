------------------------ MODULE CodeAnalysis_proofs ------------------------
(***************************************************************************)
(* Theorems about the analysis of a repository, for all that its files may *)
(* hold and all limits.  The properties are of what is computed from the   *)
(* files: the invariant is that both graphs are of files that were there   *)
(* (Versions), the rest are lemmas on the operators, from the lists of     *)
(* Python to the hunks of a patch, in the order of the theorems they serve.*)
(*                                                                         *)
(* Induction is over sets of numbers here: what is to be shown of each     *)
(* number is that it is in the set of those for which it holds.            *)
(***************************************************************************)
EXTENDS CodeAnalysis, FiniteSetTheorems, WellFoundedInduction, SequenceTheorems, TLAPS

-----------------------------------------------------------------------------
(* Numbers, sets and recursive functions.                                  *)

(* A set of numbers that is not empty has a least one.                     *)
LEMMA LeastElement ==
    ASSUME NEW T, T \subseteq Nat, T # {}
    PROVE  \E x \in T : \A y \in T : x <= y
  <1>1. PICK x \in T : \A y \in T : ~(<<y, x>> \in OpToRel(<, Nat))
    BY NatLessThanWellFounded, WFMin
  <1>2. \A y \in T : ~(y < x)  BY <1>1 DEF OpToRel
  <1> QED  BY <1>2

(* A set that has 0, and of each number the next one, has all of them.     *)
LEMMA Induction ==
    ASSUME NEW S, 0 \in S, \A n \in Nat : n \in S => n + 1 \in S
    PROVE  Nat \subseteq S
  <1> SUFFICES ASSUME Nat \ S # {} PROVE FALSE  OBVIOUS
  <1>1. PICK x \in Nat \ S : \A y \in Nat \ S : x <= y  BY LeastElement
  <1>2. x # 0 /\ x - 1 \in Nat  BY <1>1
  <1>3. x - 1 \in S  BY <1>1, <1>2
  <1>4. x - 1 + 1 = x  BY <1>1
  <1> QED  BY <1>1, <1>2, <1>3, <1>4

(* A function of the numbers up to n whose values stay in a set.           *)
LEMMA Stays ==
    ASSUME NEW S, NEW n \in Nat, NEW w, DOMAIN w = 0..n, w = [k \in 0..n |-> w[k]],
           w[0] \in S, \A k \in 1..n : w[k - 1] \in S => w[k] \in S
    PROVE  w \in [0..n -> S]
  <1> DEFINE good == {k \in Nat : k <= n => w[k] \in S}
  <1>1. 0 \in good  OBVIOUS
  <1>2. ASSUME NEW k \in Nat, k \in good PROVE k + 1 \in good
    <2> SUFFICES ASSUME k + 1 <= n PROVE w[k + 1] \in S  OBVIOUS
    <2>1. w[k] \in S /\ k + 1 \in 1..n /\ k + 1 - 1 = k  BY <1>2
    <2> QED  BY <2>1
  <1>3. Nat \subseteq good
    <2> HIDE DEF good
    <2> QED  BY <1>1, <1>2, Induction
  <1>4. \A k \in 0..n : w[k] \in S  BY <1>3
  <1> QED  BY <1>4

(* A function of the numbers up to n can be defined step by step.          *)
Recursive(f, S, a, n, step) ==
    /\ f \in [0..n -> S]
    /\ \A k \in 0..n : f[k] = IF k = 0 THEN a ELSE step[<<k, f[k - 1]>>]

LEMMA Recursion ==
    ASSUME NEW S, NEW a \in S, NEW n \in Nat, NEW step \in [(1..n) \X S -> S]
    PROVE  \E f : Recursive(f, S, a, n, step)
  <1> DEFINE Is(f, m) == \A k \in 0..m : f[k] = IF k = 0 THEN a ELSE step[<<k, f[k - 1]>>]
             good == {m \in Nat : m <= n => \E f \in [0..m -> S] : Is(f, m)}
  <1>1. 0 \in good
    <2>1. [k \in 0..0 |-> a] \in [0..0 -> S] /\ Is([k \in 0..0 |-> a], 0)  OBVIOUS
    <2> QED  BY <2>1
  <1>2. ASSUME NEW m \in Nat, m \in good PROVE m + 1 \in good
    <2> SUFFICES ASSUME m + 1 <= n PROVE \E f \in [0..(m + 1) -> S] : Is(f, m + 1)  OBVIOUS
    <2>1. PICK f \in [0..m -> S] : Is(f, m)  BY <1>2
    <2> DEFINE g == [k \in 0..(m + 1) |-> IF k = m + 1 THEN step[<<m + 1, f[m]>>] ELSE f[k]]
    <2>2. g \in [0..(m + 1) -> S]
      <3>1. m + 1 \in 1..n /\ f[m] \in S  OBVIOUS
      <3>2. step[<<m + 1, f[m]>>] \in S  BY <3>1
      <3>3. \A k \in 0..(m + 1) : k # m + 1 => k \in 0..m  OBVIOUS
      <3> QED  BY <3>2, <3>3
    <2>3. \A k \in 0..(m + 1) : g[k] = IF k = 0 THEN a ELSE step[<<k, g[k - 1]>>]
      <3> TAKE k \in 0..(m + 1)
      <3>1. CASE k = m + 1
        <4>1. k # 0 /\ k - 1 = m /\ m \in 0..(m + 1) /\ m # m + 1  BY <3>1
        <4> QED  BY <3>1, <4>1
      <3>2. CASE k # m + 1
        <4>1. k \in 0..m /\ (k # 0 => k - 1 \in 0..m)  BY <3>2
        <4>2. f[k] = IF k = 0 THEN a ELSE step[<<k, f[k - 1]>>]  BY <2>1, <4>1
        <4>3. k # 0 => k - 1 \in 0..(m + 1) /\ k - 1 # m + 1  BY <3>2
        <4> QED  BY <3>2, <4>1, <4>2, <4>3
      <3> QED  BY <3>1, <3>2
    <2> HIDE DEF g
    <2> QED  BY <2>2, <2>3
  <1>3. n \in good
    <2> HIDE DEF good
    <2>1. Nat \subseteq good  BY <1>1, <1>2, Induction
    <2> QED  BY <2>1
  <1>4. PICK f \in [0..n -> S] : Is(f, n)  BY <1>3
  <1>5. Recursive(f, S, a, n, step)  BY <1>4 DEF Recursive
  <1> QED  BY <1>5

LEMMA MinIsLeast ==
    ASSUME NEW T, T \subseteq Nat, T # {}
    PROVE  Min(T) \in T /\ \A y \in T : Min(T) <= y
  BY LeastElement DEF Min

LEMMA FirstOfIsOne ==
    ASSUME NEW candidates, DOMAIN candidates \subseteq Nat
    PROVE  FirstOf(candidates) = {} \/ \E i \in DOMAIN candidates : FirstOf(candidates) = candidates[i]
  <1> DEFINE found == {i \in DOMAIN candidates : candidates[i] # {}}
  <1>1. FirstOf(candidates) = IF found = {} THEN {} ELSE candidates[Min(found)]  BY DEF FirstOf
  <1>2. found # {} => Min(found) \in found  BY MinIsLeast
  <1> QED  BY <1>1, <1>2

LEMMA SameSet ==
    ASSUME NEW A, NEW B, \A x : x \in A <=> x \in B
    PROVE  A = B
  OBVIOUS

(* The union of the values of a function on a set.                         *)
All(f, I) == UNION {f[j] : j \in I}

LEMMA InUnion ==
    ASSUME NEW f, NEW I
    PROVE  \A x : x \in All(f, I) <=> \E j \in I : x \in f[j]
  BY DEF All

LEMMA UnionOfOneMore ==
    ASSUME NEW f, NEW I, NEW e
    PROVE  All(f, I \union {e}) = All(f, I) \union f[e]
  <1>1. ASSUME NEW x PROVE x \in All(f, I \union {e}) <=> x \in All(f, I) \union f[e]
    <2>1. x \in All(f, I \union {e}) <=> (\E j \in I : x \in f[j]) \/ x \in f[e]  BY InUnion
    <2> QED  BY InUnion, <2>1
  <1> DEFINE both == All(f, I) \union f[e]
  <1>2. \A x : x \in All(f, I \union {e}) <=> x \in both  BY <1>1
  <1> HIDE DEF both
  <1>3. All(f, I \union {e}) = both  BY <1>2, SameSet
  <1> QED  BY <1>3 DEF both

LEMMA FiniteImage ==
    ASSUME NEW S, IsFiniteSet(S), NEW f, S \subseteq DOMAIN f
    PROVE  IsFiniteSet({f[x] : x \in S})
  <1>1. [x \in S |-> f[x]] \in Surjection(S, {f[x] : x \in S})  BY DEF Surjection
  <1> QED  BY <1>1, FS_Surjection

LEMMA FiniteDomain ==
    ASSUME NEW S, NEW list \in Seq(S)
    PROVE  IsFiniteSet(DOMAIN list) /\ DOMAIN list \subseteq Nat /\ \A i \in DOMAIN list : list[i] \in S
  <1>1. Len(list) \in Nat /\ DOMAIN list = 1..Len(list) /\ \A i \in 1..Len(list) : list[i] \in S
    OBVIOUS
  <1> QED  BY <1>1, FS_Interval

-----------------------------------------------------------------------------
(* What is extracted from a file.                                          *)

Symbols(p) ==
    /\ IsFiniteSet(p.symbols)
    /\ \A s \in p.symbols :
        /\ s.name \in Names
        /\ s.kind \in {"Class", "Method", "Function"}
        /\ s.owner # <<>> => \E t \in p.symbols : t.name = s.owner
    /\ \A s, t \in p.symbols : s.name = t.name => s = t

ImportsOf(p) ==
    /\ IsFiniteSet(DOMAIN p.imports)
    /\ \A alias \in DOMAIN p.imports :
        alias \in STRING /\ p.imports[alias].module \in Names /\ p.imports[alias].name \in STRING

ReferencesOf(p) ==
    /\ IsFiniteSet(p.references)
    /\ \A r \in p.references :
        /\ r.kind \in {"CALLS", "EXTENDS"}
        /\ r.target \in Names /\ r.scope \in Seq(STRING) /\ r.models \subseteq STRING
        /\ r.line \in 1..Len(p.text)
        /\ r.owner # <<>> => \E s \in p.symbols : s.name = r.owner
        /\ \A alias \in DOMAIN p.imports : p.imports[alias].line # r.line

EndpointsOf(p) ==
    /\ IsFiniteSet(p.endpoints)
    /\ \A e \in p.endpoints : e.handler \in Names /\ e.line \in 1..Len(p.text)
    /\ \A d, e \in p.endpoints : d.line = e.line => d = e

Extracted(p) ==
    /\ Len(p.text) \in Nat
    /\ Symbols(p) /\ ImportsOf(p) /\ ReferencesOf(p) /\ EndpointsOf(p)
    /\ \A key \in DOMAIN p.bindings : p.bindings[key] \in Names

(* The fields of the statements.                                           *)
LEMMA StatementFields ==
    ASSUME NEW line \in Statement
    PROVE  /\ line.scope \in Seq(STRING)
           /\ line.op = "import" => line.alias \in STRING /\ line.module \in Names /\ line.name \in STRING
           /\ line.op = "class" => line.name \in STRING /\ line.bases \subseteq Names
           /\ line.op = "function" =>
                line.name \in STRING /\ \A p \in line.params : p.type \in Seq(STRING)
           /\ line.op = "assign" => line.lhs \in Names /\ line.call \in Seq(STRING)
           /\ line.op = "call" => line.target \in Names /\ line.models \subseteq STRING
           /\ line.op = "route" => line.handler \in Names
  BY DEF Statement

LEMMA LinesAreStatements ==
    ASSUME NEW source, WellFormed(source), NEW i \in DOMAIN source
    PROVE  source[i] \in Statement
  BY FiniteDomain DEF WellFormed

LEMMA LinesFinite ==
    ASSUME NEW source, WellFormed(source), NEW ops
    PROVE  IsFiniteSet(LinesOf(source, ops)) /\ LinesOf(source, ops) \subseteq DOMAIN source
  <1>1. IsFiniteSet(DOMAIN source)  BY FiniteDomain DEF WellFormed
  <1>2. LinesOf(source, ops) \subseteq DOMAIN source  BY DEF LinesOf
  <1> QED  BY <1>1, <1>2, FS_Subset

LEMMA DefinitionNamed ==
    ASSUME NEW source, WellFormed(source), NEW i \in Definitions(source)
    PROVE  QualifiedName(source[i]) \in Names
  <1>1. source[i] \in Statement /\ source[i].op \in {"class", "function"}
    BY LinesAreStatements DEF Definitions, LinesOf
  <1>2. source[i].scope \in Seq(STRING) /\ source[i].name \in STRING  BY <1>1, StatementFields
  <1>3. Append(source[i].scope, source[i].name) \in Seq(STRING)
        /\ Append(source[i].scope, source[i].name) # <<>>  BY <1>2, AppendProperties
  <1> QED  BY <1>3 DEF QualifiedName, Names

LEMMA SymbolsExtracted ==
    ASSUME NEW source, WellFormed(source)
    PROVE  Symbols(Analyze(source))
  <1> DEFINE p == Analyze(source)
             defs == Definitions(source)
  <1>1. p.symbols = {Symbol(source, i) : i \in defs}  BY DEF Analyze
  <1>2. IsFiniteSet(defs) /\ defs \subseteq DOMAIN source  BY LinesFinite DEF Definitions
  <1>3. \A i \in defs : /\ Symbol(source, i).name = QualifiedName(source[i])
                        /\ Symbol(source, i).kind = Kind(source, i)
                        /\ Symbol(source, i).owner = source[i].scope  BY DEF Symbol
  <1>4. IsFiniteSet(p.symbols)
    <2>1. [i \in defs |-> Symbol(source, i)] \in Surjection(defs, {Symbol(source, i) : i \in defs})
      BY DEF Surjection
    <2> QED  BY <1>1, <1>2, <2>1, FS_Surjection
  <1>5. ASSUME NEW s \in p.symbols
        PROVE  /\ s.name \in Names
               /\ s.kind \in {"Class", "Method", "Function"}
               /\ s.owner # <<>> => \E t \in p.symbols : t.name = s.owner
    <2>1. PICK i \in defs : s = Symbol(source, i)  BY <1>1
    <2>2. s.name \in Names  BY <1>3, <2>1, DefinitionNamed
    <2>3. Kind(source, i) \in {"Class", "Method", "Function"}  BY DEF Kind
    <2>4. ASSUME s.owner # <<>> PROVE \E t \in p.symbols : t.name = s.owner
      <3>1. i \in DOMAIN source /\ source[i].scope # <<>>  BY <1>2, <1>3, <2>1, <2>4
      <3>2. PICK j \in defs : QualifiedName(source[j]) = source[i].scope  BY <3>1 DEF WellFormed
      <3>3. Symbol(source, j) \in p.symbols /\ Symbol(source, j).name = s.owner
        BY <1>1, <1>3, <2>1, <3>2
      <3> QED  BY <3>3
    <2> QED  BY <1>3, <2>1, <2>2, <2>3, <2>4
  <1>6. ASSUME NEW s \in p.symbols, NEW t \in p.symbols, s.name = t.name PROVE s = t
    <2>1. PICK i \in defs : s = Symbol(source, i)  BY <1>1
    <2>2. PICK j \in defs : t = Symbol(source, j)  BY <1>1
    <2>3. QualifiedName(source[i]) = QualifiedName(source[j])  BY <1>3, <1>6, <2>1, <2>2
    <2>4. i = j  BY <2>3 DEF WellFormed
    <2> QED  BY <2>1, <2>2, <2>4
  <1> QED  BY <1>4, <1>5, <1>6 DEF Symbols

LEMMA OwnersDefined ==
    ASSUME NEW source, WellFormed(source), NEW i \in DOMAIN source
    PROVE  /\ source[i].scope # <<>> => \E s \in Analyze(source).symbols : s.name = source[i].scope
           /\ i \in Definitions(source) =>
                \E s \in Analyze(source).symbols : s.name = QualifiedName(source[i])
  <1>1. \A j \in Definitions(source) : /\ Symbol(source, j).name = QualifiedName(source[j])
                                       /\ Symbol(source, j) \in Analyze(source).symbols
    BY DEF Symbol, Analyze
  <1>2. source[i].scope # <<>> => \E j \in Definitions(source) : QualifiedName(source[j]) = source[i].scope
    BY DEF WellFormed
  <1>3. ASSUME source[i].scope # <<>> PROVE \E s \in Analyze(source).symbols : s.name = source[i].scope
    <2>1. PICK j \in Definitions(source) : QualifiedName(source[j]) = source[i].scope  BY <1>2, <1>3
    <2> QED  BY <1>1, <2>1
  <1>4. ASSUME i \in Definitions(source)
        PROVE  \E s \in Analyze(source).symbols : s.name = QualifiedName(source[i])  BY <1>1, <1>4
  <1> QED  BY <1>3, <1>4

LEMMA ImportsExtracted ==
    ASSUME NEW source, WellFormed(source)
    PROVE  /\ ImportsOf(Analyze(source))
           /\ \A alias \in DOMAIN Analyze(source).imports :
                \E i \in LinesOf(source, {"import"}) : Analyze(source).imports[alias].line = i
  <1> DEFINE imports == LinesOf(source, {"import"})
             p == Analyze(source)
             line(alias) == CHOOSE i \in imports : source[i].alias = alias
  <1>1. p.imports = [alias \in {source[i].alias : i \in imports} |->
            [module |-> source[line(alias)].module, name |-> source[line(alias)].name, line |-> line(alias)]]
    BY DEF Analyze, Imports
  <1>2. IsFiniteSet(imports) /\ imports \subseteq DOMAIN source  BY LinesFinite
  <1>3. \A i \in imports : source[i].alias \in STRING /\ source[i].module \in Names /\ source[i].name \in STRING
    BY <1>2, LinesAreStatements, StatementFields DEF LinesOf
  <1>4. DOMAIN p.imports = {source[i].alias : i \in imports}  BY <1>1
  <1>5. IsFiniteSet(DOMAIN p.imports)
    <2>1. [i \in imports |-> source[i].alias] \in Surjection(imports, {source[i].alias : i \in imports})
      BY DEF Surjection
    <2> QED  BY <1>2, <1>4, <2>1, FS_Surjection
  <1>6. \A alias \in DOMAIN p.imports : line(alias) \in imports /\ source[line(alias)].alias = alias
    BY <1>4
  <1>7. \A alias \in DOMAIN p.imports : /\ p.imports[alias].module = source[line(alias)].module
                                        /\ p.imports[alias].name = source[line(alias)].name
                                        /\ p.imports[alias].line = line(alias)
    <2> HIDE DEF p, line, imports
    <2> TAKE alias \in DOMAIN p.imports
    <2> DEFINE record(a) == [module |-> source[line(a)].module, name |-> source[line(a)].name, line |-> line(a)]
    <2>1. p.imports[alias] = record(alias)  BY <1>1, <1>4
    <2> QED  BY <2>1
  <1> HIDE DEF p, imports, line
  <1>8. \A alias \in DOMAIN p.imports :
            alias \in STRING /\ p.imports[alias].module \in Names /\ p.imports[alias].name \in STRING
    BY <1>3, <1>6, <1>7
  <1>9. \A alias \in DOMAIN p.imports : \E i \in imports : p.imports[alias].line = i  BY <1>6, <1>7
  <1>10. ImportsOf(p)  BY <1>5, <1>8 DEF ImportsOf
  <1> QED  BY <1>9, <1>10 DEF p, imports

(* The calls of a file, by their lines, and the bases of its classes.      *)
CallReference(source, i) ==
    [owner |-> source[i].scope, scope |-> source[i].scope, target |-> Called(source[i]),
     kind |-> "CALLS", line |-> i, models |-> IF source[i].op = "call" THEN source[i].models ELSE {}]

BaseReference(source, i, parent) ==
    [owner |-> QualifiedName(source[i]), scope |-> source[i].scope, target |-> parent,
     kind |-> "EXTENDS", line |-> i, models |-> {}]

Calls(source) == {i \in LinesOf(source, {"call", "assign"}) : Called(source[i]) # <<>>}

Classes(source) == LinesOf(source, {"class"})

LEMMA ReferencesSplit ==
    ASSUME NEW source
    PROVE  References(source) =
                {CallReference(source, i) : i \in Calls(source)} \union
                UNION {{BaseReference(source, i, parent) : parent \in source[i].bases} : i \in Classes(source)}
  BY DEF References, CallReference, BaseReference, Calls, Classes

LEMMA FiniteUnion ==
    ASSUME NEW I, IsFiniteSet(I), NEW f, \A i \in I : IsFiniteSet(f[i])
    PROVE  IsFiniteSet(All(f, I))
  <1> DEFINE good == {k \in Nat : \A J \in SUBSET I : Cardinality(J) = k => IsFiniteSet(All(f, J))}
  <1>1. 0 \in good
    <2> SUFFICES ASSUME NEW J \in SUBSET I, Cardinality(J) = 0 PROVE IsFiniteSet(All(f, J))  OBVIOUS
    <2>1. J = {}  BY FS_Subset, FS_EmptySet
    <2>2. All(f, {}) = {}  BY DEF All
    <2> QED  BY <2>1, <2>2, FS_EmptySet
  <1>2. ASSUME NEW k \in Nat, k \in good PROVE k + 1 \in good
    <2> SUFFICES ASSUME NEW J \in SUBSET I, Cardinality(J) = k + 1 PROVE IsFiniteSet(All(f, J))
      OBVIOUS
    <2>1. IsFiniteSet(J) /\ J # {}
      <3>1. IsFiniteSet(J)  BY FS_Subset
      <3>2. Cardinality(J) # 0  OBVIOUS
      <3> QED  BY <3>1, <3>2, FS_EmptySet
    <2>2. PICK e : e \in J  BY <2>1
    <2> DEFINE rest == J \ {e}
    <2>3. Cardinality(rest) = k /\ rest \in SUBSET I
      <3>1. Cardinality(rest) = Cardinality(J) - 1  BY <2>1, <2>2, FS_RemoveElement
      <3> QED  BY <3>1
    <2>4. IsFiniteSet(All(f, rest)) /\ IsFiniteSet(f[e])  BY <1>2, <2>2, <2>3
    <2>5. J = rest \union {e}  BY <2>2
    <2>6. All(f, rest \union {e}) = All(f, rest) \union f[e]
      <3> HIDE DEF rest
      <3> QED  BY UnionOfOneMore
    <2> HIDE DEF rest
    <2> QED  BY <2>4, <2>5, <2>6, FS_Union
  <1>3. Cardinality(I) \in good
    <2> HIDE DEF good
    <2> QED  BY <1>1, <1>2, Induction, FS_CardinalityType
  <1> QED  BY <1>3

LEMMA ReferencesFinite ==
    ASSUME NEW source, WellFormed(source)
    PROVE  IsFiniteSet(References(source))
  <1> DEFINE calls == Calls(source)
             classes == Classes(source)
             call == [i \in calls |-> CallReference(source, i)]
             of == [i \in classes |-> {BaseReference(source, i, parent) : parent \in source[i].bases}]
  <1>1. IsFiniteSet(LinesOf(source, {"call", "assign"})) /\ IsFiniteSet(classes) /\ classes \subseteq DOMAIN source
    BY LinesFinite DEF Classes
  <1>2. IsFiniteSet(calls)  BY <1>1, FS_Subset DEF Calls
  <1>3. IsFiniteSet({call[i] : i \in calls})
    <2>1. calls \subseteq DOMAIN call  OBVIOUS
    <2> HIDE DEF call, calls
    <2> QED  BY <1>2, <2>1, FiniteImage
  <1>4. ASSUME NEW i \in classes PROVE IsFiniteSet(of[i])
    <2> DEFINE parent == [b \in source[i].bases |-> BaseReference(source, i, b)]
    <2>1. i \in DOMAIN source /\ source[i].op = "class"  BY DEF Classes, LinesOf
    <2>2. IsFiniteSet(source[i].bases)  BY <2>1 DEF WellFormed
    <2>3. source[i].bases \subseteq DOMAIN parent /\ of[i] = {parent[b] : b \in source[i].bases}
      OBVIOUS
    <2> HIDE DEF of, parent
    <2> QED  BY <2>2, <2>3, FiniteImage
  <1>5. IsFiniteSet(All(of, classes))
    <2> HIDE DEF of, classes
    <2> QED  BY <1>1, <1>4, FiniteUnion
  <1>6. References(source) = {call[i] : i \in calls} \union All(of, classes)
    BY ReferencesSplit DEF All
  <1> HIDE DEF call, of
  <1> QED  BY <1>3, <1>5, <1>6, FS_Union

LEMMA ReferencesExtracted ==
    ASSUME NEW source, WellFormed(source)
    PROVE  ReferencesOf(Analyze(source))
  <1> DEFINE p == Analyze(source)
  <1>1. p.references = References(source) /\ p.text = source  BY DEF Analyze
  <1>6. DOMAIN source = 1..Len(source)  BY LenProperties DEF WellFormed
  <1>2. ASSUME NEW i \in DOMAIN source, NEW alias \in DOMAIN p.imports,
               source[i].op # "import"
        PROVE  p.imports[alias].line # i
    <2>1. PICK j \in LinesOf(source, {"import"}) : p.imports[alias].line = j  BY ImportsExtracted
    <2> QED  BY <1>2, <2>1 DEF LinesOf
  <1>3. ASSUME NEW r \in References(source)
        PROVE  /\ r.kind \in {"CALLS", "EXTENDS"}
               /\ r.target \in Names /\ r.scope \in Seq(STRING) /\ r.models \subseteq STRING
               /\ r.line \in DOMAIN source
               /\ r.owner # <<>> => \E s \in p.symbols : s.name = r.owner
               /\ \A alias \in DOMAIN p.imports : p.imports[alias].line # r.line
    <2>1. CASE \E i \in Calls(source) : r = CallReference(source, i)
      <3>1. PICK i \in Calls(source) : r = CallReference(source, i)  BY <2>1
      <3>2. i \in DOMAIN source /\ source[i].op \in {"call", "assign"} /\ Called(source[i]) # <<>>
        BY DEF Calls, LinesOf
      <3>3. source[i] \in Statement  BY <3>2, LinesAreStatements
      <3>4. /\ r.kind = "CALLS" /\ r.target = Called(source[i]) /\ r.scope = source[i].scope
            /\ r.owner = source[i].scope /\ r.line = i
            /\ r.models = IF source[i].op = "call" THEN source[i].models ELSE {}
        BY <3>1 DEF CallReference
      <3>5. Called(source[i]) \in Names  BY <3>2, <3>3, StatementFields DEF Called, Names
      <3>6. r.scope \in Seq(STRING) /\ r.models \subseteq STRING
        BY <3>2, <3>3, <3>4, StatementFields
      <3>7. \A alias \in DOMAIN p.imports : p.imports[alias].line # r.line  BY <1>2, <3>2, <3>4
      <3>8. r.owner # <<>> => \E s \in p.symbols : s.name = r.owner  BY <3>2, <3>4, OwnersDefined
      <3> QED  BY <3>2, <3>4, <3>5, <3>6, <3>7, <3>8
    <2>2. CASE \E i \in Classes(source) : \E parent \in source[i].bases : r = BaseReference(source, i, parent)
      <3>9. PICK i \in Classes(source) : \E parent \in source[i].bases : r = BaseReference(source, i, parent)
        BY <2>2
      <3>1. PICK parent \in source[i].bases : r = BaseReference(source, i, parent)  BY <3>9
      <3>2. i \in DOMAIN source /\ source[i].op = "class" /\ i \in Definitions(source)
        BY DEF Classes, Definitions, LinesOf
      <3>3. source[i] \in Statement  BY <3>2, LinesAreStatements
      <3>4. /\ r.kind = "EXTENDS" /\ r.target = parent /\ r.scope = source[i].scope
            /\ r.owner = QualifiedName(source[i]) /\ r.line = i /\ r.models = {}
        BY <3>1 DEF BaseReference
      <3>5. r.target \in Names /\ r.scope \in Seq(STRING)
        BY <3>1, <3>2, <3>3, <3>4, StatementFields
      <3>6. \A alias \in DOMAIN p.imports : p.imports[alias].line # r.line  BY <1>2, <3>2, <3>4
      <3>7. \E s \in p.symbols : s.name = r.owner  BY <3>2, <3>4, OwnersDefined
      <3> QED  BY <3>2, <3>4, <3>5, <3>6, <3>7
    <2> QED  BY <2>1, <2>2, ReferencesSplit
  <1>4. IsFiniteSet(p.references)  BY <1>1, ReferencesFinite
  <1> HIDE DEF p
  <1>5. ReferencesOf(p)  BY <1>1, <1>3, <1>4, <1>6 DEF ReferencesOf
  <1> QED  BY <1>5 DEF p

LEMMA EndpointsExtracted ==
    ASSUME NEW source, WellFormed(source)
    PROVE  EndpointsOf(Analyze(source))
  <1> DEFINE p == Analyze(source)
             routes == LinesOf(source, {"route"})
             endpoint == [i \in routes |-> [name |-> source[i].name, handler |-> source[i].handler, line |-> i]]
  <1>1. p.endpoints = {endpoint[i] : i \in routes} /\ p.text = source  BY DEF Analyze
  <1>7. DOMAIN source = 1..Len(source)  BY LenProperties DEF WellFormed
  <1>2. IsFiniteSet(routes)  BY LinesFinite
  <1>3. IsFiniteSet(p.endpoints)
    <2>1. routes \subseteq DOMAIN endpoint  OBVIOUS
    <2> HIDE DEF endpoint, routes, p
    <2> QED  BY <1>1, <1>2, <2>1, FiniteImage
  <1>4. \A i \in routes : source[i] \in Statement /\ source[i].op = "route" /\ i \in DOMAIN source
    BY LinesAreStatements DEF LinesOf
  <1>5. \A i \in routes : endpoint[i].line = i /\ endpoint[i].handler \in Names
    BY <1>4, StatementFields
  <1> HIDE DEF p, endpoint, routes
  <1>6. EndpointsOf(p)  BY <1>1, <1>3, <1>4, <1>5, <1>7 DEF EndpointsOf
  <1> QED  BY <1>6 DEF p

LEMMA BindingsNamed ==
    ASSUME NEW source, WellFormed(source), NEW key \in DOMAIN Analyze(source).bindings
    PROVE  Analyze(source).bindings[key] \in Names
  <1>1. Analyze(source).bindings = Bindings(source)  BY DEF Analyze
  <1>2. InstanceOf(source, key) # {} /\ Bindings(source)[key] \in InstanceOf(source, key)
    BY <1>1 DEF Bindings
  <1>3. ASSUME NEW i \in Assigned(source, key), source[i].call # <<>>
        PROVE  source[i].call \in Names
    <2>1. i \in DOMAIN source /\ source[i].op = "assign"  BY DEF Assigned, LinesOf
    <2> QED  BY <1>3, <2>1, LinesAreStatements, StatementFields DEF Names
  <1>4. ASSUME NEW q \in Params(source), q.type # <<>> PROVE q.type \in Names
    <2>1. PICK i \in LinesOf(source, {"function"}) :
            q \in {[key |-> <<QualifiedName(source[i]), <<r.name>>>>, type |-> r.type] : r \in source[i].params}
      BY DEF Params
    <2>2. PICK r \in source[i].params :
            q = [key |-> <<QualifiedName(source[i]), <<r.name>>>>, type |-> r.type]
      BY <2>1
    <2>3. source[i] \in Statement /\ source[i].op = "function"  BY LinesAreStatements DEF LinesOf
    <2>4. r.type \in Seq(STRING)  BY <2>3, StatementFields
    <2> QED  BY <1>4, <2>2, <2>4 DEF Names
  <1> DEFINE once == {i \in Assigned(source, key) : source[i].call # <<>>}
             annotations == {p.type : p \in {q \in Params(source) : q.key = key}} \ {<<>>}
  <1>5. InstanceOf(source, key) \in {{}, {source[i].call : i \in once}, annotations}
    BY DEF InstanceOf
  <1>6. {source[i].call : i \in once} \subseteq Names  BY <1>3
  <1>7. annotations \subseteq Names  BY <1>4
  <1>8. InstanceOf(source, key) \subseteq Names  BY <1>5, <1>6, <1>7
  <1> QED  BY <1>1, <1>2, <1>8

(* Whatever a file holds, what is extracted from it is of this shape.      *)
LEMMA AnalyzeExtracts ==
    ASSUME NEW source, WellFormed(source)
    PROVE  Extracted(Analyze(source))
  <1>1. Analyze(source).text = source  BY DEF Analyze
  <1>2. Len(source) \in Nat  BY LenProperties DEF WellFormed
  <1> QED  BY <1>1, <1>2, SymbolsExtracted, ImportsExtracted, ReferencesExtracted, EndpointsExtracted, BindingsNamed DEF Extracted

-----------------------------------------------------------------------------
(* Lists.                                                                  *)

LEMMA InList ==
    ASSUME NEW S, NEW list \in Seq(S)
    PROVE  /\ Len(list) \in Nat
           /\ ToSet(list) \subseteq S
           /\ \A x : x \in ToSet(list) <=> \E i \in 1..Len(list) : list[i] = x
  BY DEF ToSet

LEMMA InNoList ==
    /\ ToSet(<<>>) = {}
    /\ \A S : <<>> \in Seq(S)
  BY DEF ToSet

LEMMA InShortList ==
    ASSUME NEW S, NEW x \in S
    PROVE  <<x>> \in Seq(S) /\ Len(<<x>>) = 1 /\ ToSet(<<x>>) = {x}
  BY DEF ToSet

LEMMA InLongerList ==
    ASSUME NEW S, NEW list \in Seq(S), NEW e \in S
    PROVE  /\ Append(list, e) \in Seq(S)
           /\ Len(Append(list, e)) = Len(list) + 1
           /\ ToSet(Append(list, e)) = ToSet(list) \union {e}
  <1>1. /\ Append(list, e) \in Seq(S)
        /\ Len(Append(list, e)) = Len(list) + 1
        /\ \A i \in 1..Len(list) : Append(list, e)[i] = list[i]
        /\ Append(list, e)[Len(list) + 1] = e
        /\ Len(list) \in Nat  BY AppendProperties
  <1>2. ASSUME NEW x PROVE x \in ToSet(Append(list, e)) <=> x \in ToSet(list) \/ x = e
    <2>1. x \in ToSet(Append(list, e)) <=> \E i \in 1..(Len(list) + 1) : Append(list, e)[i] = x
      <3> DEFINE longer == Append(list, e)
      <3>1. longer \in Seq(S) /\ Len(longer) = Len(list) + 1  BY <1>1
      <3> HIDE DEF longer
      <3>2. x \in ToSet(longer) <=> \E i \in 1..(Len(list) + 1) : longer[i] = x  BY <3>1, InList
      <3> QED  BY <3>2 DEF longer
    <2>2. x \in ToSet(list) <=> \E i \in 1..Len(list) : list[i] = x  BY InList
    <2>3. \A i \in 1..(Len(list) + 1) : i \in 1..Len(list) \/ i = Len(list) + 1  BY <1>1
    <2>4. \A i \in 1..Len(list) : i \in 1..(Len(list) + 1)  BY <1>1
    <2>5. Len(list) + 1 \in 1..(Len(list) + 1)  BY <1>1
    <2>6. CASE x \in ToSet(Append(list, e))  BY <1>1, <2>1, <2>2, <2>3, <2>6
    <2>7. CASE x \in ToSet(list) \/ x = e  BY <1>1, <2>1, <2>2, <2>4, <2>5, <2>7
    <2> QED  BY <2>6, <2>7
  <1> DEFINE both == ToSet(list) \union {e}
  <1>3. \A x : x \in ToSet(Append(list, e)) <=> x \in both  BY <1>2
  <1> HIDE DEF both
  <1>4. ToSet(Append(list, e)) = both  BY <1>3, SameSet
  <1>5. ToSet(Append(list, e)) = ToSet(list) \union {e}  BY <1>4 DEF both
  <1> QED  BY <1>1, <1>5

LEMMA InLists ==
    ASSUME NEW S, NEW a \in Seq(S), NEW b \in Seq(S)
    PROVE  /\ a \o b \in Seq(S)
           /\ Len(a \o b) = Len(a) + Len(b)
           /\ \A x : x \in ToSet(a \o b) <=> x \in ToSet(a) \/ x \in ToSet(b)
  <1>1. /\ a \o b \in Seq(S)
        /\ Len(a \o b) = Len(a) + Len(b)
        /\ \A i \in 1..(Len(a) + Len(b)) : (a \o b)[i] = IF i <= Len(a) THEN a[i] ELSE b[i - Len(a)]
        /\ Len(a) \in Nat /\ Len(b) \in Nat  BY ConcatProperties
  <1> DEFINE c == a \o b
  <1> HIDE DEF c
  <1>2. /\ \A x : x \in ToSet(c) <=> \E i \in 1..(Len(a) + Len(b)) : c[i] = x
        /\ \A x : x \in ToSet(a) <=> \E i \in 1..Len(a) : a[i] = x
        /\ \A x : x \in ToSet(b) <=> \E i \in 1..Len(b) : b[i] = x  BY <1>1, InList DEF c
  <1>3. ASSUME NEW x, x \in ToSet(c) PROVE x \in ToSet(a) \/ x \in ToSet(b)
    <2>1. PICK i \in 1..(Len(a) + Len(b)) : c[i] = x  BY <1>2, <1>3
    <2>2. i <= Len(a) => i \in 1..Len(a)  BY <1>1
    <2>3. ~(i <= Len(a)) => i - Len(a) \in 1..Len(b)  BY <1>1
    <2>4. c[i] = IF i <= Len(a) THEN a[i] ELSE b[i - Len(a)]  BY <1>1 DEF c
    <2> QED  BY <1>2, <2>1, <2>2, <2>3, <2>4
  <1>4. ASSUME NEW x, x \in ToSet(a) PROVE x \in ToSet(c)
    <2>1. PICK i \in 1..Len(a) : a[i] = x  BY <1>2, <1>4
    <2>2. i \in 1..(Len(a) + Len(b)) /\ i <= Len(a)  BY <1>1
    <2>3. c[i] = a[i]  BY <1>1, <2>2 DEF c
    <2> QED  BY <1>2, <2>1, <2>2, <2>3
  <1>5. ASSUME NEW x, x \in ToSet(b) PROVE x \in ToSet(c)
    <2>1. PICK i \in 1..Len(b) : b[i] = x  BY <1>2, <1>5
    <2>2. i + Len(a) \in 1..(Len(a) + Len(b)) /\ ~(i + Len(a) <= Len(a)) /\ i + Len(a) - Len(a) = i
      BY <1>1
    <2>3. c[i + Len(a)] = b[i]  BY <1>1, <2>2 DEF c
    <2> QED  BY <1>2, <2>1, <2>2, <2>3
  <1>6. \A x : x \in ToSet(c) <=> x \in ToSet(a) \/ x \in ToSet(b)  BY <1>3, <1>4, <1>5
  <1> QED  BY <1>1, <1>6 DEF c

LEMMA InFirst ==
    ASSUME NEW S, NEW list \in Seq(S), NEW n \in Nat
    PROVE  /\ First(n, list) \in Seq(S)
           /\ Len(First(n, list)) = AtMost(n, Len(list))
           /\ ToSet(First(n, list)) \subseteq ToSet(list)
           /\ Len(list) <= n => First(n, list) = list
           /\ n # 0 => (First(n, list) = <<>> <=> list = <<>>)
  <1>1. Len(list) \in Nat /\ AtMost(n, Len(list)) \in 0..Len(list)  BY DEF AtMost
  <1> DEFINE m == AtMost(n, Len(list))
  <1> HIDE DEF m
  <1>2. \A i \in 1..m : i \in 1..Len(list) /\ list[i] \in S  BY <1>1 DEF m
  <1>3. /\ First(n, list) \in Seq(S)
        /\ Len(First(n, list)) = m
        /\ \A i \in 1..m : First(n, list)[i] = list[i]
    <2>1. m \in Nat /\ First(n, list) = SubSeq(list, 1, m)  BY <1>1 DEF First, m
    <2>2. /\ SubSeq(list, 1, m) \in Seq(S)
          /\ Len(SubSeq(list, 1, m)) = IF 1 <= m THEN m - 1 + 1 ELSE 0
          /\ \A i \in 1..(m - 1 + 1) : SubSeq(list, 1, m)[i] = list[1 + i - 1]
      BY <1>2, <2>1, SubSeqProperties
    <2>3. (IF 1 <= m THEN m - 1 + 1 ELSE 0) = m /\ 1..(m - 1 + 1) = 1..m /\ \A i \in 1..m : 1 + i - 1 = i
      BY <2>1
    <2> QED  BY <2>1, <2>2, <2>3
  <1>4. ToSet(First(n, list)) \subseteq ToSet(list)  BY <1>2, <1>3, InList
  <1>5. ASSUME Len(list) <= n PROVE First(n, list) = list
    <2>1. m = Len(list)  BY <1>1, <1>5 DEF m, AtMost
    <2> QED  BY <2>1, SubSeqFull DEF First, m
  <1>6. n # 0 => (First(n, list) = <<>> <=> list = <<>>)
    <2>1. n # 0 => (m = 0 <=> Len(list) = 0)  BY <1>1 DEF m, AtMost
    <2>2. \A s \in Seq(S) : s = <<>> <=> Len(s) = 0  BY EmptySeq
    <2> QED  BY <1>3, <2>1, <2>2
  <1> QED  BY <1>3, <1>4, <1>5, <1>6 DEF m

LEMMA InReverse ==
    ASSUME NEW S, NEW list \in Seq(S)
    PROVE  Reverse(list) \in Seq(S) /\ ToSet(Reverse(list)) = ToSet(list)
  <1> DEFINE n == Len(list)
             r == Reverse(list)
  <1>1. n \in Nat  OBVIOUS
  <1>2. r = [i \in 1..n |-> list[n - i + 1]]  BY DEF Reverse
  <1>3. \A i \in 1..n : n - i + 1 \in 1..n /\ n - (n - i + 1) + 1 = i  BY <1>1
  <1>4. r \in Seq(S) /\ Len(r) = n  BY <1>2, <1>3
  <1>5. \A i \in 1..n : r[i] = list[n - i + 1] /\ list[i] = r[n - i + 1]  BY <1>2, <1>3
  <1> HIDE DEF r
  <1>6. \A x : x \in ToSet(r) <=> x \in ToSet(list)
    <2>1. \A x : x \in ToSet(r) <=> \E i \in 1..n : r[i] = x  BY <1>4, InList
    <2>2. \A x : x \in ToSet(list) <=> \E i \in 1..n : list[i] = x  BY InList
    <2> HIDE DEF n
    <2>3. ASSUME NEW x, x \in ToSet(r) PROVE x \in ToSet(list)
      <3>1. PICK i \in 1..n : r[i] = x  BY <2>1, <2>3
      <3> QED  BY <1>3, <1>5, <2>2, <3>1
    <2>4. ASSUME NEW x, x \in ToSet(list) PROVE x \in ToSet(r)
      <3>1. PICK i \in 1..n : list[i] = x  BY <2>2, <2>4
      <3> QED  BY <1>3, <1>5, <2>1, <3>1
    <2> QED  BY <2>3, <2>4
  <1>7. ToSet(r) = ToSet(list)  BY <1>6, SameSet
  <1> QED  BY <1>4, <1>7 DEF r

(* What is kept of a list, element by element.                             *)
Keeping(w, S, list, ids) ==
    /\ w \in [0..Len(list) -> Seq(S)]
    /\ w[0] = <<>>
    /\ \A k \in 1..Len(list) :
        w[k] = IF list[k] \in ids THEN Append(w[k - 1], list[k]) ELSE w[k - 1]
    /\ Among(list, ids) = w[Len(list)]

LEMMA AmongSteps ==
    ASSUME NEW S, NEW list \in Seq(S), NEW ids
    PROVE  \E w : Keeping(w, S, list, ids)
  <1> DEFINE n == Len(list)
             Add(kept, id) == IF id \in ids THEN Append(kept, id) ELSE kept
             step == [p \in (1..n) \X Seq(S) |-> Add(p[2], list[p[1]])]
             Rec(f) == f = [k \in 0..n |-> IF k = 0 THEN <<>> ELSE Add(f[k - 1], list[k])]
             w == CHOOSE f : Rec(f)
  <1>1. n \in Nat /\ \A k \in 1..n : list[k] \in S  OBVIOUS
  <1>2. \A k \in 1..n : \A kept \in Seq(S) : Add(kept, list[k]) \in Seq(S)  BY <1>1, InLongerList
  <1> HIDE DEF n
  <1>3. step \in [(1..n) \X Seq(S) -> Seq(S)]
    <2> HIDE DEF Add
    <2> QED  BY <1>2
  <1>4. PICK f : Recursive(f, Seq(S), <<>>, n, step)
    <2> DEFINE T == Seq(S)
               none == <<>>
    <2>1. none \in T  BY InNoList
    <2>2. step \in [(1..n) \X T -> T]  BY <1>3
    <2> HIDE DEF step, T, none
    <2>3. \E f : Recursive(f, T, none, n, step)  BY <1>1, <2>1, <2>2, Recursion
    <2> QED  BY <2>3 DEF T, none
  <1>5. Rec(f)
    <2>1. \A k \in 0..n : k # 0 => f[k - 1] \in Seq(S) /\ k \in 1..n  BY <1>1, <1>4 DEF Recursive
    <2> HIDE DEF Add
    <2>2. \A k \in 0..n : k # 0 => step[<<k, f[k - 1]>>] = Add(f[k - 1], list[k])  BY <2>1
    <2>3. \A k \in 0..n : f[k] = IF k = 0 THEN <<>> ELSE Add(f[k - 1], list[k])
      BY <1>4, <2>2 DEF Recursive
    <2> QED  BY <1>4, <2>3 DEF Recursive
  <1>6. Rec(w)
    <2> HIDE DEF Rec
    <2> QED  BY <1>5
  <1>7. Among(list, ids) = w[n]  BY DEF Among, n
  <1>8. w[0] = <<>> /\ \A k \in 1..n : w[k] = Add(w[k - 1], list[k])
    <2> HIDE DEF w, Add
    <2>1. \A k \in 1..n : k \in 0..n /\ k # 0  BY <1>1
    <2> QED  BY <1>1, <1>6, <2>1
  <1>9. w \in [0..n -> Seq(S)]
    <2> HIDE DEF w, Add
    <2>1. DOMAIN w = 0..n /\ w = [k \in 0..n |-> w[k]]  BY <1>6
    <2>2. w[0] \in Seq(S) /\ \A k \in 1..n : w[k - 1] \in Seq(S) => w[k] \in Seq(S)
      BY <1>2, <1>8, InNoList
    <2> QED  BY <1>1, <2>1, <2>2, Stays
  <1> HIDE DEF w
  <1>10. Keeping(w, S, list, ids)  BY <1>7, <1>8, <1>9 DEF n, Keeping
  <1> QED  BY <1>10

LEMMA InAmong ==
    ASSUME NEW S, NEW list \in Seq(S), NEW ids
    PROVE  /\ Among(list, ids) \in Seq(S)
           /\ ToSet(Among(list, ids)) = ToSet(list) \intersect ids
  <1> DEFINE n == Len(list)
  <1>1. n \in Nat /\ \A k \in 1..n : list[k] \in S  OBVIOUS
  <1>11. PICK w : Keeping(w, S, list, ids)  BY AmongSteps
  <1>2. /\ w \in [0..n -> Seq(S)] /\ w[0] = <<>>
        /\ \A k \in 1..n : w[k] = IF list[k] \in ids THEN Append(w[k - 1], list[k]) ELSE w[k - 1]
        /\ Among(list, ids) = w[n]  BY <1>11 DEF Keeping
  <1> DEFINE good == {k \in Nat : k <= n =>
                        \A x : x \in ToSet(w[k]) <=> x \in ids /\ \E i \in 1..k : list[i] = x}
  <1> HIDE DEF n
  <1>3. 0 \in good  BY <1>2, InNoList
  <1>4. ASSUME NEW k \in Nat, k \in good PROVE k + 1 \in good
    <2> SUFFICES ASSUME k + 1 <= n, NEW x
                 PROVE  x \in ToSet(w[k + 1]) <=> x \in ids /\ \E i \in 1..(k + 1) : list[i] = x
      OBVIOUS
    <2>1. w[k] \in Seq(S) /\ k + 1 \in 1..n /\ k + 1 - 1 = k  BY <1>1, <1>2, <1>4
    <2>2. w[k + 1] = IF list[k + 1] \in ids THEN Append(w[k], list[k + 1]) ELSE w[k]  BY <1>2, <2>1
    <2>3. x \in ToSet(w[k]) <=> x \in ids /\ \E i \in 1..k : list[i] = x  BY <1>1, <1>2, <1>4
    <2>4. x \in ToSet(w[k + 1]) <=> x \in ToSet(w[k]) \/ (list[k + 1] \in ids /\ x = list[k + 1])
      BY <1>1, <2>1, <2>2, InLongerList
    <2>5. (\E i \in 1..(k + 1) : list[i] = x) <=> (\E i \in 1..k : list[i] = x) \/ list[k + 1] = x
      <3>1. \A i \in 1..(k + 1) : i \in 1..k \/ i = k + 1  OBVIOUS
      <3>2. \A i \in 1..k : i \in 1..(k + 1)  OBVIOUS
      <3>3. k + 1 \in 1..(k + 1)  OBVIOUS
      <3> QED  BY <3>1, <3>2, <3>3
    <2> QED  BY <2>3, <2>4, <2>5
  <1>5. n \in good
    <2> HIDE DEF good
    <2>1. Nat \subseteq good  BY <1>3, <1>4, Induction
    <2> QED  BY <1>1, <2>1
  <1>6. \A x : x \in ToSet(w[n]) <=> x \in ids /\ \E i \in 1..n : list[i] = x
    <2>1. n <= n  BY <1>1
    <2> QED  BY <1>5, <2>1
  <1>7. \A x : x \in ToSet(list) <=> \E i \in 1..n : list[i] = x  BY InList DEF n
  <1> DEFINE both == ToSet(list) \intersect ids
  <1>8. \A x : x \in ToSet(w[n]) <=> x \in both  BY <1>6, <1>7
  <1> HIDE DEF both
  <1>9. ToSet(w[n]) = both  BY <1>8, SameSet
  <1>10. w[n] \in Seq(S)  BY <1>1, <1>2
  <1> QED  BY <1>2, <1>9, <1>10 DEF both

(* A list without repetitions, element by element.                         *)
Uniting(w, S, list) ==
    /\ w \in [0..Len(list) -> Seq(S)]
    /\ w[0] = <<>>
    /\ \A k \in 1..Len(list) :
        w[k] = IF list[k] \in ToSet(w[k - 1]) THEN w[k - 1] ELSE Append(w[k - 1], list[k])
    /\ Unique(list) = w[Len(list)]

LEMMA UniqueSteps ==
    ASSUME NEW S, NEW list \in Seq(S)
    PROVE  \E w : Uniting(w, S, list)
  <1> DEFINE n == Len(list)
             Add(seen, id) == IF id \in ToSet(seen) THEN seen ELSE Append(seen, id)
             step == [p \in (1..n) \X Seq(S) |-> Add(p[2], list[p[1]])]
             Rec(f) == f = [k \in 0..n |-> IF k = 0 THEN <<>> ELSE Add(f[k - 1], list[k])]
             w == CHOOSE f : Rec(f)
  <1>1. n \in Nat /\ \A k \in 1..n : list[k] \in S  OBVIOUS
  <1>2. \A k \in 1..n : \A seen \in Seq(S) : Add(seen, list[k]) \in Seq(S)  BY <1>1, InLongerList
  <1> HIDE DEF n
  <1>3. step \in [(1..n) \X Seq(S) -> Seq(S)]
    <2> HIDE DEF Add
    <2> QED  BY <1>2
  <1>4. PICK f : Recursive(f, Seq(S), <<>>, n, step)
    <2> DEFINE T == Seq(S)
               none == <<>>
    <2>1. none \in T  BY InNoList
    <2>2. step \in [(1..n) \X T -> T]  BY <1>3
    <2> HIDE DEF step, T, none
    <2>3. \E f : Recursive(f, T, none, n, step)  BY <1>1, <2>1, <2>2, Recursion
    <2> QED  BY <2>3 DEF T, none
  <1>5. Rec(f)
    <2>1. \A k \in 0..n : k # 0 => f[k - 1] \in Seq(S) /\ k \in 1..n  BY <1>1, <1>4 DEF Recursive
    <2> HIDE DEF Add
    <2>2. \A k \in 0..n : k # 0 => step[<<k, f[k - 1]>>] = Add(f[k - 1], list[k])  BY <2>1
    <2>3. \A k \in 0..n : f[k] = IF k = 0 THEN <<>> ELSE Add(f[k - 1], list[k])
      BY <1>4, <2>2 DEF Recursive
    <2> QED  BY <1>4, <2>3 DEF Recursive
  <1>6. Rec(w)
    <2> HIDE DEF Rec
    <2> QED  BY <1>5
  <1>7. Unique(list) = w[n]  BY DEF Unique, n
  <1>8. w[0] = <<>> /\ \A k \in 1..n : w[k] = Add(w[k - 1], list[k])
    <2> HIDE DEF w, Add
    <2>1. \A k \in 1..n : k \in 0..n /\ k # 0  BY <1>1
    <2> QED  BY <1>1, <1>6, <2>1
  <1>9. w \in [0..n -> Seq(S)]
    <2> HIDE DEF w, Add
    <2>1. DOMAIN w = 0..n /\ w = [k \in 0..n |-> w[k]]  BY <1>6
    <2>2. w[0] \in Seq(S) /\ \A k \in 1..n : w[k - 1] \in Seq(S) => w[k] \in Seq(S)
      BY <1>2, <1>8, InNoList
    <2> QED  BY <1>1, <2>1, <2>2, Stays
  <1> HIDE DEF w
  <1>10. Uniting(w, S, list)  BY <1>7, <1>8, <1>9 DEF n, Uniting
  <1> QED  BY <1>10

LEMMA InUnique ==
    ASSUME NEW S, NEW list \in Seq(S)
    PROVE  /\ Unique(list) \in Seq(S)
           /\ ToSet(Unique(list)) = ToSet(list)
  <1> DEFINE n == Len(list)
  <1>1. n \in Nat /\ \A k \in 1..n : list[k] \in S  OBVIOUS
  <1>2. PICK w : Uniting(w, S, list)  BY UniqueSteps
  <1>3. /\ w \in [0..n -> Seq(S)] /\ w[0] = <<>>
        /\ \A k \in 1..n :
            w[k] = IF list[k] \in ToSet(w[k - 1]) THEN w[k - 1] ELSE Append(w[k - 1], list[k])
        /\ Unique(list) = w[n]  BY <1>2 DEF Uniting
  <1> DEFINE good == {k \in Nat : k <= n => \A x : x \in ToSet(w[k]) <=> \E i \in 1..k : list[i] = x}
  <1> HIDE DEF n
  <1>4. 0 \in good  BY <1>3, InNoList
  <1>5. ASSUME NEW k \in Nat, k \in good PROVE k + 1 \in good
    <2> SUFFICES ASSUME k + 1 <= n, NEW x
                 PROVE  x \in ToSet(w[k + 1]) <=> \E i \in 1..(k + 1) : list[i] = x  OBVIOUS
    <2>1. w[k] \in Seq(S) /\ k + 1 \in 1..n /\ k + 1 - 1 = k  BY <1>1, <1>3, <1>5
    <2>2. w[k + 1] = IF list[k + 1] \in ToSet(w[k]) THEN w[k] ELSE Append(w[k], list[k + 1])
      BY <1>3, <2>1
    <2>3. x \in ToSet(w[k]) <=> \E i \in 1..k : list[i] = x  BY <1>1, <1>5
    <2>4. x \in ToSet(w[k + 1]) <=> x \in ToSet(w[k]) \/ x = list[k + 1]
      BY <1>1, <2>1, <2>2, InLongerList
    <2>5. (\E i \in 1..(k + 1) : list[i] = x) <=> (\E i \in 1..k : list[i] = x) \/ list[k + 1] = x
      <3>1. \A i \in 1..(k + 1) : i \in 1..k \/ i = k + 1  OBVIOUS
      <3>2. \A i \in 1..k : i \in 1..(k + 1)  OBVIOUS
      <3>3. k + 1 \in 1..(k + 1)  OBVIOUS
      <3> QED  BY <3>1, <3>2, <3>3
    <2> QED  BY <2>3, <2>4, <2>5
  <1>6. n \in good
    <2> HIDE DEF good
    <2>1. Nat \subseteq good  BY <1>4, <1>5, Induction
    <2> QED  BY <1>1, <2>1
  <1>7. \A x : x \in ToSet(w[n]) <=> \E i \in 1..n : list[i] = x
    <2>1. n <= n  BY <1>1
    <2> QED  BY <1>6, <2>1
  <1>8. \A x : x \in ToSet(list) <=> \E i \in 1..n : list[i] = x  BY InList DEF n
  <1>9. ToSet(w[n]) = ToSet(list)  BY <1>7, <1>8, SameSet
  <1>10. w[n] \in Seq(S)  BY <1>1, <1>3
  <1> QED  BY <1>3, <1>9, <1>10

(* A set as a list, element by element.                                    *)
Sorting(w, ids) ==
    /\ \A k \in 0..Cardinality(ids) :
        w[k] \in Seq(ids) /\ Len(w[k]) = k /\ IsFiniteSet(ToSet(w[k])) /\ Cardinality(ToSet(w[k])) = k
    /\ Sorted(ids) = w[Cardinality(ids)]

LEMMA SortedSteps ==
    ASSUME NEW ids, IsFiniteSet(ids)
    PROVE  \E w : Sorting(w, ids)
  <1> DEFINE n == Cardinality(ids)
             none == CHOOSE id \in {} : TRUE
             next(list) == CHOOSE id \in ids \ ToSet(list) : TRUE
             S == Seq(ids \union {none})
             Add(list) == Append(list, next(list))
             step == [p \in (1..n) \X S |-> Add(p[2])]
             Rec(f) == f = [k \in 0..n |-> IF k = 0 THEN <<>> ELSE Add(f[k - 1])]
             w == CHOOSE f : Rec(f)
  <1>1. n \in Nat  BY FS_CardinalityType
  <1>2. \A list : next(list) \in ids \ ToSet(list) \/ (ids \ ToSet(list) = {} /\ next(list) = none)
    <2> TAKE list
    <2> DEFINE left == ids \ ToSet(list)
    <2>1. left # {} => (CHOOSE id \in left : TRUE) \in left  OBVIOUS
    <2>2. left = {} => (CHOOSE id \in left : TRUE) = none  OBVIOUS
    <2> QED  BY <2>1, <2>2
  <1> HIDE DEF n, next, none
  <1>3. \A list \in S : Add(list) \in S  BY <1>2, InLongerList
  <1>4. step \in [(1..n) \X S -> S]
    <2> HIDE DEF Add, S
    <2> QED  BY <1>3
  <1>5. PICK f : Recursive(f, S, <<>>, n, step)
    <2> DEFINE empty == <<>>
    <2>1. empty \in S  BY InNoList
    <2> HIDE DEF step, S, empty
    <2>2. \E f : Recursive(f, S, empty, n, step)  BY <1>1, <1>4, <2>1, Recursion
    <2> QED  BY <2>2 DEF empty
  <1>6. Rec(f)
    <2> HIDE DEF S
    <2>1. \A k \in 0..n : k # 0 => f[k - 1] \in S /\ k \in 1..n  BY <1>1, <1>5 DEF Recursive
    <2> HIDE DEF Add
    <2>2. \A k \in 0..n : k # 0 => step[<<k, f[k - 1]>>] = Add(f[k - 1])  BY <2>1
    <2>3. \A k \in 0..n : f[k] = IF k = 0 THEN <<>> ELSE Add(f[k - 1])  BY <1>5, <2>2 DEF Recursive
    <2> QED  BY <1>5, <2>3 DEF Recursive
  <1>7. Rec(w)
    <2> HIDE DEF Rec
    <2> QED  BY <1>6
  <1>8. Sorted(ids) = w[n]  BY DEF Sorted, n, next
  <1>9. w[0] = <<>> /\ \A k \in 1..n : w[k] = Add(w[k - 1])
    <2> HIDE DEF w, Add
    <2>1. \A k \in 1..n : k \in 0..n /\ k # 0  BY <1>1
    <2> QED  BY <1>1, <1>7, <2>1
  <1> HIDE DEF w
  <1> DEFINE Is(k) == w[k] \in Seq(ids) /\ Len(w[k]) = k /\ IsFiniteSet(ToSet(w[k])) /\ Cardinality(ToSet(w[k])) = k
             good == {k \in Nat : k <= n => Is(k)}
  <1>10. 0 \in good
    <2>1. Is(0)  BY <1>9, InNoList, FS_EmptySet
    <2> QED  BY <2>1
  <1>11. ASSUME NEW k \in Nat, k \in good PROVE k + 1 \in good
    <2> SUFFICES ASSUME k + 1 <= n PROVE Is(k + 1)  OBVIOUS
    <2>1. Is(k) /\ k + 1 \in 1..n /\ k + 1 - 1 = k  BY <1>1, <1>11
    <2>2. w[k + 1] = Append(w[k], next(w[k]))  BY <1>9, <2>1
    <2>3. ids \ ToSet(w[k]) # {}
      <3>1. SUFFICES ASSUME ids \ ToSet(w[k]) = {} PROVE FALSE  OBVIOUS
      <3>2. ToSet(w[k]) \subseteq ids  BY <2>1, InList
      <3>3. ToSet(w[k]) = ids  BY <3>1, <3>2
      <3> QED  BY <1>1, <2>1, <3>3 DEF n
    <2>4. next(w[k]) \in ids \ ToSet(w[k])  BY <1>2, <2>3
    <2>5. /\ w[k + 1] \in Seq(ids) /\ Len(w[k + 1]) = k + 1
          /\ ToSet(w[k + 1]) = ToSet(w[k]) \union {next(w[k])}  BY <2>1, <2>2, <2>4, InLongerList
    <2>6. IsFiniteSet(ToSet(w[k + 1])) /\ Cardinality(ToSet(w[k + 1])) = k + 1
      BY <2>1, <2>4, <2>5, FS_AddElement
    <2> QED  BY <2>5, <2>6
  <1>12. Nat \subseteq good
    <2> HIDE DEF good
    <2> QED  BY <1>10, <1>11, Induction
  <1>13. \A k \in 0..n : Is(k)  BY <1>1, <1>12
  <1>14. Sorting(w, ids)  BY <1>8, <1>13 DEF Sorting, n
  <1> QED  BY <1>14

LEMMA InSorted ==
    ASSUME NEW ids, IsFiniteSet(ids)
    PROVE  /\ Sorted(ids) \in Seq(ids)
           /\ ToSet(Sorted(ids)) = ids
           /\ Len(Sorted(ids)) = Cardinality(ids)
  <1>1. PICK w : Sorting(w, ids)  BY SortedSteps
  <1> DEFINE n == Cardinality(ids)
             list == Sorted(ids)
  <1>2. n \in 0..n  BY FS_CardinalityType
  <1>3. list \in Seq(ids) /\ Len(list) = n /\ IsFiniteSet(ToSet(list)) /\ Cardinality(ToSet(list)) = n
    BY <1>1, <1>2 DEF Sorting
  <1>4. ToSet(list) \in SUBSET ids  BY <1>3, InList
  <1>5. ToSet(list) = ids  BY <1>3, <1>4, FS_Subset
  <1> QED  BY <1>3, <1>5

-----------------------------------------------------------------------------
(* The versions of a repository.                                           *)

Repository(files) ==
    /\ IsFiniteSet(DOMAIN files) /\ DOMAIN files \subseteq Paths
    /\ \A f \in DOMAIN files : Extracted(files[f])

Held(files) == DOMAIN files = Paths /\ \A f \in Paths : files[f] \in Contents[f] \union {Absent}

Indexed(v) ==
    /\ v.graph = AnalyzeRepository(v.sources)
    /\ Held(v.sources)
    /\ Indexable(v.sources, v.graph)

(* Both versions are of files that were there at some commit, and could be *)
(* indexed.                                                                *)
Versions == Held(sources) /\ Indexed(base) /\ Indexed(head)

(* In all that can happen, the graphs are those of files that were there.  *)
THEOREM VersionsHold == Spec => []Versions
  <1>1. Init => Versions
    <2> SUFFICES ASSUME Init PROVE Versions  OBVIOUS
    <2>1. DOMAIN sources = Paths /\ \A f \in Paths : sources[f] \in Contents[f]  BY DEF Init
    <2>2. base = Version(sources) /\ head = base /\ Indexable(sources, base.graph)  BY DEF Init
    <2>3. base.sources = sources /\ base.graph = AnalyzeRepository(sources)  BY <2>2 DEF Version
    <2>4. Held(sources)  BY <2>1 DEF Held
    <2> QED  BY <2>2, <2>3, <2>4 DEF Versions, Indexed
  <1>2. ASSUME Versions, [Next]_vars PROVE Versions'
    <2>1. ASSUME NEW files, Held(files), Commit(files) PROVE Versions'
      <3>1. Version(files).sources = files /\ Version(files).graph = AnalyzeRepository(files)
        BY DEF Version
      <3>2. /\ sources' = files /\ base' = base
            /\ head' = IF Indexable(files, Version(files).graph) THEN Version(files) ELSE head
        BY <2>1 DEF Commit
      <3>3. Indexed(head')  BY <1>2, <2>1, <3>1, <3>2 DEF Versions, Indexed
      <3>4. Held(sources') /\ Indexed(base')  BY <1>2, <2>1, <3>2 DEF Versions
      <3>5. Versions' <=> (Held(sources') /\ Indexed(base') /\ Indexed(head'))
        BY DEF Versions, Held, Indexed, Indexable, AnalyzeRepository, GraphOf, ScanFiles, Paths
      <3> QED  BY <3>3, <3>4, <3>5
    <2>2. ASSUME NEW f \in Paths, NEW content \in Contents[f], Edit(f, content) PROVE Versions'
      <3> DEFINE files == [sources EXCEPT ![f] = content]
      <3>1. Held(files)  BY <1>2 DEF Versions, Held
      <3>2. Commit(files)  BY <2>2 DEF Edit
      <3> QED  BY <2>1, <3>1, <3>2
    <2>3. ASSUME NEW f \in Paths, NEW path \in Paths, Move(f, path) PROVE Versions'
      <3> DEFINE files == [sources EXCEPT ![f] = Absent, ![path] = sources[f]]
      <3>1. sources[f] \in Contents[path] /\ Commit(files)  BY <2>3 DEF Move
      <3>2. Held(files)  BY <1>2, <3>1 DEF Versions, Held
      <3> QED  BY <2>1, <3>1, <3>2
    <2>4. ASSUME UNCHANGED <<sources, head>>, base' \in {base, head} PROVE Versions'
      <3>1. Held(sources') /\ Indexed(base') /\ Indexed(head')  BY <1>2, <2>4 DEF Versions
      <3>2. Versions' <=> (Held(sources') /\ Indexed(base') /\ Indexed(head'))
        BY DEF Versions, Held, Indexed, Indexable, AnalyzeRepository, GraphOf, ScanFiles, Paths
      <3> QED  BY <3>1, <3>2
    <2>5. CASE ChooseBase  BY <2>4, <2>5 DEF ChooseBase
    <2>6. CASE UNCHANGED vars  BY <2>4, <2>6 DEF vars
    <2> QED  BY <1>2, <2>2, <2>3, <2>5, <2>6 DEF Next
  <1> QED  BY <1>1, <1>2, PTL DEF Spec

LEMMA ScannedFiles ==
    ASSUME NEW files
    PROVE  /\ ScanFiles(files) \in Seq(Paths)
           /\ ToSet(ScanFiles(files)) = ToSet(ScanOrder) \intersect {f \in Paths : files[f] \notin {Absent, Skipped}}
           /\ IsFiniteSet(ToSet(ScanFiles(files)))
  <1>1. ScanOrder \in Seq(Paths)  BY RepositoryContents
  <1>2. /\ ScanFiles(files) \in Seq(Paths)
        /\ ToSet(ScanFiles(files)) = ToSet(ScanOrder) \intersect {f \in Paths : files[f] \notin {Absent, Skipped}}
    BY <1>1, InAmong DEF ScanFiles
  <1>3. IsFiniteSet(ToSet(ScanFiles(files)))
    <2> DEFINE list == ScanFiles(files)
    <2>1. list \in Seq(Paths)  BY <1>2
    <2> HIDE DEF list
    <2>2. IsFiniteSet(DOMAIN list)  BY <2>1, FiniteDomain
    <2>3. IsFiniteSet({list[i] : i \in DOMAIN list})  BY <2>2, FiniteImage
    <2>4. IsFiniteSet(ToSet(list))  BY <2>3 DEF ToSet
    <2> QED  BY <2>4 DEF list
  <1> QED  BY <1>2, <1>3

LEMMA VersionBuilt ==
    ASSUME NEW v, Indexed(v)
    PROVE  /\ Repository(Analyzed(v))
           /\ DOMAIN Analyzed(v) = ToSet(ScanFiles(v.sources))
           /\ v.graph = ResolveGraph(Analyzed(v), ScanFiles(v.sources))
  <1> DEFINE order == ScanFiles(v.sources)
             files == Analyzed(v)
  <1>1. DOMAIN files = ToSet(order) /\ \A f \in ToSet(order) : files[f] = Analyze(v.sources[f])
    BY DEF Analyzed
  <1>2. IsFiniteSet(ToSet(order)) /\ ToSet(order) \subseteq {f \in Paths : v.sources[f] \notin {Absent, Skipped}}
    BY ScannedFiles
  <1>3. ASSUME NEW f \in ToSet(order) PROVE Extracted(files[f])
    <2>1. f \in Paths /\ v.sources[f] \in Contents[f] \ {Absent, Skipped}  BY <1>2 DEF Indexed, Held
    <2>2. WellFormed(v.sources[f])  BY <2>1, RepositoryContents
    <2> QED  BY <1>1, <2>2, AnalyzeExtracts
  <1>4. Repository(files)  BY <1>1, <1>2, <1>3 DEF Repository
  <1>5. v.graph = ResolveGraph(files, order)  BY DEF Indexed, AnalyzeRepository, GraphOf, Analyzed
  <1> QED  BY <1>1, <1>4, <1>5

-----------------------------------------------------------------------------
(* The edges of a graph: those of what a file says, and those of calls of  *)
(* packages, which depend on the files that were met before.               *)

EdgesSaid(files, f) ==
    ContainsEdges(files, f) \union ImportEdges(files, f) \union ReferenceEdges(files, f)
        \union HandlerEdges(files, f) \union EntityEdges(files, f)
        \union OperationEdges(files, f, KnownModels(files, <<>>, f))

LEMMA GraphEdges ==
    ASSUME NEW files, NEW order
    PROVE  \A e : e \in ResolveGraph(files, order).edges <=>
                \E f \in DOMAIN files : e \in EdgesSaid(files, f) \/ e \in PackageEdges(files, f, UpTo(order, f))
  <1> DEFINE of == [f \in DOMAIN files |-> ContainsEdges(files, f) \union ImportEdges(files, f)
                        \union ReferenceEdges(files, f)
                        \union PackageEdges(files, f, UpTo(order, f))
                        \union HandlerEdges(files, f) \union EntityEdges(files, f)
                        \union OperationEdges(files, f, KnownModels(files, order, f))]
  <1>1. ResolveGraph(files, order).edges = All(of, DOMAIN files)  BY DEF ResolveGraph, All
  <1>2. \A f : KnownModels(files, order, f) = KnownModels(files, <<>>, f)  BY DEF KnownModels
  <1>3. \A f \in DOMAIN files : \A e :
            e \in of[f] <=> e \in EdgesSaid(files, f) \/ e \in PackageEdges(files, f, UpTo(order, f))
    BY <1>2 DEF EdgesSaid
  <1> HIDE DEF of
  <1>4. \A e : e \in ResolveGraph(files, order).edges <=> \E f \in DOMAIN files : e \in of[f]
    BY <1>1, InUnion
  <1> QED  BY <1>3, <1>4

EdgeOfCall(files, f, r, e) ==
    /\ r \in files[f].references /\ r.kind = "CALLS" /\ Head(r.target) \in DOMAIN files[f].imports
    /\ e = Edge(OwnerId(files, f, r.owner), PackageId(files[f].imports[Head(r.target)].module),
                "USES_PACKAGE", f, r.line, "resolved")

LEMMA EdgesOfPackages ==
    ASSUME NEW files, NEW f, NEW sofar, NEW e \in PackageEdges(files, f, sofar)
    PROVE  \E r : /\ EdgeOfCall(files, f, r, e)
                  /\ ~IsLocal(files[f].imports[Head(r.target)].module)
                  /\ ModulePath(files, f, files[f].imports[Head(r.target)].module) = None
                  /\ \E g \in sofar : PackageId(files[f].imports[Head(r.target)].module) \in PackageIds(files, g)
  BY DEF PackageEdges, EdgeOfCall

LEMMA OrderDoesNotMatter ==
    ASSUME NEW v, Indexed(v), NEW order, NEW other, NEW e,
           e \in ResolveGraph(Analyzed(v), order).edges, e.type = "USES_PACKAGE" => OfImport(v, EdgeId(e))
    PROVE  e \in ResolveGraph(Analyzed(v), other).edges
  <1> DEFINE files == Analyzed(v)
  <1>1. PICK f \in DOMAIN files : e \in EdgesSaid(files, f) \/ e \in PackageEdges(files, f, UpTo(order, f))
    BY GraphEdges
  <1>2. ASSUME e \in PackageEdges(files, f, UpTo(order, f)) PROVE FALSE
    <2>1. PICK r : EdgeOfCall(files, f, r, e)  BY <1>2, EdgesOfPackages
    <2>2. r \in files[f].references  BY <2>1 DEF EdgeOfCall
    <2>3. e.type = "USES_PACKAGE" /\ e.file = f /\ e.line = r.line  BY <2>1 DEF EdgeOfCall, Edge
    <2>4. EdgeId(e)[4] = f /\ EdgeId(e)[5] = r.line  BY <2>3 DEF EdgeId
    <2>5. PICK alias \in DOMAIN files[f].imports : files[f].imports[alias].line = r.line
      BY <2>3, <2>4 DEF OfImport
    <2>6. ReferencesOf(files[f])  BY VersionBuilt DEF Repository, Extracted
    <2> QED  BY <2>2, <2>5, <2>6 DEF ReferencesOf
  <1> QED  BY <1>1, <1>2, GraphEdges

-----------------------------------------------------------------------------
(* What names mean: a file or a symbol of one, if anything.                *)

Meanings(files) ==
    {None} \union {FileId(f) : f \in DOMAIN files}
        \union UNION {{SymbolId(f, s) : s \in files[f].symbols} : f \in DOMAIN files}

LEMMA MeansSomething ==
    ASSUME NEW files, NEW m
    PROVE  m \in Meanings(files) <=>
            \/ m = None
            \/ \E f \in DOMAIN files : m = FileId(f)
            \/ \E f \in DOMAIN files : \E s \in files[f].symbols : m = SymbolId(f, s)
  BY DEF Meanings

LEMMA CandidatePaths == \A place : CandidatesAt(place) \in Seq(Paths)
  BY RepositoryContents, InNoList DEF CandidatesAt

LEMMA ModulePathKnown ==
    ASSUME NEW files, NEW f, NEW module
    PROVE  ModulePath(files, f, module) \in (DOMAIN files) \union {None}
  <1> DEFINE candidates == CandidatesAt(Place(f, module))
             known == {i \in DOMAIN candidates : candidates[i] \in DOMAIN files}
  <1>1. ModulePath(files, f, module) = IF known = {} THEN None ELSE candidates[Min(known)]
    BY DEF ModulePath
  <1>2. candidates \in Seq(Paths)  BY CandidatePaths
  <1>3. known \subseteq Nat
    <2> HIDE DEF candidates
    <2> QED  BY <1>2, FiniteDomain
  <1>4. known # {} => Min(known) \in known  BY <1>3, MinIsLeast
  <1> QED  BY <1>1, <1>4

LEMMA ImportedKnown ==
    ASSUME NEW files, NEW f, NEW import, import.name \in STRING
    PROVE  /\ Imported(files, f, import).path \in (DOMAIN files) \union {None}
           /\ Imported(files, f, import).name \in STRING \union {"*"}
  <1> DEFINE path == ModulePath(files, f, import.module)
             asModule == ModulePath(files, f, Submodule(import.module, import.name))
  <1>2. {path, asModule} \subseteq (DOMAIN files) \union {None}  BY ModulePathKnown
  <1>3. Imported(files, f, import) =
            IF path # None \/ import.name = "*" THEN [path |-> path, name |-> import.name] ELSE [path |-> asModule, name |-> "*"]
    BY DEF Imported
  <1> HIDE DEF path, asModule
  <1>4. /\ Imported(files, f, import).path \in {path, asModule}
        /\ Imported(files, f, import).name \in {import.name, "*"}  BY <1>3
  <1> QED  BY <1>2, <1>4

LEMMA EnclosingScopes ==
    ASSUME NEW scope \in Seq(STRING)
    PROVE  \A i \in 1..(Len(scope) + 1) : Enclosing(scope)[i] \in Seq(STRING)
  <1> TAKE i \in 1..(Len(scope) + 1)
  <1>1. Len(scope) \in Nat /\ Len(scope) + 1 - i \in 0..Len(scope)  OBVIOUS
  <1>2. SubSeq(scope, 1, Len(scope) + 1 - i) \in Seq(STRING)
    <2> DEFINE n == Len(scope) + 1 - i
    <2>1. n \in Int /\ \A j \in 1..n : scope[j] \in STRING  BY <1>1
    <2> HIDE DEF n
    <2>2. SubSeq(scope, 1, n) \in Seq(STRING)  BY <2>1, SubSeqProperties
    <2> QED  BY <2>2 DEF n
  <1> QED  BY <1>2 DEF Enclosing

LEMMA LexicalDefined ==
    ASSUME NEW files, NEW f, NEW target, NEW scope \in Seq(STRING)
    PROVE  Lexical(files, f, target, scope) \subseteq files[f].symbols
  <1> DEFINE candidates == [i \in 1..(Len(scope) + 1) |-> Defined(files, f, Enclosing(scope)[i] \o target)]
  <1>1. DOMAIN candidates \subseteq Nat /\ \A i \in DOMAIN candidates : candidates[i] \subseteq files[f].symbols
    BY DEF Defined
  <1>2. Lexical(files, f, target, scope) = FirstOf(candidates)  BY DEF Lexical
  <1> HIDE DEF candidates
  <1>3. FirstOf(candidates) = {} \/ \E i \in DOMAIN candidates : FirstOf(candidates) = candidates[i]
    BY <1>1, FirstOfIsOne
  <1> QED  BY <1>1, <1>2, <1>3

LEMMA OfSelfDefined ==
    ASSUME NEW files, NEW f, NEW target, NEW scope
    PROVE  OfSelf(files, f, target, scope) \subseteq files[f].symbols
  BY DEF OfSelf, Defined

LEMMA SymbolDefined ==
    ASSUME NEW files, NEW f, NEW target, NEW scope \in Seq(STRING)
    PROVE  FirstOf(<<Lexical(files, f, target, scope), OfSelf(files, f, target, scope)>>) \subseteq files[f].symbols
  <1> DEFINE candidates == <<Lexical(files, f, target, scope), OfSelf(files, f, target, scope)>>
  <1>1. DOMAIN candidates = {1, 2} /\ candidates[1] \subseteq files[f].symbols /\ candidates[2] \subseteq files[f].symbols
    BY LexicalDefined, OfSelfDefined
  <1> HIDE DEF candidates
  <1>2. FirstOf(candidates) = {} \/ \E i \in DOMAIN candidates : FirstOf(candidates) = candidates[i]
    BY <1>1, FirstOfIsOne
  <1>3. FirstOf(candidates) \subseteq files[f].symbols  BY <1>1, <1>2
  <1> QED  BY <1>3 DEF candidates

LEMMA MembersDefined ==
    ASSUME NEW files, Repository(files), NEW f \in DOMAIN files, NEW target, NEW scope \in Seq(STRING),
           NEW n, NEW meaning \in [Questions(files) -> Meanings(files)],
           NEW m \in Members(files, f, target, scope, n, meaning)
    PROVE  \E g \in DOMAIN files : \E s \in files[g].symbols : m = <<g, s>>
  <1> DEFINE classes == {meaning[<<f, name, scope>>] : name \in Bound(files, f, target, scope, n)}
             rest == SubSeq(target, n + 1, Len(target))
  <1>1. PICK class \in {c \in classes : c # None /\ c[1] = "symbol"} :
            m \in {<<class[2], s>> : s \in Defined(files, class[2], class[3] \o rest)}
    BY DEF Members
  <1>2. PICK s \in Defined(files, class[2], class[3] \o rest) : m = <<class[2], s>>  BY <1>1
  <1>3. PICK name \in Bound(files, f, target, scope, n) : class = meaning[<<f, name, scope>>]
    BY <1>1
  <1>4. Bound(files, f, target, scope, n) \subseteq Names  BY DEF Bound, Repository, Extracted
  <1>5. <<f, name, scope>> \in Questions(files)  BY <1>3, <1>4 DEF Questions
  <1>6. class \in Meanings(files)  BY <1>3, <1>5
  <1>7. class # None /\ class[1] = "symbol"  BY <1>1
  <1>8. \E g \in DOMAIN files : \E d \in files[g].symbols : class = SymbolId(g, d)
    BY <1>6, <1>7, MeansSomething DEF FileId
  <1>9. class[2] \in DOMAIN files  BY <1>8 DEF SymbolId
  <1> QED  BY <1>2, <1>9 DEF Defined

LEMMA OfInstanceDefined ==
    ASSUME NEW files, Repository(files), NEW f \in DOMAIN files, NEW target \in Names, NEW scope \in Seq(STRING),
           NEW meaning \in [Questions(files) -> Meanings(files)],
           NEW m \in OfInstance(files, f, target, scope, meaning)
    PROVE  \E g \in DOMAIN files : \E s \in files[g].symbols : m = <<g, s>>
  <1> DEFINE members(i, j) == Members(files, f, target, Enclosing(scope)[i], Len(target) - j, meaning)
             inner(i) == [j \in 1..(Len(target) - 1) |-> members(i, j)]
             outer == [i \in 1..(Len(scope) + 1) |-> FirstOf(inner(i))]
  <1>1. OfInstance(files, f, target, scope, meaning) = FirstOf(outer)  BY DEF OfInstance
  <1>2. DOMAIN outer = 1..(Len(scope) + 1) /\ DOMAIN outer \subseteq Nat  OBVIOUS
  <1>3. \A i \in DOMAIN outer : outer[i] = FirstOf(inner(i))  OBVIOUS
  <1>4. \A i : DOMAIN inner(i) \subseteq Nat /\ \A j \in DOMAIN inner(i) : inner(i)[j] = members(i, j)
    OBVIOUS
  <1> HIDE DEF outer, inner
  <1>5. PICK i \in DOMAIN outer : m \in outer[i]  BY <1>1, <1>2, FirstOfIsOne
  <1>6. PICK j \in DOMAIN inner(i) : m \in inner(i)[j]
    <2>1. m \in FirstOf(inner(i))  BY <1>3, <1>5
    <2>2. FirstOf(inner(i)) = {} \/ \E j \in DOMAIN inner(i) : FirstOf(inner(i)) = inner(i)[j]
      BY <1>4, FirstOfIsOne
    <2> QED  BY <2>1, <2>2
  <1>7. m \in members(i, j)  BY <1>4, <1>6
  <1>8. Enclosing(scope)[i] \in Seq(STRING)  BY <1>2, <1>5, EnclosingScopes
  <1> QED  BY <1>7, <1>8, MembersDefined

LEMMA Resolves ==
    ASSUME NEW files, Repository(files), NEW f \in DOMAIN files, NEW target \in Names, NEW scope \in Seq(STRING),
           NEW meaning \in [Questions(files) -> Meanings(files)]
    PROVE  Resolve(files, f, target, scope, meaning) \in Meanings(files)
  <1> DEFINE symbol == FirstOf(<<Lexical(files, f, target, scope), OfSelf(files, f, target, scope)>>)
             instance == OfInstance(files, f, target, scope, meaning)
             imports == files[f].imports
             import == Imported(files, f, imports[Head(target)])
             name == (IF import.name = "*" THEN <<>> ELSE <<import.name>>) \o Tail(target)
             found == CHOOSE s \in instance : TRUE
  <1>1. \/ Resolve(files, f, target, scope, meaning) = None
        \/ symbol # {} /\ Resolve(files, f, target, scope, meaning) = SymbolId(f, CHOOSE s \in symbol : TRUE)
        \/ instance # {} /\ Resolve(files, f, target, scope, meaning) = SymbolId(found[1], found[2])
        \/ /\ Head(target) \in DOMAIN imports /\ import.path # None
           /\ Resolve(files, f, target, scope, meaning) =
                IF name = <<>> THEN FileId(import.path) ELSE meaning[<<import.path, name, <<>>>>]
    BY DEF Resolve
  <1>2. None \in Meanings(files)  BY MeansSomething
  <1>3. ASSUME symbol # {} PROVE SymbolId(f, CHOOSE s \in symbol : TRUE) \in Meanings(files)
    <2>1. (CHOOSE s \in symbol : TRUE) \in files[f].symbols  BY <1>3, SymbolDefined
    <2> QED  BY <2>1, MeansSomething
  <1>4. ASSUME instance # {} PROVE SymbolId(found[1], found[2]) \in Meanings(files)
    <2>1. found \in instance  BY <1>4
    <2> HIDE DEF found
    <2>2. PICK g \in DOMAIN files : \E s \in files[g].symbols : found = <<g, s>>
      BY <2>1, OfInstanceDefined
    <2>3. PICK s \in files[g].symbols : found = <<g, s>>  BY <2>2
    <2> QED  BY <2>3, MeansSomething
  <1>5. ASSUME Head(target) \in DOMAIN imports, import.path # None
        PROVE  (IF name = <<>> THEN FileId(import.path) ELSE meaning[<<import.path, name, <<>>>>]) \in Meanings(files)
    <2>1. imports[Head(target)].name \in STRING  BY <1>5 DEF Repository, Extracted, ImportsOf
    <2>2. import.path \in DOMAIN files /\ import.name \in STRING \union {"*"}
      BY <1>5, <2>1, ImportedKnown
    <2>3. target \in Seq(STRING) /\ target # <<>>  BY DEF Names
    <2>4. Tail(target) \in Seq(STRING)  BY <2>3, HeadTailProperties
    <2>5. (IF import.name = "*" THEN <<>> ELSE <<import.name>>) \in Seq(STRING)
      BY <2>2, InNoList, InShortList
    <2>6. name \in Seq(STRING)  BY <2>4, <2>5, ConcatProperties
    <2> HIDE DEF name, import, imports
    <2>7. name # <<>> => <<import.path, name, <<>>>> \in Questions(files)
      BY <2>2, <2>6, InNoList DEF Questions, Names
    <2> QED  BY <2>2, <2>7, MeansSomething
  <1> HIDE DEF symbol, instance, imports, import, name, found
  <1> QED  BY <1>1, <1>2, <1>3, <1>4, <1>5

Meant(files) == [Questions(files) -> [SUBSET Questions(files) -> Meanings(files)]]

LEMMA HopMeans ==
    ASSUME NEW files, Repository(files), NEW meaning \in Meant(files)
    PROVE  Hop(files, meaning) \in Meant(files)
  <1> DEFINE Q == Questions(files)
             asked(question, seen) == [k \in Q |-> meaning[k][seen \union {question}]]
             answer(question, seen) ==
                IF question \in seen THEN None
                ELSE Resolve(files, question[1], question[2], question[3], asked(question, seen))
  <1>1. Hop(files, meaning) = [question \in Q |-> [seen \in SUBSET Q |-> answer(question, seen)]]
    BY DEF Hop
  <1>2. ASSUME NEW question \in Q, NEW seen \in SUBSET Q
        PROVE  answer(question, seen) \in Meanings(files)
    <2>1. asked(question, seen) \in [Q -> Meanings(files)]
      <3>1. seen \union {question} \in SUBSET Q  OBVIOUS
      <3> QED  BY <3>1 DEF Meant
    <2>2. question[1] \in DOMAIN files /\ question[2] \in Names /\ question[3] \in Seq(STRING)
      BY DEF Questions
    <2> HIDE DEF asked
    <2>3. Resolve(files, question[1], question[2], question[3], asked(question, seen)) \in Meanings(files)
      BY <2>1, <2>2, Resolves
    <2> QED  BY <2>3, MeansSomething
  <1> HIDE DEF answer, Q
  <1>3. [question \in Q |-> [seen \in SUBSET Q |-> answer(question, seen)]] \in [Q -> [SUBSET Q -> Meanings(files)]]
    BY <1>2
  <1> QED  BY <1>1, <1>3 DEF Meant, Q

(* The meanings that are found in more and more hops.                      *)
Hopping(m, files) ==
    /\ m \in [0..(MaxHops + 1) -> Meant(files)]
    /\ m[0] = [question \in Questions(files) |-> [seen \in SUBSET Questions(files) |-> None]]
    /\ \A k \in 1..(MaxHops + 1) : m[k] = Hop(files, m[k - 1])

LEMMA MeaningSteps ==
    ASSUME NEW files, Repository(files)
    PROVE  \E m : /\ Hopping(m, files)
                  /\ \A f, target, scope : Meaning(files, f, target, scope) = m[MaxHops + 1][<<f, target, scope>>][{}]
  <1> DEFINE n == MaxHops + 1
             S == Meant(files)
             NoHop == [question \in Questions(files) |-> [seen \in SUBSET Questions(files) |-> None]]
             step == [p \in (1..n) \X S |-> Hop(files, p[2])]
             Rec(m) == m = [hops \in 0..n |-> IF hops = 0 THEN NoHop ELSE Hop(files, m[hops - 1])]
             w == CHOOSE m : Rec(m)
  <1>1. n \in Nat  BY ResolverBounds
  <1>2. NoHop \in S  BY MeansSomething DEF Meant
  <1>3. \A m \in S : Hop(files, m) \in S  BY HopMeans
  <1> HIDE DEF S, n
  <1>4. step \in [(1..n) \X S -> S]  BY <1>3
  <1>5. PICK m : Recursive(m, S, NoHop, n, step)
    <2> HIDE DEF step, NoHop
    <2> QED  BY <1>1, <1>2, <1>4, Recursion
  <1>6. Rec(m)
    <2> HIDE DEF NoHop
    <2>1. \A k \in 0..n : k # 0 => m[k - 1] \in S /\ k \in 1..n  BY <1>1, <1>5 DEF Recursive
    <2>2. \A k \in 0..n : k # 0 => step[<<k, m[k - 1]>>] = Hop(files, m[k - 1])  BY <2>1
    <2> HIDE DEF step
    <2>3. \A k \in 0..n : m[k] = IF k = 0 THEN NoHop ELSE Hop(files, m[k - 1])
      BY <1>5, <2>2 DEF Recursive
    <2> QED  BY <1>5, <2>3 DEF Recursive
  <1>7. Rec(w)
    <2> HIDE DEF Rec
    <2> QED  BY <1>6
  <1>8. \A f, target, scope : Meaning(files, f, target, scope) = w[n][<<f, target, scope>>][{}]
    BY DEF Meaning, n
  <1>9. w \in [0..n -> S] /\ w[0] = NoHop /\ \A k \in 1..n : w[k] = Hop(files, w[k - 1])
    <2> HIDE DEF w, NoHop
    <2>1. DOMAIN w = 0..n /\ w = [k \in 0..n |-> w[k]]  BY <1>7
    <2>2. w[0] = NoHop /\ \A k \in 1..n : w[k] = Hop(files, w[k - 1])
      <3>1. \A k \in 1..n : k \in 0..n /\ k # 0  BY <1>1
      <3> QED  BY <1>1, <1>7, <3>1
    <2>3. w[0] \in S /\ \A k \in 1..n : w[k - 1] \in S => w[k] \in S  BY <1>2, <1>3, <2>2
    <2>4. w \in [0..n -> S]  BY <1>1, <2>1, <2>3, Stays
    <2> QED  BY <2>2, <2>4
  <1> HIDE DEF w, NoHop
  <1>10. Hopping(w, files)  BY <1>9 DEF Hopping, n, S, NoHop
  <1> QED  BY <1>8, <1>10 DEF n

(* Whatever files hold and refer to, and however they refer to each other: *)
(* a name means a file that was analyzed or a symbol that one defines.     *)
LEMMA MeaningKnown ==
    ASSUME NEW files, Repository(files), NEW f \in DOMAIN files, NEW target \in Names, NEW scope \in Seq(STRING)
    PROVE  Meaning(files, f, target, scope) \in Meanings(files)
  <1>1. PICK m : Hopping(m, files) /\ Meaning(files, f, target, scope) = m[MaxHops + 1][<<f, target, scope>>][{}]
    BY MeaningSteps
  <1>2. m[MaxHops + 1] \in Meant(files)  BY <1>1, ResolverBounds DEF Hopping
  <1>3. <<f, target, scope>> \in Questions(files)  BY DEF Questions
  <1> QED  BY <1>1, <1>2, <1>3 DEF Meant

-----------------------------------------------------------------------------
(* The nodes of a graph, by their kinds: what comes first in the id says   *)
(* the kind, and the rest which node it is.                                *)

RepositoryNode == Node(RepositoryId, "Repository", None, None, 1, 1, <<>>)

FileNode(files, f) == Node(FileId(f), "File", f, Directories[f], 1, Len(files[f].text), files[f].text)

DirectoryNode(m) == Node(<<"dir", m>>, "Directory", m, m, 1, 1, <<>>)

SymbolNode(f, s) == Node(SymbolId(f, s), s.kind, f, Directories[f], s.start, s.end, s.text)

EndpointNode(f, e) ==
    Node(EndpointId(f, e), "Endpoint", f, Directories[f], e.line, e.line, <<[route |-> e.name]>>)

PackageNode(files, order, i) ==
    Node(PackageId(i.module), IF IsLocal(i.module) THEN "Module" ELSE "ExternalPackage", None, None, 1, 1,
         <<[module |-> LastImport(files, order, PackageId(i.module)).module]>>)

UnresolvedNode(f, r) == Node(UnresolvedId(f, r), "UnresolvedSymbol", f, Directories[f], r.line, r.line, <<>>)

HandlerNode(f, e) == Node(HandlerId(f, e.handler), "UnresolvedSymbol", f, None, e.line, e.line, <<>>)

EntityNode(f, s) ==
    Node(EntityId(SymbolId(f, s)), "DatabaseEntity", f, Directories[f], s.start, s.end, s.text)

(* The last of the unresolved references to a name in a scope, and of the  *)
(* endpoints with an unresolved handler.                                   *)
LastUnresolved(files, f) ==
    {u \in Unresolved(files, f) : \A v \in Unresolved(files, f) :
        UnresolvedId(f, v) = UnresolvedId(f, u) => v.line <= u.line}

LastUnhandled(files, f) ==
    {e \in files[f].endpoints : /\ Meaning(files, f, e.handler, <<>>) = None
                                /\ \A d \in files[f].endpoints : d.handler = e.handler => d.line <= e.line}

IsFile(files, f, n) == n = FileNode(files, f)

Parents(f) == {SubSeq(Directories[f], 1, k) : k \in DOMAIN Directories[f]}

IsDirectory(f, n) == \E a \in Parents(f) : n = DirectoryNode(a)

IsSymbol(files, f, n) == \E s \in files[f].symbols : n = SymbolNode(f, s)

IsEndpoint(files, f, n) == \E e \in files[f].endpoints : n = EndpointNode(f, e)

IsPackage(files, order, f, n) == \E i \in Outside(files, f) : n = PackageNode(files, order, i)

IsUnresolved(files, f, n) == \E r \in LastUnresolved(files, f) : n = UnresolvedNode(f, r)

IsHandler(files, f, n) == \E e \in LastUnhandled(files, f) : n = HandlerNode(f, e)

IsEntity(files, f, n) == \E s \in Models(files, f) : n = EntityNode(f, s)

NodeOfFile(files, order, f, n) ==
    \/ n = RepositoryNode
    \/ IsFile(files, f, n)
    \/ IsDirectory(f, n)
    \/ IsSymbol(files, f, n)
    \/ IsEndpoint(files, f, n)
    \/ IsPackage(files, order, f, n)
    \/ IsUnresolved(files, f, n)
    \/ IsHandler(files, f, n)
    \/ IsEntity(files, f, n)

LEMMA NodeFields ==
    ASSUME NEW id, NEW type, NEW f, NEW module, NEW start, NEW end, NEW text
    PROVE  LET n == Node(id, type, f, module, start, end, text)
           IN  n.id = id /\ n.type = type /\ n.file = f /\ n.module = module /\ n.text = text
  BY DEF Node

LEMMA GraphNodes ==
    ASSUME NEW files, NEW order
    PROVE  \A n : n \in ResolveGraph(files, order).nodes <=> \E f \in DOMAIN files : NodeOfFile(files, order, f, n)
  <1> DEFINE of == [f \in DOMAIN files |-> FileNodes(files, f) \union PackageNodes(files, order, f)
                        \union UnresolvedNodes(files, f) \union HandlerNodes(files, f)
                        \union EntityNodes(files, f)]
  <1>1. ResolveGraph(files, order).nodes = All(of, DOMAIN files)  BY DEF ResolveGraph, All
  <1>2. ASSUME NEW f \in DOMAIN files, NEW n PROVE n \in of[f] <=> NodeOfFile(files, order, f, n)
    <2>1. n \in FileNodes(files, f) <=>
            \/ n = RepositoryNode \/ IsFile(files, f, n) \/ IsDirectory(f, n)
            \/ IsSymbol(files, f, n) \/ IsEndpoint(files, f, n)
      BY DEF FileNodes, RepositoryNode, FileNode, DirectoryNode, DirectoryId, SymbolNode, EndpointNode,
             IsFile, IsDirectory, IsSymbol, IsEndpoint, Parents
    <2>2. n \in PackageNodes(files, order, f) <=> IsPackage(files, order, f, n)
      BY DEF PackageNodes, PackageNode, IsPackage
    <2>3. n \in UnresolvedNodes(files, f) <=> IsUnresolved(files, f, n)
      BY DEF UnresolvedNodes, UnresolvedNode, IsUnresolved, LastUnresolved
    <2>4. n \in HandlerNodes(files, f) <=> IsHandler(files, f, n)
      BY DEF HandlerNodes, HandlerNode, IsHandler, LastUnhandled
    <2>5. n \in EntityNodes(files, f) <=> IsEntity(files, f, n)
      BY DEF EntityNodes, EntityNode, IsEntity
    <2> QED  BY <2>1, <2>2, <2>3, <2>4, <2>5 DEF NodeOfFile
  <1> HIDE DEF of
  <1>3. \A n : n \in ResolveGraph(files, order).nodes <=> \E f \in DOMAIN files : n \in of[f]
    BY <1>1, InUnion
  <1> QED  BY <1>2, <1>3

(* Of a package all is the same in any order but the name.                 *)
Known(n) == IF n.file = None THEN [n EXCEPT !.text = <<>>] ELSE n

LEMMA KnownNode ==
    ASSUME NEW files, NEW order, NEW other, NEW n \in ResolveGraph(files, order).nodes
    PROVE  \E m \in ResolveGraph(files, other).nodes : Known(m) = Known(n)
  <1>1. PICK f \in DOMAIN files : NodeOfFile(files, order, f, n)  BY GraphNodes
  <1>2. CASE IsPackage(files, order, f, n)
    <2>1. PICK i \in Outside(files, f) : n = PackageNode(files, order, i)  BY <1>2 DEF IsPackage
    <2> DEFINE m == PackageNode(files, other, i)
    <2>2. NodeOfFile(files, other, f, m)  BY DEF NodeOfFile, IsPackage
    <2>3. m \in ResolveGraph(files, other).nodes  BY <2>2, GraphNodes
    <2>4. Known(m) = Known(n)  BY <2>1 DEF PackageNode, Node, Known
    <2> QED  BY <2>3, <2>4
  <1>3. CASE ~IsPackage(files, order, f, n)
    <2>1. NodeOfFile(files, other, f, n)  BY <1>1, <1>3 DEF NodeOfFile
    <2> QED  BY <2>1, GraphNodes
  <1> QED  BY <1>2, <1>3

(* What the graph says does not depend on the order in which files are     *)
(* scanned, but for the packages of calls and for the name of a package.   *)
THEOREM OrderIndependentHolds == Spec => []OrderIndependent
  <1>1. ASSUME Versions PROVE OrderIndependent
    <2> DEFINE files == Analyzed(head)
               order == ScanFiles(head.sources)
               other == Reverse(order)
               reordered == GraphOf(head.sources, other)
               known(g) == {IF n.file = None THEN [n EXCEPT !.text = <<>>] ELSE n : n \in g.nodes}
             said(g) == {e \in g.edges : e.type = "USES_PACKAGE" => OfImport(head, EdgeId(e))}
    <2>1. Indexed(head) /\ head.graph = ResolveGraph(files, order)
      BY <1>1, VersionBuilt DEF Versions
    <2>2. ToSet(other) = ToSet(order)  BY ScannedFiles, InReverse
    <2>3. reordered = ResolveGraph(files, other)  BY <2>2 DEF GraphOf, Analyzed
    <2> HIDE DEF files, order, other, reordered
    <2>4. known(reordered) = known(head.graph)
      <3>1. \A g : known(g) = {Known(n) : n \in g.nodes}  BY DEF Known
      <3>2. \A n \in head.graph.nodes : \E m \in reordered.nodes : Known(m) = Known(n)
        BY <2>1, <2>3, KnownNode
      <3>3. \A n \in reordered.nodes : \E m \in head.graph.nodes : Known(m) = Known(n)
        BY <2>1, <2>3, KnownNode
      <3>4. known(head.graph) \subseteq known(reordered)  BY <3>1, <3>2
      <3>5. known(reordered) \subseteq known(head.graph)  BY <3>1, <3>3
      <3> QED  BY <3>4, <3>5
    <2>5. \A e : e \in said(reordered) <=> e \in said(head.graph)
      BY <2>1, <2>3, OrderDoesNotMatter DEF files
    <2>6. said(reordered) = said(head.graph)
      <3> HIDE DEF said
      <3> QED  BY <2>5, SameSet
    <2> QED  BY <2>4, <2>6 DEF OrderIndependent, reordered, other, order
  <1> QED  BY <1>1, VersionsHold, PTL

LEMMA NodeTags ==
    ASSUME NEW files, NEW f, NEW n
    PROVE  /\ n = RepositoryNode => n.id[1] = "repository" /\ n.type = "Repository"
           /\ IsFile(files, f, n) => n.id[1] = "file" /\ n.id[2] = f /\ n.type = "File"
           /\ IsDirectory(f, n) => n.id[1] = "dir" /\ n.type = "Directory"
           /\ IsSymbol(files, f, n) => n.id[1] = "symbol" /\ n.id[2] = f
           /\ IsEndpoint(files, f, n) => n.id[1] = "endpoint" /\ n.id[2] = f /\ n.type = "Endpoint"
           /\ \A order : IsPackage(files, order, f, n) =>
                \/ n.id[1] = "package" /\ n.type = "ExternalPackage"
                \/ n.id[1] = "unresolved-module" /\ n.type = "Module"
           /\ IsUnresolved(files, f, n) => n.id[1] = "unresolved" /\ n.id[2] = f /\ n.type = "UnresolvedSymbol"
           /\ IsHandler(files, f, n) => n.id[1] = "handler" /\ n.id[2] = f /\ n.type = "UnresolvedSymbol"
           /\ IsEntity(files, f, n) => n.id[1] = "entity" /\ n.id[2][2] = f /\ n.type = "DatabaseEntity"
  <1>1. n = RepositoryNode => n.id[1] = "repository" /\ n.type = "Repository"
    BY NodeFields DEF RepositoryNode, RepositoryId
  <1>2. IsFile(files, f, n) => n.id[1] = "file" /\ n.id[2] = f /\ n.type = "File"
    BY NodeFields DEF IsFile, FileNode, FileId
  <1>3. IsDirectory(f, n) => n.id[1] = "dir" /\ n.type = "Directory"
    BY NodeFields DEF IsDirectory, DirectoryNode
  <1>4. IsSymbol(files, f, n) => n.id[1] = "symbol" /\ n.id[2] = f
    BY NodeFields DEF IsSymbol, SymbolNode, SymbolId
  <1>5. IsEndpoint(files, f, n) => n.id[1] = "endpoint" /\ n.id[2] = f /\ n.type = "Endpoint"
    BY NodeFields DEF IsEndpoint, EndpointNode, EndpointId
  <1>6. \A order : IsPackage(files, order, f, n) =>
                \/ n.id[1] = "package" /\ n.type = "ExternalPackage"
                \/ n.id[1] = "unresolved-module" /\ n.type = "Module"
    BY NodeFields DEF IsPackage, PackageNode, PackageId
  <1>7. IsUnresolved(files, f, n) => n.id[1] = "unresolved" /\ n.id[2] = f /\ n.type = "UnresolvedSymbol"
    BY NodeFields DEF IsUnresolved, UnresolvedNode, UnresolvedId
  <1>8. IsHandler(files, f, n) => n.id[1] = "handler" /\ n.id[2] = f /\ n.type = "UnresolvedSymbol"
    BY NodeFields DEF IsHandler, HandlerNode, HandlerId
  <1>9. IsEntity(files, f, n) => n.id[1] = "entity" /\ n.id[2][2] = f /\ n.type = "DatabaseEntity"
    BY NodeFields DEF IsEntity, EntityNode, EntityId, SymbolId
  <1> QED  BY <1>1, <1>2, <1>3, <1>4, <1>5, <1>6, <1>7, <1>8, <1>9

(* Two nodes of a kind with the same id are the same.                      *)
LEMMA SameOfKind ==
    ASSUME NEW files, Repository(files), NEW order, NEW f \in DOMAIN files, NEW g \in DOMAIN files,
           NEW m, NEW n, m.id = n.id
    PROVE  /\ IsFile(files, f, m) /\ IsFile(files, g, n) => m = n
           /\ IsDirectory(f, m) /\ IsDirectory(g, n) => m = n
           /\ IsSymbol(files, f, m) /\ IsSymbol(files, g, n) => m = n
           /\ IsEndpoint(files, f, m) /\ IsEndpoint(files, g, n) => m = n
           /\ IsPackage(files, order, f, m) /\ IsPackage(files, order, g, n) => m = n
           /\ IsUnresolved(files, f, m) /\ IsUnresolved(files, g, n) => m = n
           /\ IsHandler(files, f, m) /\ IsHandler(files, g, n) => m = n
           /\ IsEntity(files, f, m) /\ IsEntity(files, g, n) => m = n
  <1>1. ASSUME IsFile(files, f, m), IsFile(files, g, n) PROVE m = n
    <2>1. f = g  BY <1>1, NodeTags
    <2> QED  BY <1>1, <2>1 DEF IsFile
  <1>2. ASSUME IsDirectory(f, m), IsDirectory(g, n) PROVE m = n
    <2>1. PICK a \in Parents(f) : m = DirectoryNode(a)  BY <1>2 DEF IsDirectory
    <2>2. PICK b \in Parents(g) : n = DirectoryNode(b)  BY <1>2 DEF IsDirectory
    <2>3. m.id = <<"dir", a>> /\ n.id = <<"dir", b>>  BY <2>1, <2>2, NodeFields DEF DirectoryNode
    <2> QED  BY <2>1, <2>2, <2>3
  <1>3. ASSUME IsSymbol(files, f, m), IsSymbol(files, g, n) PROVE m = n
    <2>1. PICK s \in files[f].symbols : m = SymbolNode(f, s)  BY <1>3 DEF IsSymbol
    <2>2. PICK t \in files[g].symbols : n = SymbolNode(g, t)  BY <1>3 DEF IsSymbol
    <2>3. f = g /\ s.name = t.name  BY <2>1, <2>2, NodeFields DEF SymbolNode, SymbolId
    <2>4. s = t  BY <2>3 DEF Repository, Extracted, Symbols
    <2> QED  BY <2>1, <2>2, <2>3, <2>4
  <1>4. ASSUME IsEndpoint(files, f, m), IsEndpoint(files, g, n) PROVE m = n
    <2>1. PICK d \in files[f].endpoints : m = EndpointNode(f, d)  BY <1>4 DEF IsEndpoint
    <2>2. PICK e \in files[g].endpoints : n = EndpointNode(g, e)  BY <1>4 DEF IsEndpoint
    <2>3. f = g /\ d.line = e.line  BY <2>1, <2>2, NodeFields DEF EndpointNode, EndpointId
    <2>4. d = e  BY <2>3 DEF Repository, Extracted, EndpointsOf
    <2> QED  BY <2>1, <2>2, <2>3, <2>4
  <1>5. ASSUME IsPackage(files, order, f, m), IsPackage(files, order, g, n) PROVE m = n
    <2>1. PICK i \in Outside(files, f) : m = PackageNode(files, order, i)  BY <1>5 DEF IsPackage
    <2>2. PICK j \in Outside(files, g) : n = PackageNode(files, order, j)  BY <1>5 DEF IsPackage
    <2>3. PackageId(i.module) = PackageId(j.module)  BY <2>1, <2>2, NodeFields DEF PackageNode
    <2>4. IsLocal(i.module) <=> IsLocal(j.module)  BY <2>3 DEF PackageId
    <2> QED  BY <2>1, <2>2, <2>3, <2>4 DEF PackageNode
  <1>6. ASSUME IsUnresolved(files, f, m), IsUnresolved(files, g, n) PROVE m = n
    <2>1. PICK r \in LastUnresolved(files, f) : m = UnresolvedNode(f, r)  BY <1>6 DEF IsUnresolved
    <2>2. PICK q \in LastUnresolved(files, g) : n = UnresolvedNode(g, q)  BY <1>6 DEF IsUnresolved
    <2>3. UnresolvedId(f, r) = UnresolvedId(g, q)  BY <2>1, <2>2, NodeFields DEF UnresolvedNode
    <2>4. f = g  BY <2>3 DEF UnresolvedId
    <2>5. r.line <= q.line /\ q.line <= r.line  BY <2>3, <2>4 DEF LastUnresolved
    <2>6. r.line \in Nat /\ q.line \in Nat
      BY <2>4 DEF LastUnresolved, Unresolved, Repository, Extracted, ReferencesOf
    <2>7. r.line = q.line  BY <2>5, <2>6
    <2> QED  BY <2>1, <2>2, <2>3, <2>4, <2>7 DEF UnresolvedNode
  <1>7. ASSUME IsHandler(files, f, m), IsHandler(files, g, n) PROVE m = n
    <2>1. PICK d \in LastUnhandled(files, f) : m = HandlerNode(f, d)  BY <1>7 DEF IsHandler
    <2>2. PICK e \in LastUnhandled(files, g) : n = HandlerNode(g, e)  BY <1>7 DEF IsHandler
    <2>3. HandlerId(f, d.handler) = HandlerId(g, e.handler)
      BY <2>1, <2>2, NodeFields DEF HandlerNode
    <2>4. f = g /\ d.handler = e.handler  BY <2>3 DEF HandlerId
    <2>5. d.line <= e.line /\ e.line <= d.line  BY <2>4 DEF LastUnhandled
    <2>6. d.line \in Nat /\ e.line \in Nat
      BY <2>4 DEF LastUnhandled, Repository, Extracted, EndpointsOf
    <2>7. d.line = e.line  BY <2>5, <2>6
    <2> QED  BY <2>1, <2>2, <2>4, <2>7 DEF HandlerNode
  <1>8. ASSUME IsEntity(files, f, m), IsEntity(files, g, n) PROVE m = n
    <2>1. PICK s \in Models(files, f) : m = EntityNode(f, s)  BY <1>8 DEF IsEntity
    <2>2. PICK t \in Models(files, g) : n = EntityNode(g, t)  BY <1>8 DEF IsEntity
    <2>3. EntityId(SymbolId(f, s)) = EntityId(SymbolId(g, t))
      BY <2>1, <2>2, NodeFields DEF EntityNode
    <2>4. f = g /\ s.name = t.name  BY <2>3 DEF EntityId, SymbolId
    <2>5. s = t  BY <2>4 DEF Models, Repository, Extracted, Symbols
    <2> QED  BY <2>1, <2>2, <2>4, <2>5
  <1> QED  BY <1>1, <1>2, <1>3, <1>4, <1>5, <1>6, <1>7, <1>8

LEMMA SameNode ==
    ASSUME NEW files, Repository(files), NEW order, NEW m, NEW n,
           m \in ResolveGraph(files, order).nodes, n \in ResolveGraph(files, order).nodes, m.id = n.id
    PROVE  m = n
  <1>1. PICK f \in DOMAIN files : NodeOfFile(files, order, f, m)  BY GraphNodes
  <1>2. PICK g \in DOMAIN files : NodeOfFile(files, order, g, n)  BY GraphNodes
  <1> USE NodeTags
  <1>3. CASE m = RepositoryNode  BY <1>2, <1>3 DEF NodeOfFile
  <1>4. CASE IsFile(files, f, m)  BY <1>2, <1>4, SameOfKind DEF NodeOfFile
  <1>5. CASE IsDirectory(f, m)  BY <1>2, <1>5, SameOfKind DEF NodeOfFile
  <1>6. CASE IsSymbol(files, f, m)  BY <1>2, <1>6, SameOfKind DEF NodeOfFile
  <1>7. CASE IsEndpoint(files, f, m)  BY <1>2, <1>7, SameOfKind DEF NodeOfFile
  <1>8. CASE IsPackage(files, order, f, m)  BY <1>2, <1>8, SameOfKind DEF NodeOfFile
  <1>9. CASE IsUnresolved(files, f, m)  BY <1>2, <1>9, SameOfKind DEF NodeOfFile
  <1>10. CASE IsHandler(files, f, m)  BY <1>2, <1>10, SameOfKind DEF NodeOfFile
  <1>11. CASE IsEntity(files, f, m)  BY <1>2, <1>11, SameOfKind DEF NodeOfFile
  <1> QED  BY <1>1, <1>3, <1>4, <1>5, <1>6, <1>7, <1>8, <1>9, <1>10, <1>11 DEF NodeOfFile

LEMMA LastOf ==
    ASSUME NEW n \in Nat, NEW T, T \subseteq 1..n, T # {}
    PROVE  \E x \in T : \A y \in T : y <= x
  <1> DEFINE U == {n - t : t \in T}
  <1>1. U \subseteq Nat /\ U # {}
    <2>1. \A t \in T : n - t \in Nat  OBVIOUS
    <2> QED  BY <2>1
  <1>2. PICK u \in U : \A v \in U : u <= v  BY <1>1, LeastElement
  <1>3. PICK x \in T : u = n - x  OBVIOUS
  <1>4. ASSUME NEW y \in T PROVE y <= x
    <2>1. n - x <= n - y  BY <1>2, <1>3
    <2>2. x \in 1..n /\ y \in 1..n  OBVIOUS
    <2> QED  BY <2>1, <2>2
  <1> QED  BY <1>4

(* What has a node.                                                        *)
LEMMA NodeIds ==
    ASSUME NEW files, Repository(files), NEW order, NEW f \in DOMAIN files
    PROVE  LET ids == Ids(ResolveGraph(files, order))
           IN  /\ RepositoryId \in ids
               /\ FileId(f) \in ids
               /\ \A a \in Parents(f) : <<"dir", a>> \in ids
               /\ \A s \in files[f].symbols : SymbolId(f, s) \in ids
               /\ \A e \in files[f].endpoints : EndpointId(f, e) \in ids
               /\ \A i \in Outside(files, f) : PackageId(i.module) \in ids
               /\ \A r \in Unresolved(files, f) : UnresolvedId(f, r) \in ids
               /\ \A e \in files[f].endpoints :
                    Meaning(files, f, e.handler, <<>>) = None => HandlerId(f, e.handler) \in ids
               /\ \A s \in Models(files, f) : EntityId(SymbolId(f, s)) \in ids
  <1> DEFINE ids == Ids(ResolveGraph(files, order))
  <1>1. ASSUME NEW n, NodeOfFile(files, order, f, n) PROVE n.id \in ids
    <2>1. n \in ResolveGraph(files, order).nodes  BY <1>1, GraphNodes
    <2> QED  BY <2>1 DEF Ids
  <1> HIDE DEF ids
  <1>2. RepositoryId \in ids
    <2>1. RepositoryNode.id = RepositoryId  BY NodeFields DEF RepositoryNode
    <2> QED  BY <1>1, <2>1 DEF NodeOfFile
  <1>3. FileId(f) \in ids
    <2>1. FileNode(files, f).id = FileId(f)  BY NodeFields DEF FileNode
    <2> QED  BY <1>1, <2>1 DEF NodeOfFile, IsFile
  <1>4. ASSUME NEW a \in Parents(f) PROVE <<"dir", a>> \in ids
    <2>1. DirectoryNode(a).id = <<"dir", a>>  BY NodeFields DEF DirectoryNode
    <2>2. NodeOfFile(files, order, f, DirectoryNode(a))  BY DEF NodeOfFile, IsDirectory
    <2> QED  BY <1>1, <2>1, <2>2
  <1>5. ASSUME NEW s \in files[f].symbols PROVE SymbolId(f, s) \in ids
    <2>1. SymbolNode(f, s).id = SymbolId(f, s)  BY NodeFields DEF SymbolNode
    <2>2. NodeOfFile(files, order, f, SymbolNode(f, s))  BY DEF NodeOfFile, IsSymbol
    <2> QED  BY <1>1, <2>1, <2>2
  <1>6. ASSUME NEW e \in files[f].endpoints PROVE EndpointId(f, e) \in ids
    <2>1. EndpointNode(f, e).id = EndpointId(f, e)  BY NodeFields DEF EndpointNode
    <2>2. NodeOfFile(files, order, f, EndpointNode(f, e))  BY DEF NodeOfFile, IsEndpoint
    <2> QED  BY <1>1, <2>1, <2>2
  <1>7. ASSUME NEW i \in Outside(files, f) PROVE PackageId(i.module) \in ids
    <2>1. PackageNode(files, order, i).id = PackageId(i.module)  BY NodeFields DEF PackageNode
    <2>2. NodeOfFile(files, order, f, PackageNode(files, order, i))  BY DEF NodeOfFile, IsPackage
    <2> QED  BY <1>1, <2>1, <2>2
  <1>8. ASSUME NEW r \in Unresolved(files, f) PROVE UnresolvedId(f, r) \in ids
    <2> DEFINE same == {v \in Unresolved(files, f) : UnresolvedId(f, v) = UnresolvedId(f, r)}
               lines == {v.line : v \in same}
               n == Len(files[f].text)
    <2>1. n \in Nat /\ \A v \in same : v.line \in 1..n
      BY DEF Repository, Extracted, ReferencesOf, Unresolved
    <2>2. lines \subseteq 1..n /\ lines # {}  BY <2>1
    <2> HIDE DEF n
    <2>3. PICK line \in lines : \A other \in lines : other <= line  BY <2>1, <2>2, LastOf
    <2>4. PICK u \in same : u.line = line  OBVIOUS
    <2>5. u \in LastUnresolved(files, f)  BY <2>3, <2>4 DEF LastUnresolved
    <2>6. UnresolvedNode(f, u).id = UnresolvedId(f, r)  BY NodeFields DEF UnresolvedNode
    <2>7. NodeOfFile(files, order, f, UnresolvedNode(f, u))  BY <2>5 DEF NodeOfFile, IsUnresolved
    <2> QED  BY <1>1, <2>6, <2>7
  <1>9. ASSUME NEW e \in files[f].endpoints, Meaning(files, f, e.handler, <<>>) = None
        PROVE  HandlerId(f, e.handler) \in ids
    <2> DEFINE same == {d \in files[f].endpoints : d.handler = e.handler}
               lines == {d.line : d \in same}
               n == Len(files[f].text)
    <2>1. n \in Nat /\ \A d \in same : d.line \in 1..n  BY DEF Repository, Extracted, EndpointsOf
    <2>2. lines \subseteq 1..n /\ lines # {}  BY <2>1
    <2> HIDE DEF n
    <2>3. PICK line \in lines : \A other \in lines : other <= line  BY <2>1, <2>2, LastOf
    <2>4. PICK d \in same : d.line = line  OBVIOUS
    <2>5. d \in LastUnhandled(files, f)  BY <1>9, <2>3, <2>4 DEF LastUnhandled
    <2>6. HandlerNode(f, d).id = HandlerId(f, e.handler)  BY NodeFields DEF HandlerNode
    <2>7. NodeOfFile(files, order, f, HandlerNode(f, d))  BY <2>5 DEF NodeOfFile, IsHandler
    <2> QED  BY <1>1, <2>6, <2>7
  <1>10. ASSUME NEW s \in Models(files, f) PROVE EntityId(SymbolId(f, s)) \in ids
    <2>1. EntityNode(f, s).id = EntityId(SymbolId(f, s))  BY NodeFields DEF EntityNode
    <2>2. NodeOfFile(files, order, f, EntityNode(f, s))  BY DEF NodeOfFile, IsEntity
    <2> QED  BY <1>1, <2>1, <2>2
  <1> QED  BY <1>2, <1>3, <1>4, <1>5, <1>6, <1>7, <1>8, <1>9, <1>10 DEF ids

(* What stands for something that was not found.                           *)
Missing(id) == id[1] \in {"unresolved", "handler", "unresolved-module"}

LEMMA TypeTells ==
    ASSUME NEW files, Repository(files), NEW order, NEW id \in Ids(ResolveGraph(files, order))
    PROVE  TypeOf(ResolveGraph(files, order), id) \in {"UnresolvedSymbol", "Module"} <=> Missing(id)
  <1> DEFINE g == ResolveGraph(files, order)
             n == NodeOf(g, id)
  <1>1. n \in g.nodes /\ n.id = id  BY DEF Ids, NodeOf
  <1> HIDE DEF n
  <1>2. PICK f \in DOMAIN files : NodeOfFile(files, order, f, n)  BY <1>1, GraphNodes
  <1>3. IsSymbol(files, f, n) => n.type \in {"Class", "Method", "Function"}
    BY NodeFields DEF IsSymbol, SymbolNode, Repository, Extracted, Symbols
  <1>4. n.type \in {"UnresolvedSymbol", "Module"} <=> Missing(n.id)
    BY <1>2, <1>3, NodeTags DEF NodeOfFile, Missing
  <1> QED  BY <1>1, <1>4 DEF TypeOf, n

-----------------------------------------------------------------------------
(* The edges of a graph: both ends are nodes, and how an edge is resolved  *)
(* is told by its type and target.                                         *)

Resolution(target, type) ==
    IF type \in {"READS_FROM", "WRITES_TO"} THEN "probable"
    ELSE IF Missing(target) THEN "unresolved" ELSE "resolved"

Firm(g) == {id \in Ids(g) : ~Missing(id)}

(* What is not only where code is.                                         *)
Code(id) == id[1] \notin {"repository", "dir"}

Linked(g, e) ==
    /\ e.source \in Firm(g) /\ e.target \in Ids(g)
    /\ e.resolution = Resolution(e.target, e.type)
    /\ e.resolution = "probable" => ~Missing(e.target)
    /\ e.type # "CONTAINS" => Code(e.source) /\ Code(e.target)
    /\ e = Edge(e.source, e.target, e.type, e.file, e.line, e.resolution)

LEMMA EdgeFields ==
    ASSUME NEW source, NEW target, NEW type, NEW f, NEW line, NEW resolution
    PROVE  LET e == Edge(source, target, type, f, line, resolution)
           IN  /\ e.source = source /\ e.target = target /\ e.type = type
               /\ e.file = f /\ e.line = line /\ e.resolution = resolution
  BY DEF Edge

LEMMA LinkedEdge ==
    ASSUME NEW g, NEW source \in Firm(g), NEW target \in Ids(g), NEW type, NEW f, NEW line, NEW resolution,
           resolution = Resolution(target, type), resolution = "probable" => ~Missing(target),
           type # "CONTAINS" => Code(source) /\ Code(target)
    PROVE  Linked(g, Edge(source, target, type, f, line, resolution))
  BY EdgeFields DEF Linked

LEMMA ResolvedEdge ==
    ASSUME NEW g, NEW source \in Firm(g), NEW target \in Firm(g), NEW type, type \notin {"READS_FROM", "WRITES_TO"},
           NEW f, NEW line, type # "CONTAINS" => Code(source) /\ Code(target)
    PROVE  Linked(g, Edge(source, target, type, f, line, "resolved"))
  BY LinkedEdge DEF Firm, Resolution

LEMMA UnresolvedEdge ==
    ASSUME NEW g, NEW source \in Firm(g), NEW target \in Ids(g), Missing(target),
           NEW type, type \notin {"READS_FROM", "WRITES_TO"}, NEW f, NEW line, Code(source), Code(target)
    PROVE  Linked(g, Edge(source, target, type, f, line, "unresolved"))
  BY LinkedEdge DEF Resolution

LEMMA CodeIds ==
    /\ \A f : Code(FileId(f))
    /\ \A f, s : Code(SymbolId(f, s))
    /\ \A f, d : Code(EndpointId(f, d))
    /\ \A s : Code(EntityId(s))
    /\ \A module : Code(PackageId(module))
    /\ \A f, r : Code(UnresolvedId(f, r))
    /\ \A f, h : Code(HandlerId(f, h))
    /\ \A files, f, name : Code(OwnerId(files, f, name))
  <1>1. \A f : Code(FileId(f))  BY DEF Code, FileId
  <1>2. \A f, s : Code(SymbolId(f, s))  BY DEF Code, SymbolId
  <1>3. \A f, d : Code(EndpointId(f, d))  BY DEF Code, EndpointId
  <1>4. \A s : Code(EntityId(s))  BY DEF Code, EntityId
  <1>5. \A module : Code(PackageId(module))  BY DEF Code, PackageId
  <1>6. \A f, r : Code(UnresolvedId(f, r))  BY DEF Code, UnresolvedId
  <1>7. \A f, h : Code(HandlerId(f, h))  BY DEF Code, HandlerId
  <1>8. \A files, f, name : Code(OwnerId(files, f, name))  BY <1>1, <1>2 DEF OwnerId
  <1> QED  BY <1>1, <1>2, <1>3, <1>4, <1>5, <1>6, <1>7, <1>8

LEMMA FirmIds ==
    ASSUME NEW files, Repository(files), NEW order, NEW f \in DOMAIN files
    PROVE  LET firm == Firm(ResolveGraph(files, order))
           IN  /\ RepositoryId \in firm
               /\ FileId(f) \in firm
               /\ \A a \in Parents(f) : <<"dir", a>> \in firm
               /\ \A s \in files[f].symbols : SymbolId(f, s) \in firm
               /\ \A e \in files[f].endpoints : EndpointId(f, e) \in firm
               /\ \A s \in Models(files, f) : EntityId(SymbolId(f, s)) \in firm
               /\ \A i \in Outside(files, f) : ~IsLocal(i.module) => PackageId(i.module) \in firm
               /\ \A name : (name # <<>> => \E s \in files[f].symbols : s.name = name) =>
                    OwnerId(files, f, name) \in firm
  <1> DEFINE ids == Ids(ResolveGraph(files, order))
             firm == Firm(ResolveGraph(files, order))
  <1>1. \A id : id \in firm <=> id \in ids /\ ~Missing(id)  BY DEF Firm
  <1>2. /\ RepositoryId \in ids
        /\ FileId(f) \in ids
        /\ \A a \in Parents(f) : <<"dir", a>> \in ids
        /\ \A s \in files[f].symbols : SymbolId(f, s) \in ids
        /\ \A e \in files[f].endpoints : EndpointId(f, e) \in ids
        /\ \A s \in Models(files, f) : EntityId(SymbolId(f, s)) \in ids
        /\ \A i \in Outside(files, f) : PackageId(i.module) \in ids  BY NodeIds
  <1> HIDE DEF ids, firm
  <1>3. RepositoryId \in firm /\ FileId(f) \in firm  BY <1>1, <1>2 DEF Missing, RepositoryId, FileId
  <1>4. \A a \in Parents(f) : <<"dir", a>> \in firm  BY <1>1, <1>2 DEF Missing
  <1>5. \A s \in files[f].symbols : SymbolId(f, s) \in firm  BY <1>1, <1>2 DEF Missing, SymbolId
  <1>6. \A e \in files[f].endpoints : EndpointId(f, e) \in firm
    BY <1>1, <1>2 DEF Missing, EndpointId
  <1>7. \A s \in Models(files, f) : EntityId(SymbolId(f, s)) \in firm
    BY <1>1, <1>2 DEF Missing, EntityId
  <1>8. \A i \in Outside(files, f) : ~IsLocal(i.module) => PackageId(i.module) \in firm
    BY <1>1, <1>2 DEF Missing, PackageId
  <1>9. ASSUME NEW name, name # <<>> => \E s \in files[f].symbols : s.name = name
        PROVE  OwnerId(files, f, name) \in firm
    <2>1. CASE name = <<>>  BY <1>3, <2>1 DEF OwnerId
    <2>2. CASE name # <<>>
      <3> DEFINE symbol == CHOOSE s \in files[f].symbols : s.name = name
      <3>1. symbol \in files[f].symbols  BY <1>9, <2>2
      <3>2. OwnerId(files, f, name) = SymbolId(f, symbol)  BY <2>2 DEF OwnerId
      <3> QED  BY <1>5, <3>1, <3>2
    <2> QED  BY <2>1, <2>2
  <1> QED  BY <1>3, <1>4, <1>5, <1>6, <1>7, <1>8, <1>9 DEF firm

LEMMA MeaningFirm ==
    ASSUME NEW files, Repository(files), NEW order, NEW f \in DOMAIN files, NEW target \in Names,
           NEW scope \in Seq(STRING), Meaning(files, f, target, scope) # None
    PROVE  /\ Meaning(files, f, target, scope) \in Firm(ResolveGraph(files, order))
           /\ Code(Meaning(files, f, target, scope))
  BY MeaningKnown, MeansSomething, FirmIds, CodeIds

LEMMA OwnerFirm ==
    ASSUME NEW files, Repository(files), NEW order, NEW f \in DOMAIN files, NEW r \in files[f].references
    PROVE  OwnerId(files, f, r.owner) \in Firm(ResolveGraph(files, order))
  <1>1. r.owner # <<>> => \E s \in files[f].symbols : s.name = r.owner
    BY DEF Repository, Extracted, ReferencesOf
  <1> QED  BY <1>1, FirmIds

Chain(f) == <<RepositoryId>> \o [n \in DOMAIN Directories[f] |-> DirectoryId(f, n)] \o <<FileId(f)>>

LEMMA ChainFirm ==
    ASSUME NEW files, Repository(files), NEW order, NEW f \in DOMAIN files
    PROVE  Chain(f) \in Seq(Firm(ResolveGraph(files, order)))
  <1> DEFINE T == Firm(ResolveGraph(files, order))
             m == Directories[f]
             dirs == [n \in DOMAIN m |-> DirectoryId(f, n)]
             first == <<RepositoryId>>
             last == <<FileId(f)>>
  <1>1. RepositoryId \in T /\ FileId(f) \in T  BY FirmIds
  <1>2. dirs \in Seq(T)
    <2>1. Len(m) \in Nat /\ DOMAIN m = 1..Len(m)
      <3>1. m \in Seq(STRING)  BY RepositoryContents DEF Repository
      <3> HIDE DEF m
      <3> QED  BY <3>1, LenProperties
    <2>2. ASSUME NEW n \in DOMAIN m PROVE DirectoryId(f, n) \in T
      <3>1. SubSeq(m, 1, n) \in Parents(f)  BY DEF Parents
      <3>2. DirectoryId(f, n) = <<"dir", SubSeq(m, 1, n)>>  BY DEF DirectoryId
      <3> QED  BY <3>1, <3>2, FirmIds
    <2> HIDE DEF m, T
    <2> QED  BY <2>1, <2>2
  <1> HIDE DEF T
  <1>3. first \in Seq(T) /\ last \in Seq(T)  BY <1>1, InShortList
  <1> HIDE DEF first, last, dirs
  <1>4. first \o dirs \in Seq(T)  BY <1>2, <1>3, InLists
  <1>5. first \o dirs \o last \in Seq(T)  BY <1>3, <1>4, InLists
  <1> QED  BY <1>5 DEF Chain, first, last, dirs, T

LEMMA ContainsLinked ==
    ASSUME NEW files, Repository(files), NEW order, NEW f \in DOMAIN files, NEW e \in ContainsEdges(files, f)
    PROVE  Linked(ResolveGraph(files, order), e)
  <1> DEFINE g == ResolveGraph(files, order)
             chain == Chain(f)
  <1>1. \/ \E i \in 1..(Len(chain) - 1) : e = Edge(chain[i], chain[i + 1], "CONTAINS", f, 1, "resolved")
        \/ \E d \in files[f].endpoints : e = Edge(FileId(f), EndpointId(f, d), "DEFINES", f, d.line, "resolved")
        \/ \E s \in files[f].symbols :
            e = Edge(OwnerId(files, f, s.owner), SymbolId(f, s), "DEFINES", f, s.start, "resolved")
    BY DEF ContainsEdges, Chain
  <1>2. RepositoryId \in Firm(g) /\ FileId(f) \in Firm(g)  BY FirmIds
  <1>4. chain \in Seq(Firm(g))  BY ChainFirm
  <1> HIDE DEF chain
  <1>5. CASE \E i \in 1..(Len(chain) - 1) : e = Edge(chain[i], chain[i + 1], "CONTAINS", f, 1, "resolved")
    <2>1. PICK i \in 1..(Len(chain) - 1) : e = Edge(chain[i], chain[i + 1], "CONTAINS", f, 1, "resolved")
      BY <1>5
    <2>2. Len(chain) \in Nat  BY <1>4, LenProperties
    <2>3. i \in 1..Len(chain) /\ i + 1 \in 1..Len(chain)  BY <2>2
    <2>4. chain[i] \in Firm(g) /\ chain[i + 1] \in Firm(g)  BY <1>4, <2>3, ElementOfSeq
    <2> QED  BY <2>1, <2>4, ResolvedEdge, CodeIds DEF Firm
  <1>6. CASE \E d \in files[f].endpoints : e = Edge(FileId(f), EndpointId(f, d), "DEFINES", f, d.line, "resolved")
    <2>1. PICK d \in files[f].endpoints : e = Edge(FileId(f), EndpointId(f, d), "DEFINES", f, d.line, "resolved")
      BY <1>6
    <2>2. EndpointId(f, d) \in Firm(g)  BY FirmIds
    <2> QED  BY <1>2, <2>1, <2>2, ResolvedEdge, CodeIds DEF Firm
  <1>7. CASE \E s \in files[f].symbols :
                e = Edge(OwnerId(files, f, s.owner), SymbolId(f, s), "DEFINES", f, s.start, "resolved")
    <2>1. PICK s \in files[f].symbols :
                e = Edge(OwnerId(files, f, s.owner), SymbolId(f, s), "DEFINES", f, s.start, "resolved")
      BY <1>7
    <2>2. s.owner # <<>> => \E t \in files[f].symbols : t.name = s.owner
      BY DEF Repository, Extracted, Symbols
    <2>3. OwnerId(files, f, s.owner) \in Firm(g) /\ SymbolId(f, s) \in Firm(g)  BY <2>2, FirmIds
    <2> QED  BY <2>1, <2>3, ResolvedEdge, CodeIds DEF Firm
  <1> QED  BY <1>1, <1>5, <1>6, <1>7

LEMMA ImportLinked ==
    ASSUME NEW files, Repository(files), NEW order, NEW f \in DOMAIN files, NEW e \in ImportEdges(files, f)
    PROVE  Linked(ResolveGraph(files, order), e)
  <1> DEFINE g == ResolveGraph(files, order)
             imports == files[f].imports
             inside == {alias \in DOMAIN imports : ImportPath(files, f, imports[alias]) # None}
             meaning(alias) == Meaning(files, f, <<alias>>, <<>>)
             module(alias) == FileId(ImportPath(files, f, imports[alias]))
  <1>1. \/ \E alias \in inside : e = Edge(FileId(f), module(alias), "IMPORTS", f, imports[alias].line, "resolved")
        \/ \E alias \in inside : /\ meaning(alias) # None
                                 /\ e = Edge(FileId(f), meaning(alias), "REFERENCES", f, imports[alias].line, "resolved")
        \/ \E i \in Outside(files, f) :
                e = IF IsLocal(i.module)
                    THEN Edge(FileId(f), PackageId(i.module), "IMPORTS", f, i.line, "unresolved")
                    ELSE Edge(FileId(f), PackageId(i.module), "USES_PACKAGE", f, i.line, "resolved")
    BY DEF ImportEdges
  <1>2. FileId(f) \in Firm(g)  BY FirmIds
  <1>3. ASSUME NEW alias \in inside PROVE module(alias) \in Firm(g) /\ Code(module(alias))
    <2>1. imports[alias].name \in STRING  BY DEF Repository, Extracted, ImportsOf
    <2>2. ImportPath(files, f, imports[alias]) \in DOMAIN files
      BY <2>1, ImportedKnown DEF ImportPath
    <2> QED  BY <2>2, FirmIds, CodeIds
  <1>4. ASSUME NEW alias \in inside, meaning(alias) # None PROVE meaning(alias) \in Firm(g) /\ Code(meaning(alias))
    <2>1. alias \in STRING  BY DEF Repository, Extracted, ImportsOf
    <2>2. <<alias>> \in Seq(STRING) /\ <<>> \in Seq(STRING) /\ <<alias>> # <<>>
      BY <2>1, InShortList, InNoList
    <2>3. <<alias>> \in Names  BY <2>2 DEF Names
    <2> QED  BY <1>4, <2>2, <2>3, MeaningFirm
  <1>5. ASSUME NEW i \in Outside(files, f)
        PROVE  /\ IsLocal(i.module) => Missing(PackageId(i.module))
               /\ ~IsLocal(i.module) => PackageId(i.module) \in Firm(g)
               /\ PackageId(i.module) \in Ids(g)
    <2>1. IsLocal(i.module) => Missing(PackageId(i.module))  BY DEF PackageId, Missing
    <2> QED  BY <2>1, FirmIds, NodeIds
  <1> HIDE DEF g, meaning, module, inside, imports
  <1>6. CASE \E alias \in inside : e = Edge(FileId(f), module(alias), "IMPORTS", f, imports[alias].line, "resolved")
    BY <1>2, <1>3, <1>6, ResolvedEdge, CodeIds DEF g
  <1>7. CASE \E alias \in inside : /\ meaning(alias) # None
                                   /\ e = Edge(FileId(f), meaning(alias), "REFERENCES", f, imports[alias].line, "resolved")
    BY <1>2, <1>4, <1>7, ResolvedEdge, CodeIds DEF g
  <1>8. CASE \E i \in Outside(files, f) :
                e = IF IsLocal(i.module)
                    THEN Edge(FileId(f), PackageId(i.module), "IMPORTS", f, i.line, "unresolved")
                    ELSE Edge(FileId(f), PackageId(i.module), "USES_PACKAGE", f, i.line, "resolved")
    BY <1>2, <1>5, <1>8, ResolvedEdge, UnresolvedEdge, CodeIds DEF g
  <1> QED  BY <1>1, <1>6, <1>7, <1>8

LEMMA ReferenceLinked ==
    ASSUME NEW files, Repository(files), NEW order, NEW f \in DOMAIN files, NEW e \in ReferenceEdges(files, f)
    PROVE  Linked(ResolveGraph(files, order), e)
  <1> DEFINE g == ResolveGraph(files, order)
  <1>1. PICK r \in files[f].references :
            e = Edge(OwnerId(files, f, r.owner), ReferenceTarget(files, f, r), r.kind, f, r.line,
                     IF r \in Unresolved(files, f) THEN "unresolved" ELSE "resolved")
    BY DEF ReferenceEdges
  <1>2. r.kind \in {"CALLS", "EXTENDS"} /\ r.target \in Names /\ r.scope \in Seq(STRING)
    BY DEF Repository, Extracted, ReferencesOf
  <1>3. OwnerId(files, f, r.owner) \in Firm(g)  BY OwnerFirm
  <1>4. CASE Meaning(files, f, r.target, r.scope) = None
    <2>1. r \in Unresolved(files, f) /\ ReferenceTarget(files, f, r) = UnresolvedId(f, r)
      BY <1>4 DEF Unresolved, ReferenceTarget
    <2>2. UnresolvedId(f, r) \in Ids(g) /\ Missing(UnresolvedId(f, r))
      BY <2>1, NodeIds DEF Missing, UnresolvedId
    <2> QED  BY <1>1, <1>2, <1>3, <2>1, <2>2, UnresolvedEdge, CodeIds
  <1>5. CASE Meaning(files, f, r.target, r.scope) # None
    <2>1. r \notin Unresolved(files, f) /\ ReferenceTarget(files, f, r) = Meaning(files, f, r.target, r.scope)
      BY <1>5 DEF Unresolved, ReferenceTarget
    <2>2. Meaning(files, f, r.target, r.scope) \in Firm(g) /\ Code(Meaning(files, f, r.target, r.scope))
      BY <1>2, <1>5, MeaningFirm
    <2> QED  BY <1>1, <1>2, <1>3, <2>1, <2>2, ResolvedEdge, CodeIds
  <1> QED  BY <1>4, <1>5

LEMMA HandlerLinked ==
    ASSUME NEW files, Repository(files), NEW order, NEW f \in DOMAIN files, NEW e \in HandlerEdges(files, f)
    PROVE  Linked(ResolveGraph(files, order), e)
  <1> DEFINE g == ResolveGraph(files, order)
             meaning(d) == Meaning(files, f, d.handler, <<>>)
  <1>1. PICK d \in files[f].endpoints :
            e = IF meaning(d) = None
                THEN Edge(EndpointId(f, d), HandlerId(f, d.handler), "HANDLES", f, d.line, "unresolved")
                ELSE Edge(EndpointId(f, d), meaning(d), "HANDLES", f, d.line, "resolved")
    BY DEF HandlerEdges
  <1>2. EndpointId(f, d) \in Firm(g)  BY FirmIds
  <1>3. d.handler \in Names /\ <<>> \in Seq(STRING)
    BY InNoList DEF Repository, Extracted, EndpointsOf
  <1>4. meaning(d) # None => meaning(d) \in Firm(g) /\ Code(meaning(d))  BY <1>3, MeaningFirm
  <1>5. meaning(d) = None => HandlerId(f, d.handler) \in Ids(g) /\ Missing(HandlerId(f, d.handler))
    BY NodeIds DEF Missing, HandlerId
  <1> HIDE DEF g, meaning
  <1> QED  BY <1>1, <1>2, <1>4, <1>5, ResolvedEdge, UnresolvedEdge, CodeIds DEF g

LEMMA PackageLinked ==
    ASSUME NEW files, Repository(files), NEW order, NEW f \in DOMAIN files, NEW sofar \in SUBSET DOMAIN files,
           NEW e \in PackageEdges(files, f, sofar)
    PROVE  Linked(ResolveGraph(files, order), e)
  <1> DEFINE g == ResolveGraph(files, order)
  <1>1. PICK r : /\ EdgeOfCall(files, f, r, e)
                 /\ ~IsLocal(files[f].imports[Head(r.target)].module)
                 /\ \E h \in sofar : PackageId(files[f].imports[Head(r.target)].module) \in PackageIds(files, h)
    BY EdgesOfPackages
  <1> DEFINE id == PackageId(files[f].imports[Head(r.target)].module)
  <1>2. PICK h \in sofar : id \in PackageIds(files, h)  BY <1>1
  <1>3. PICK i \in Outside(files, h) : PackageId(i.module) = id  BY <1>2 DEF PackageIds
  <1>4. id \in Ids(g)  BY <1>3, NodeIds
  <1>5. ~Missing(id)  BY <1>1 DEF PackageId, Missing
  <1>6. r \in files[f].references /\ e = Edge(OwnerId(files, f, r.owner), id, "USES_PACKAGE", f, r.line, "resolved")
    BY <1>1 DEF EdgeOfCall
  <1>7. OwnerId(files, f, r.owner) \in Firm(g) /\ id \in Firm(g) /\ Code(id)
    BY <1>4, <1>5, <1>6, OwnerFirm, CodeIds DEF Firm
  <1> HIDE DEF id, g
  <1> QED  BY <1>6, <1>7, ResolvedEdge, CodeIds DEF g

LEMMA EntityLinked ==
    ASSUME NEW files, Repository(files), NEW order, NEW f \in DOMAIN files, NEW e \in EntityEdges(files, f)
    PROVE  Linked(ResolveGraph(files, order), e)
  <1> DEFINE g == ResolveGraph(files, order)
  <1>1. PICK s \in Models(files, f) :
            e = Edge(SymbolId(f, s), EntityId(SymbolId(f, s)), "BELONGS_TO", f, s.start, "resolved")
    BY DEF EntityEdges
  <1>2. SymbolId(f, s) \in Firm(g) /\ EntityId(SymbolId(f, s)) \in Firm(g)  BY FirmIds DEF Models
  <1> QED  BY <1>1, <1>2, ResolvedEdge, CodeIds

OperationsOf(files, f) ==
    {r \in files[f].references : r.kind = "CALLS" /\ Last(r.target) \in Writes \union Reads}

EdgeOfOperation(files, f, r, id, e) ==
    e = Edge(OwnerId(files, f, r.owner), EntityId(id), IF Last(r.target) \in Writes THEN "WRITES_TO" ELSE "READS_FROM",
             f, r.line, "probable")

LEMMA EdgesOfOperations ==
    ASSUME NEW files, NEW f, NEW models, NEW e \in OperationEdges(files, f, models)
    PROVE  \E r \in OperationsOf(files, f) : \E id \in models : EdgeOfOperation(files, f, r, id, e)
  <1> DEFINE named(r) == ({Meaning(files, f, <<m>>, r.scope) : m \in {Head(r.target)} \union r.models} \ {None}) \intersect models
             edges(r) == {Edge(OwnerId(files, f, r.owner), EntityId(id),
                               IF Last(r.target) \in Writes THEN "WRITES_TO" ELSE "READS_FROM", f, r.line,
                               "probable") : id \in named(r)}
  <1>1. OperationEdges(files, f, models) = UNION {edges(r) : r \in OperationsOf(files, f)}
    BY DEF OperationEdges, OperationsOf
  <1> HIDE DEF edges
  <1>2. PICK r \in OperationsOf(files, f) : e \in edges(r)  BY <1>1
  <1>3. PICK id \in named(r) : EdgeOfOperation(files, f, r, id, e)
    BY <1>2 DEF edges, EdgeOfOperation
  <1> QED  BY <1>3

LEMMA OperationLinked ==
    ASSUME NEW files, Repository(files), NEW order, NEW f \in DOMAIN files,
           NEW e \in OperationEdges(files, f, KnownModels(files, <<>>, f))
    PROVE  Linked(ResolveGraph(files, order), e)
  <1> DEFINE g == ResolveGraph(files, order)
  <1>1. PICK r \in OperationsOf(files, f) : \E id \in KnownModels(files, <<>>, f) : EdgeOfOperation(files, f, r, id, e)
    BY EdgesOfOperations
  <1>2. PICK id \in KnownModels(files, <<>>, f) : EdgeOfOperation(files, f, r, id, e)  BY <1>1
  <1>3. PICK h \in DOMAIN files : \E s \in Models(files, h) : id = SymbolId(h, s)
    BY DEF KnownModels
  <1>4. PICK s \in Models(files, h) : id = SymbolId(h, s)  BY <1>3
  <1>5. EntityId(id) \in Ids(g) /\ ~Missing(EntityId(id))  BY <1>4, FirmIds DEF Firm
  <1>6. OwnerId(files, f, r.owner) \in Firm(g)  BY OwnerFirm DEF OperationsOf
  <1> DEFINE type == IF Last(r.target) \in Writes THEN "WRITES_TO" ELSE "READS_FROM"
  <1>7. e = Edge(OwnerId(files, f, r.owner), EntityId(id), type, f, r.line, "probable")
    BY <1>2 DEF EdgeOfOperation
  <1>8. "probable" = Resolution(EntityId(id), type)  BY DEF Resolution
  <1> HIDE DEF type, g
  <1> QED  BY <1>5, <1>6, <1>7, <1>8, LinkedEdge, CodeIds DEF g

(* The edges of all files.                                                 *)
LEMMA EdgesLinked ==
    ASSUME NEW files, Repository(files), NEW order, ToSet(order) = DOMAIN files,
           NEW e \in ResolveGraph(files, order).edges
    PROVE  Linked(ResolveGraph(files, order), e)
  <1>1. PICK f \in DOMAIN files : e \in EdgesSaid(files, f) \/ e \in PackageEdges(files, f, UpTo(order, f))
    BY GraphEdges
  <1>2. UpTo(order, f) \in SUBSET DOMAIN files  BY DEF UpTo, ToSet
  <1> QED  BY <1>1, <1>2, ContainsLinked, ImportLinked, ReferenceLinked, HandlerLinked, PackageLinked,
              EntityLinked, OperationLinked DEF EdgesSaid

LEMMA SameEdge ==
    ASSUME NEW g, NEW d, NEW e, Linked(g, d), Linked(g, e), EdgeId(d) = EdgeId(e)
    PROVE  d = e
  BY DEF Linked, EdgeId

-----------------------------------------------------------------------------
(* A graph is finite.                                                      *)

LEMMA FiniteBy ==
    ASSUME NEW S, IsFiniteSet(S), NEW h, S \subseteq DOMAIN h, NEW A, \A x \in A : \E s \in S : x = h[s]
    PROVE  IsFiniteSet(A)
  <1>1. IsFiniteSet({h[s] : s \in S})  BY FiniteImage
  <1>2. A \subseteq {h[s] : s \in S}  OBVIOUS
  <1> QED  BY <1>1, <1>2, FS_Subset

LEMMA PartsFinite ==
    ASSUME NEW files, Repository(files), NEW f \in DOMAIN files
    PROVE  /\ IsFiniteSet(files[f].symbols) /\ IsFiniteSet(files[f].endpoints)
           /\ IsFiniteSet(files[f].references) /\ IsFiniteSet(DOMAIN files[f].imports)
           /\ IsFiniteSet(Outside(files, f)) /\ IsFiniteSet(Models(files, f))
           /\ IsFiniteSet(DOMAIN Directories[f])
  <1>1. /\ IsFiniteSet(files[f].symbols) /\ IsFiniteSet(files[f].endpoints)
        /\ IsFiniteSet(files[f].references) /\ IsFiniteSet(DOMAIN files[f].imports)
    BY DEF Repository, Extracted, Symbols, ImportsOf, ReferencesOf, EndpointsOf
  <1>2. IsFiniteSet(Outside(files, f))
    <2>1. \A i \in Outside(files, f) : \E alias \in DOMAIN files[f].imports : i = files[f].imports[alias]
      BY DEF Outside
    <2> QED  BY <1>1, <2>1, FiniteBy
  <1>3. IsFiniteSet(Models(files, f))
    <2>1. Models(files, f) \subseteq files[f].symbols  BY DEF Models
    <2> QED  BY <1>1, <2>1, FS_Subset
  <1>4. IsFiniteSet(DOMAIN Directories[f])
    <2>1. Directories[f] \in Seq(STRING)  BY RepositoryContents DEF Repository
    <2> QED  BY <2>1, FiniteDomain
  <1> QED  BY <1>1, <1>2, <1>3, <1>4

LEMMA FiniteUnions ==
    ASSUME NEW a, NEW b, NEW c, NEW d, IsFiniteSet(a), IsFiniteSet(b), IsFiniteSet(c), IsFiniteSet(d)
    PROVE  IsFiniteSet(a \union b \union c \union d)
  <1>1. IsFiniteSet(a \union b)  BY FS_Union
  <1>2. IsFiniteSet(a \union b \union c)  BY <1>1, FS_Union
  <1> QED  BY <1>2, FS_Union

LEMMA NodesFinite ==
    ASSUME NEW files, Repository(files), NEW order
    PROVE  IsFiniteSet(ResolveGraph(files, order).nodes)
  <1> DEFINE nodes == ResolveGraph(files, order).nodes
             of == [f \in DOMAIN files |-> {n \in nodes : NodeOfFile(files, order, f, n)}]
  <1>1. ASSUME NEW f \in DOMAIN files PROVE IsFiniteSet(of[f])
    <2> DEFINE two == {n \in nodes : n = RepositoryNode \/ n = FileNode(files, f)}
               directories == {n \in nodes : IsDirectory(f, n)}
               symbols == {n \in nodes : IsSymbol(files, f, n)}
               endpoints == {n \in nodes : IsEndpoint(files, f, n)}
               packages == {n \in nodes : IsPackage(files, order, f, n)}
               unresolved == {n \in nodes : IsUnresolved(files, f, n)}
               handlers == {n \in nodes : IsHandler(files, f, n)}
               entities == {n \in nodes : IsEntity(files, f, n)}
    <2>1. of[f] = {n \in nodes : NodeOfFile(files, order, f, n)}  OBVIOUS
    <2>2. \A n \in of[f] : \/ n \in two \/ n \in directories \/ n \in symbols \/ n \in endpoints
                           \/ n \in packages \/ n \in unresolved \/ n \in handlers \/ n \in entities
      BY <2>1 DEF NodeOfFile, IsFile
    <2> HIDE DEF of, nodes
    <2>3. IsFiniteSet(two)
      <3>1. two \subseteq {RepositoryNode, FileNode(files, f)}  OBVIOUS
      <3>2. IsFiniteSet({RepositoryNode}) /\ IsFiniteSet({FileNode(files, f)})  BY FS_Singleton
      <3>3. {RepositoryNode, FileNode(files, f)} = {RepositoryNode} \union {FileNode(files, f)}
        OBVIOUS
      <3>4. IsFiniteSet({RepositoryNode, FileNode(files, f)})  BY <3>2, <3>3, FS_Union
      <3> QED  BY <3>1, <3>4, FS_Subset
    <2>4. IsFiniteSet(directories)
      <3> DEFINE m == Directories[f]
                 node == [k \in DOMAIN m |-> DirectoryNode(SubSeq(m, 1, k))]
      <3>1. IsFiniteSet(DOMAIN m) /\ DOMAIN m \subseteq DOMAIN node  BY PartsFinite
      <3>2. \A n \in directories : \E k \in DOMAIN m : n = node[k]  BY DEF IsDirectory, Parents
      <3> HIDE DEF m, node, directories
      <3> QED  BY <3>1, <3>2, FiniteBy
    <2>5. IsFiniteSet(symbols)
      <3> DEFINE node == [s \in files[f].symbols |-> SymbolNode(f, s)]
      <3>1. files[f].symbols \subseteq DOMAIN node /\ \A n \in symbols : \E s \in files[f].symbols : n = node[s]
        BY DEF IsSymbol
      <3> HIDE DEF node, symbols
      <3> QED  BY <3>1, PartsFinite, FiniteBy
    <2>6. IsFiniteSet(endpoints)
      <3> DEFINE node == [d \in files[f].endpoints |-> EndpointNode(f, d)]
      <3>1. files[f].endpoints \subseteq DOMAIN node /\ \A n \in endpoints : \E d \in files[f].endpoints : n = node[d]
        BY DEF IsEndpoint
      <3> HIDE DEF node, endpoints
      <3> QED  BY <3>1, PartsFinite, FiniteBy
    <2>7. IsFiniteSet(packages)
      <3> DEFINE node == [i \in Outside(files, f) |-> PackageNode(files, order, i)]
      <3>1. Outside(files, f) \subseteq DOMAIN node /\ \A n \in packages : \E i \in Outside(files, f) : n = node[i]
        BY DEF IsPackage
      <3> HIDE DEF node, packages
      <3> QED  BY <3>1, PartsFinite, FiniteBy
    <2>8. IsFiniteSet(unresolved)
      <3> DEFINE node == [r \in files[f].references |-> UnresolvedNode(f, r)]
      <3>1. files[f].references \subseteq DOMAIN node /\ \A n \in unresolved : \E r \in files[f].references : n = node[r]
        BY DEF IsUnresolved, LastUnresolved, Unresolved
      <3> HIDE DEF node, unresolved
      <3> QED  BY <3>1, PartsFinite, FiniteBy
    <2>9. IsFiniteSet(handlers)
      <3> DEFINE node == [d \in files[f].endpoints |-> HandlerNode(f, d)]
      <3>1. files[f].endpoints \subseteq DOMAIN node /\ \A n \in handlers : \E d \in files[f].endpoints : n = node[d]
        BY DEF IsHandler, LastUnhandled
      <3> HIDE DEF node, handlers
      <3> QED  BY <3>1, PartsFinite, FiniteBy
    <2>10. IsFiniteSet(entities)
      <3> DEFINE node == [s \in Models(files, f) |-> EntityNode(f, s)]
      <3>1. Models(files, f) \subseteq DOMAIN node /\ \A n \in entities : \E s \in Models(files, f) : n = node[s]
        BY DEF IsEntity
      <3> HIDE DEF node, entities
      <3> QED  BY <3>1, PartsFinite, FiniteBy
    <2> HIDE DEF two, directories, symbols, endpoints, packages, unresolved, handlers, entities
    <2>11. IsFiniteSet(two \union directories \union symbols \union endpoints)
      BY <2>3, <2>4, <2>5, <2>6, FiniteUnions
    <2>12. IsFiniteSet(packages \union unresolved \union handlers \union entities)
      BY <2>7, <2>8, <2>9, <2>10, FiniteUnions
    <2> DEFINE all == (two \union directories \union symbols \union endpoints)
                         \union (packages \union unresolved \union handlers \union entities)
    <2>13. IsFiniteSet(all)  BY <2>11, <2>12, FS_Union
    <2>14. of[f] \subseteq all  BY <2>2
    <2> QED  BY <2>13, <2>14, FS_Subset
  <1>2. IsFiniteSet(All(of, DOMAIN files))
    <2> HIDE DEF of
    <2> QED  BY <1>1, FiniteUnion DEF Repository
  <1>3. \A n \in nodes : \E f \in DOMAIN files : n \in of[f]  BY GraphNodes
  <1>4. nodes \subseteq All(of, DOMAIN files)
    <2> HIDE DEF of, nodes
    <2> QED  BY <1>3, InUnion
  <1> QED  BY <1>2, <1>4, FS_Subset

LEMMA ModelsFinite ==
    ASSUME NEW files, Repository(files), NEW order, NEW f
    PROVE  IsFiniteSet(KnownModels(files, order, f))
  <1> DEFINE of == [h \in DOMAIN files |-> {SymbolId(h, s) : s \in Models(files, h)}]
  <1>1. ASSUME NEW h \in DOMAIN files PROVE IsFiniteSet(of[h])
    <2> DEFINE id == [s \in Models(files, h) |-> SymbolId(h, s)]
    <2>1. Models(files, h) \subseteq DOMAIN id /\ \A x \in of[h] : \E s \in Models(files, h) : x = id[s]
      OBVIOUS
    <2> HIDE DEF of, id
    <2> QED  BY <2>1, PartsFinite, FiniteBy
  <1>2. KnownModels(files, order, f) = All(of, DOMAIN files)  BY DEF KnownModels, All
  <1> HIDE DEF of
  <1> QED  BY <1>1, <1>2, FiniteUnion DEF Repository

LEMMA EdgesFinite ==
    ASSUME NEW files, Repository(files), NEW order
    PROVE  IsFiniteSet(ResolveGraph(files, order).edges)
  <1> DEFINE edges == ResolveGraph(files, order).edges
             of == [f \in DOMAIN files |->
                        {e \in edges : e \in EdgesSaid(files, f) \/ e \in PackageEdges(files, f, UpTo(order, f))}]
  <1>1. ASSUME NEW f \in DOMAIN files PROVE IsFiniteSet(of[f])
    <2>1. IsFiniteSet(ContainsEdges(files, f))
      <3> DEFINE chain == Chain(f)
                 path == {Edge(chain[i], chain[i + 1], "CONTAINS", f, 1, "resolved") : i \in 1..(Len(chain) - 1)}
                 ofEndpoints == {Edge(FileId(f), EndpointId(f, d), "DEFINES", f, d.line, "resolved") :
                                    d \in files[f].endpoints}
                 ofSymbols == {Edge(OwnerId(files, f, s.owner), SymbolId(f, s), "DEFINES", f, s.start, "resolved") :
                                    s \in files[f].symbols}
      <3>1. ContainsEdges(files, f) = path \union ofEndpoints \union ofSymbols
        BY DEF ContainsEdges, Chain
      <3>2. IsFiniteSet(path)
        <4> DEFINE S == 1..(Len(chain) - 1)
                   edge == [i \in S |-> Edge(chain[i], chain[i + 1], "CONTAINS", f, 1, "resolved")]
        <4>1. IsFiniteSet(S)
          <5>1. Len(chain) \in Nat  BY ChainFirm, LenProperties
          <5> HIDE DEF chain
          <5> QED  BY <5>1, FS_Interval
        <4>2. S \subseteq DOMAIN edge /\ \A x \in path : \E i \in S : x = edge[i]  OBVIOUS
        <4> HIDE DEF path, S, edge
        <4> QED  BY <4>1, <4>2, FiniteBy
      <3>3. IsFiniteSet(ofEndpoints)
        <4> DEFINE edge == [d \in files[f].endpoints |->
                                Edge(FileId(f), EndpointId(f, d), "DEFINES", f, d.line, "resolved")]
        <4>1. files[f].endpoints \subseteq DOMAIN edge /\ \A x \in ofEndpoints : \E d \in files[f].endpoints : x = edge[d]
          OBVIOUS
        <4> HIDE DEF ofEndpoints, edge
        <4> QED  BY <4>1, PartsFinite, FiniteBy
      <3>4. IsFiniteSet(ofSymbols)
        <4> DEFINE edge == [s \in files[f].symbols |->
                                Edge(OwnerId(files, f, s.owner), SymbolId(f, s), "DEFINES", f, s.start, "resolved")]
        <4>1. files[f].symbols \subseteq DOMAIN edge /\ \A x \in ofSymbols : \E s \in files[f].symbols : x = edge[s]
          OBVIOUS
        <4> HIDE DEF ofSymbols, edge
        <4> QED  BY <4>1, PartsFinite, FiniteBy
      <3> HIDE DEF path, ofEndpoints, ofSymbols
      <3> QED  BY <3>1, <3>2, <3>3, <3>4, FS_Union
    <2>2. IsFiniteSet(ImportEdges(files, f))
      <3> DEFINE imports == files[f].imports
                 module(alias) == FileId(ImportPath(files, f, imports[alias]))
                 meaning(alias) == Meaning(files, f, <<alias>>, <<>>)
                 ofModule == [alias \in DOMAIN imports |->
                                Edge(FileId(f), module(alias), "IMPORTS", f, imports[alias].line, "resolved")]
                 ofMeaning == [alias \in DOMAIN imports |->
                                Edge(FileId(f), meaning(alias), "REFERENCES", f, imports[alias].line, "resolved")]
                 ofPackage == [i \in Outside(files, f) |->
                                IF IsLocal(i.module)
                                THEN Edge(FileId(f), PackageId(i.module), "IMPORTS", f, i.line, "unresolved")
                                ELSE Edge(FileId(f), PackageId(i.module), "USES_PACKAGE", f, i.line, "resolved")]
                 modules == {ofModule[alias] : alias \in DOMAIN imports}
                 meanings == {ofMeaning[alias] : alias \in DOMAIN imports}
                 packages == {ofPackage[i] : i \in Outside(files, f)}
      <3>1. ImportEdges(files, f) \subseteq modules \union meanings \union packages
        BY DEF ImportEdges
      <3>2. /\ DOMAIN imports \subseteq DOMAIN ofModule /\ DOMAIN imports \subseteq DOMAIN ofMeaning
            /\ Outside(files, f) \subseteq DOMAIN ofPackage  OBVIOUS
      <3>3. IsFiniteSet(DOMAIN imports) /\ IsFiniteSet(Outside(files, f))  BY PartsFinite
      <3> HIDE DEF imports, ofModule, ofMeaning, ofPackage
      <3>4. IsFiniteSet(modules) /\ IsFiniteSet(meanings) /\ IsFiniteSet(packages)
        BY <3>2, <3>3, FiniteImage
      <3> HIDE DEF modules, meanings, packages
      <3>5. IsFiniteSet(modules \union meanings \union packages)  BY <3>4, FS_Union
      <3> QED  BY <3>1, <3>5, FS_Subset
    <2>3. IsFiniteSet(ReferenceEdges(files, f))
      <3> DEFINE edge == [r \in files[f].references |->
                            Edge(OwnerId(files, f, r.owner), ReferenceTarget(files, f, r), r.kind, f, r.line,
                                 IF r \in Unresolved(files, f) THEN "unresolved" ELSE "resolved")]
      <3>1. /\ files[f].references \subseteq DOMAIN edge
            /\ \A x \in ReferenceEdges(files, f) : \E r \in files[f].references : x = edge[r]
        BY DEF ReferenceEdges
      <3> HIDE DEF edge
      <3> QED  BY <3>1, PartsFinite, FiniteBy
    <2>4. IsFiniteSet(PackageEdges(files, f, UpTo(order, f)))
      <3> DEFINE edge == [r \in files[f].references |->
                            Edge(OwnerId(files, f, r.owner), PackageId(files[f].imports[Head(r.target)].module),
                                 "USES_PACKAGE", f, r.line, "resolved")]
      <3>1. files[f].references \subseteq DOMAIN edge  OBVIOUS
      <3>2. ASSUME NEW x \in PackageEdges(files, f, UpTo(order, f)) PROVE \E r \in files[f].references : x = edge[r]
        <4>1. PICK r : EdgeOfCall(files, f, r, x)  BY EdgesOfPackages
        <4> QED  BY <4>1 DEF EdgeOfCall
      <3> HIDE DEF edge
      <3> QED  BY <3>1, <3>2, PartsFinite, FiniteBy
    <2>5. IsFiniteSet(HandlerEdges(files, f))
      <3> DEFINE meaning(d) == Meaning(files, f, d.handler, <<>>)
                 edge == [d \in files[f].endpoints |->
                            IF meaning(d) = None
                            THEN Edge(EndpointId(f, d), HandlerId(f, d.handler), "HANDLES", f, d.line, "unresolved")
                            ELSE Edge(EndpointId(f, d), meaning(d), "HANDLES", f, d.line, "resolved")]
      <3>1. /\ files[f].endpoints \subseteq DOMAIN edge
            /\ \A x \in HandlerEdges(files, f) : \E d \in files[f].endpoints : x = edge[d]
        BY DEF HandlerEdges
      <3> HIDE DEF edge
      <3> QED  BY <3>1, PartsFinite, FiniteBy
    <2>6. IsFiniteSet(EntityEdges(files, f))
      <3> DEFINE edge == [s \in Models(files, f) |->
                            Edge(SymbolId(f, s), EntityId(SymbolId(f, s)), "BELONGS_TO", f, s.start, "resolved")]
      <3>1. /\ Models(files, f) \subseteq DOMAIN edge
            /\ \A x \in EntityEdges(files, f) : \E s \in Models(files, f) : x = edge[s]
        BY DEF EntityEdges
      <3> HIDE DEF edge
      <3> QED  BY <3>1, PartsFinite, FiniteBy
    <2>7. IsFiniteSet(OperationEdges(files, f, KnownModels(files, <<>>, f)))
      <3> DEFINE models == KnownModels(files, <<>>, f)
                 pairs == files[f].references \X models
                 type(r) == IF Last(r.target) \in Writes THEN "WRITES_TO" ELSE "READS_FROM"
                 edge == [p \in pairs |-> Edge(OwnerId(files, f, p[1].owner), EntityId(p[2]), type(p[1]), f, p[1].line,
                                               "probable")]
      <3>1. IsFiniteSet(pairs) /\ pairs \subseteq DOMAIN edge
        BY PartsFinite, ModelsFinite, FS_Product
      <3>2. ASSUME NEW x \in OperationEdges(files, f, models) PROVE \E p \in pairs : x = edge[p]
        <4>1. PICK r \in OperationsOf(files, f) : \E id \in models : EdgeOfOperation(files, f, r, id, x)
          BY EdgesOfOperations
        <4>2. PICK id \in models : EdgeOfOperation(files, f, r, id, x)  BY <4>1
        <4>3. <<r, id>> \in pairs /\ <<r, id>>[1] = r /\ <<r, id>>[2] = id  BY DEF OperationsOf
        <4>4. edge[<<r, id>>] = x  BY <4>2, <4>3 DEF EdgeOfOperation
        <4> QED  BY <4>3, <4>4
      <3> HIDE DEF edge, pairs
      <3> QED  BY <3>1, <3>2, FiniteBy
    <2> DEFINE a == ContainsEdges(files, f)
               b == ImportEdges(files, f)
               c == ReferenceEdges(files, f)
               d == PackageEdges(files, f, UpTo(order, f))
               p == HandlerEdges(files, f)
               q == EntityEdges(files, f)
               r == OperationEdges(files, f, KnownModels(files, <<>>, f))
               all == (a \union b \union c \union d) \union (p \union q \union r)
    <2>8. \A e \in of[f] : e \in all  BY DEF EdgesSaid
    <2> HIDE DEF a, b, c, d, p, q, r
    <2>9. IsFiniteSet(a \union b \union c \union d)
      BY <2>1, <2>2, <2>3, <2>4, FiniteUnions DEF a, b, c, d
    <2>10. IsFiniteSet(p \union q \union r)  BY <2>5, <2>6, <2>7, FS_Union DEF p, q, r
    <2>11. IsFiniteSet(all)  BY <2>9, <2>10, FS_Union
    <2> HIDE DEF all
    <2>12. of[f] \subseteq all  BY <2>8
    <2> QED  BY <2>11, <2>12, FS_Subset
  <1>2. IsFiniteSet(All(of, DOMAIN files))
    <2> HIDE DEF of
    <2> QED  BY <1>1, FiniteUnion DEF Repository
  <1>3. \A e \in edges : \E f \in DOMAIN files : e \in of[f]  BY GraphEdges
  <1>4. edges \subseteq All(of, DOMAIN files)
    <2> HIDE DEF of, edges
    <2> QED  BY <1>3, InUnion
  <1> QED  BY <1>2, <1>4, FS_Subset

-----------------------------------------------------------------------------
(* A graph as the pipeline builds them: finite, each id once, no edge      *)
(* without its ends.                                                       *)
Graph(g) ==
    /\ g = [nodes |-> g.nodes, edges |-> g.edges]
    /\ IsFiniteSet(g.nodes) /\ IsFiniteSet(g.edges)
    /\ \A m, n \in g.nodes : m.id = n.id => m = n
    /\ \A d, e \in g.edges : EdgeId(d) = EdgeId(e) => d = e

LEMMA VersionGraph ==
    ASSUME NEW v, Indexed(v)
    PROVE  Graph(v.graph) /\ \A e \in v.graph.edges : Linked(v.graph, e)
  <1> DEFINE files == Analyzed(v)
             order == ScanFiles(v.sources)
  <1>1. Repository(files) /\ DOMAIN files = ToSet(order) /\ v.graph = ResolveGraph(files, order)
    BY VersionBuilt
  <1> HIDE DEF files, order
  <1>2. \A e \in v.graph.edges : Linked(v.graph, e)  BY <1>1, EdgesLinked
  <1>3. \A d, e \in v.graph.edges : EdgeId(d) = EdgeId(e) => d = e  BY <1>2, SameEdge
  <1>4. \A m, n \in v.graph.nodes : m.id = n.id => m = n  BY <1>1, SameNode
  <1>5. v.graph = [nodes |-> v.graph.nodes, edges |-> v.graph.edges]  BY <1>1 DEF ResolveGraph
  <1>6. IsFiniteSet(v.graph.nodes) /\ IsFiniteSet(v.graph.edges)  BY <1>1, NodesFinite, EdgesFinite
  <1> QED  BY <1>2, <1>3, <1>4, <1>5, <1>6 DEF Graph

LEMMA CountIds ==
    ASSUME NEW g, Graph(g)
    PROVE  /\ IsFiniteSet(Ids(g)) /\ Cardinality(g.nodes) = Cardinality(Ids(g))
           /\ IsFiniteSet(EdgeIds(g)) /\ Cardinality(g.edges) = Cardinality(EdgeIds(g))
  <1>1. [n \in g.nodes |-> n.id] \in Surjection(g.nodes, Ids(g)) /\ [n \in g.nodes |-> n.id] \in Injection(g.nodes, Ids(g))
    BY DEF Surjection, Injection, IsInjective, Ids, Graph
  <1>2. [e \in g.edges |-> EdgeId(e)] \in Surjection(g.edges, EdgeIds(g)) /\ [e \in g.edges |-> EdgeId(e)] \in Injection(g.edges, EdgeIds(g))
    BY DEF Surjection, Injection, IsInjective, EdgeIds, Graph
  <1> QED  BY <1>1, <1>2, FS_Surjection DEF Graph

-----------------------------------------------------------------------------
(* Nothing of the code is lost or made up on the way to the graph: each    *)
(* edge has both its ends; each reference, import and endpoint of a file   *)
(* has its edge, to what it means or to an unresolved node, and an edge is *)
(* unresolved if and only if it is to such a node; ids are unique          *)
(* (resolve_graph).                                                        *)
Kept(edges, owner, types, f, line) ==
    \E e \in edges : e.source = owner /\ e.type \in types /\ e.file = f /\ e.line = line

LEMMA CodeKept ==
    ASSUME NEW files, Repository(files), NEW order, NEW f \in DOMAIN files
    PROVE  LET edges == ResolveGraph(files, order).edges
           IN  /\ \A r \in files[f].references : Kept(edges, OwnerId(files, f, r.owner), {r.kind}, f, r.line)
               /\ \A alias \in DOMAIN files[f].imports :
                    Kept(edges, FileId(f), {"IMPORTS", "USES_PACKAGE"}, f, files[f].imports[alias].line)
               /\ \A e \in files[f].endpoints : Kept(edges, EndpointId(f, e), {"HANDLES"}, f, e.line)
  <1> DEFINE edges == ResolveGraph(files, order).edges
  <1>1. \A e \in EdgesSaid(files, f) : e \in edges  BY GraphEdges
  <1> HIDE DEF edges
  <1>2. ASSUME NEW r \in files[f].references PROVE Kept(edges, OwnerId(files, f, r.owner), {r.kind}, f, r.line)
    <2> DEFINE e == Edge(OwnerId(files, f, r.owner), ReferenceTarget(files, f, r), r.kind, f, r.line,
                         IF r \in Unresolved(files, f) THEN "unresolved" ELSE "resolved")
    <2>1. e \in ReferenceEdges(files, f)  BY DEF ReferenceEdges
    <2>2. e \in edges  BY <1>1, <2>1 DEF EdgesSaid
    <2>3. e.source = OwnerId(files, f, r.owner) /\ e.type = r.kind /\ e.file = f /\ e.line = r.line
      BY EdgeFields
    <2> HIDE DEF e
    <2> QED  BY <2>2, <2>3 DEF Kept
  <1>3. ASSUME NEW alias \in DOMAIN files[f].imports
        PROVE  Kept(edges, FileId(f), {"IMPORTS", "USES_PACKAGE"}, f, files[f].imports[alias].line)
    <2> DEFINE i == files[f].imports[alias]
               module == FileId(ImportPath(files, f, i))
    <2>1. CASE ImportPath(files, f, i) = None
      <3> DEFINE e == IF IsLocal(i.module)
                      THEN Edge(FileId(f), PackageId(i.module), "IMPORTS", f, i.line, "unresolved")
                      ELSE Edge(FileId(f), PackageId(i.module), "USES_PACKAGE", f, i.line, "resolved")
      <3>1. i \in Outside(files, f)  BY <2>1 DEF Outside
      <3>2. e \in ImportEdges(files, f)  BY <3>1 DEF ImportEdges
      <3>3. e \in edges  BY <1>1, <3>2 DEF EdgesSaid
      <3>4. e.source = FileId(f) /\ e.type \in {"IMPORTS", "USES_PACKAGE"} /\ e.file = f /\ e.line = i.line
        BY EdgeFields
      <3> HIDE DEF e, i
      <3> QED  BY <3>3, <3>4 DEF Kept, i
    <2>2. CASE ImportPath(files, f, i) # None
      <3> DEFINE e == Edge(FileId(f), module, "IMPORTS", f, i.line, "resolved")
      <3>1. e \in ImportEdges(files, f)  BY <2>2 DEF ImportEdges
      <3>2. e \in edges  BY <1>1, <3>1 DEF EdgesSaid
      <3>3. e.source = FileId(f) /\ e.type \in {"IMPORTS", "USES_PACKAGE"} /\ e.file = f /\ e.line = i.line
        BY EdgeFields
      <3> HIDE DEF e, i
      <3> QED  BY <3>2, <3>3 DEF Kept, i
    <2> QED  BY <2>1, <2>2
  <1>4. ASSUME NEW d \in files[f].endpoints PROVE Kept(edges, EndpointId(f, d), {"HANDLES"}, f, d.line)
    <2> DEFINE meaning == Meaning(files, f, d.handler, <<>>)
               e == IF meaning = None
                    THEN Edge(EndpointId(f, d), HandlerId(f, d.handler), "HANDLES", f, d.line, "unresolved")
                    ELSE Edge(EndpointId(f, d), meaning, "HANDLES", f, d.line, "resolved")
    <2>1. e \in HandlerEdges(files, f)  BY DEF HandlerEdges
    <2>2. e \in edges  BY <1>1, <2>1 DEF EdgesSaid
    <2>3. e.source = EndpointId(f, d) /\ e.type = "HANDLES" /\ e.file = f /\ e.line = d.line
      BY EdgeFields
    <2> HIDE DEF e
    <2> QED  BY <2>2, <2>3 DEF Kept
  <1> QED  BY <1>2, <1>3, <1>4 DEF edges

THEOREM ReferencesKeptHolds == Spec => []ReferencesKept
  <1>1. ASSUME Versions PROVE ReferencesKept
    <2> DEFINE g == head.graph
               files == Analyzed(head)
               order == ScanFiles(head.sources)
    <2>1. /\ Repository(files) /\ g = ResolveGraph(files, order)
          /\ Graph(g) /\ \A e \in g.edges : Linked(g, e)
      BY <1>1, VersionBuilt, VersionGraph DEF Versions
    <2> HIDE DEF g, files, order
    <2>2. \A e \in g.edges : {e.source, e.target} \subseteq Ids(g)  BY <2>1 DEF Linked, Firm
    <2>3. Cardinality(g.nodes) = Cardinality(Ids(g)) /\ Cardinality(g.edges) = Cardinality(EdgeIds(g))
      BY <2>1, CountIds
    <2>4. ASSUME NEW e \in g.edges
          PROVE  e.resolution = "unresolved" <=> TypeOf(g, e.target) \in {"UnresolvedSymbol", "Module"}
      <3>1. TypeOf(g, e.target) \in {"UnresolvedSymbol", "Module"} <=> Missing(e.target)
        BY <2>1, TypeTells DEF Linked
      <3>2. e.resolution = "unresolved" <=> Missing(e.target)  BY <2>1 DEF Linked, Resolution
      <3> QED  BY <3>1, <3>2
    <2>5. ASSUME NEW f \in DOMAIN files
          PROVE  /\ \A r \in files[f].references : Kept(g.edges, OwnerId(files, f, r.owner), {r.kind}, f, r.line)
                 /\ \A alias \in DOMAIN files[f].imports :
                        Kept(g.edges, FileId(f), {"IMPORTS", "USES_PACKAGE"}, f, files[f].imports[alias].line)
                 /\ \A e \in files[f].endpoints : Kept(g.edges, EndpointId(f, e), {"HANDLES"}, f, e.line)
      BY <2>1, CodeKept
    <2> QED  BY <2>2, <2>3, <2>4, <2>5 DEF ReferencesKept, Kept, g, files
  <1> QED  BY <1>1, VersionsHold, PTL

-----------------------------------------------------------------------------
(* The scores of comparisons and impacts: the terms.                       *)

LEMMA ScoreBounded ==
    ASSUME NEW symbols \in Nat, NEW relationships \in Nat, NEW files \in Nat, NEW endpoints \in Nat,
           NEW entities \in Nat, NEW removed \in Nat
    PROVE  Score(symbols, relationships, files, endpoints, entities, removed) \in 0..100
  BY DEF Score, AtMost

LEMMA Empty ==
    ASSUME NEW S, IsFiniteSet(S)
    PROVE  Cardinality(S) \in Nat /\ (Cardinality(S) = 0 <=> S = {})
  BY FS_CardinalityType, FS_EmptySet

-----------------------------------------------------------------------------
(* Elements that have ids: what changed, by id, and what is the same.      *)

LEMMA NodeOfId ==
    ASSUME NEW g, Graph(g), NEW n \in g.nodes
    PROVE  NodeOf(g, n.id) = n
  BY DEF Graph, NodeOf

LEMMA EdgeOfId ==
    ASSUME NEW g, Graph(g), NEW e \in g.edges
    PROVE  EdgeOf(g, EdgeId(e)) = e
  BY DEF Graph, EdgeOf

(* Without a change of nodes the graphs have the same ones.                *)
LEMMA NodesSame ==
    ASSUME NEW before, NEW after, Graph(before), Graph(after)
    PROVE  LET c == NodeChanges(before, after)
           IN  (c.added = {} /\ c.removed = {} /\ c.modified = {}) <=> before.nodes = after.nodes
  <1> DEFINE a == Ids(before)
             b == Ids(after)
  <1>1. /\ NodeChanges(before, after).added = b \ a
        /\ NodeChanges(before, after).removed = a \ b
        /\ NodeChanges(before, after).modified = {id \in a \intersect b : NodeOf(before, id) # NodeOf(after, id)}
    BY DEF NodeChanges, Changes
  <1>2. ASSUME before.nodes = after.nodes
        PROVE  a = b /\ \A id \in a : NodeOf(before, id) = NodeOf(after, id)
    BY <1>2 DEF Ids, NodeOf
  <1>3. ASSUME a = b, \A id \in a : NodeOf(before, id) = NodeOf(after, id)
        PROVE  before.nodes = after.nodes
    <2>1. ASSUME NEW g, NEW h, Graph(g), Graph(h), Ids(g) = Ids(h),
                 \A id \in Ids(g) : NodeOf(g, id) = NodeOf(h, id), NEW n \in g.nodes
          PROVE  n \in h.nodes
      <3>1. n.id \in Ids(h)  BY <2>1 DEF Ids
      <3>2. PICK m \in h.nodes : m.id = n.id  BY <3>1 DEF Ids
      <3>3. NodeOf(h, n.id) = m /\ NodeOf(g, n.id) = n /\ n.id \in Ids(g)
        BY <2>1, <3>2, NodeOfId DEF Ids
      <3>4. n = m  BY <2>1, <3>3
      <3> QED  BY <3>4
    <2>2. before.nodes \subseteq after.nodes  BY <1>3, <2>1
    <2>3. after.nodes \subseteq before.nodes  BY <1>3, <2>1
    <2> QED  BY <2>2, <2>3
  <1> QED  BY <1>1, <1>2, <1>3

LEMMA EdgesSame ==
    ASSUME NEW before, NEW after, Graph(before), Graph(after)
    PROVE  LET c == EdgeChanges(before, after)
           IN  (c.added = {} /\ c.removed = {} /\ c.modified = {}) <=> before.edges = after.edges
  <1> DEFINE a == EdgeIds(before)
             b == EdgeIds(after)
  <1>1. /\ EdgeChanges(before, after).added = b \ a
        /\ EdgeChanges(before, after).removed = a \ b
        /\ EdgeChanges(before, after).modified = {id \in a \intersect b : EdgeOf(before, id) # EdgeOf(after, id)}
    BY DEF EdgeChanges, Changes
  <1>2. ASSUME before.edges = after.edges
        PROVE  a = b /\ \A id \in a : EdgeOf(before, id) = EdgeOf(after, id)
    BY <1>2 DEF EdgeIds, EdgeOf
  <1>3. ASSUME a = b, \A id \in a : EdgeOf(before, id) = EdgeOf(after, id)
        PROVE  before.edges = after.edges
    <2>1. ASSUME NEW g, NEW h, Graph(g), Graph(h), EdgeIds(g) = EdgeIds(h),
                 \A id \in EdgeIds(g) : EdgeOf(g, id) = EdgeOf(h, id), NEW e \in g.edges
          PROVE  e \in h.edges
      <3>1. EdgeId(e) \in EdgeIds(g) /\ EdgeId(e) \in EdgeIds(h)  BY <2>1 DEF EdgeIds
      <3>2. PICK d \in h.edges : EdgeId(d) = EdgeId(e)  BY <3>1 DEF EdgeIds
      <3>3. EdgeOf(h, EdgeId(e)) = d /\ EdgeOf(g, EdgeId(e)) = e  BY <2>1, <3>2, EdgeOfId
      <3>4. e = d  BY <2>1, <3>1, <3>3
      <3> QED  BY <3>4
    <2>2. before.edges \subseteq after.edges  BY <1>3, <2>1
    <2>3. after.edges \subseteq before.edges  BY <1>3, <2>1
    <2> QED  BY <2>2, <2>3
  <1> QED  BY <1>1, <1>2, <1>3

(* The count of what changed.                                              *)
LEMMA CountNothing ==
    ASSUME NEW a, NEW b, IsFiniteSet(a), IsFiniteSet(b), NEW c,
           c.added = b \ a, c.removed = a \ b, c.modified \subseteq a \intersect b
    PROVE  /\ Count(c) \in Nat /\ Cardinality(c.removed) \in Nat
           /\ Count(c) = 0 <=> c.added = {} /\ c.removed = {} /\ c.modified = {}
  <1>1. IsFiniteSet(c.added) /\ IsFiniteSet(c.removed)  BY FS_Difference
  <1>2. IsFiniteSet(c.modified)  BY FS_Subset
  <1>3. /\ Cardinality(c.added) \in Nat /\ (Cardinality(c.added) = 0 <=> c.added = {})
        /\ Cardinality(c.removed) \in Nat /\ (Cardinality(c.removed) = 0 <=> c.removed = {})
        /\ Cardinality(c.modified) \in Nat /\ (Cardinality(c.modified) = 0 <=> c.modified = {})
    BY <1>1, <1>2, Empty
  <1>4. Count(c) = Cardinality(c.added) + Cardinality(c.removed) + Cardinality(c.modified)
    BY DEF Count
  <1>5. \A x, y, z \in Nat : x + y + z \in Nat /\ (x + y + z = 0 <=> x = 0 /\ y = 0 /\ z = 0)
    OBVIOUS
  <1>6. /\ Count(c) \in Nat
        /\ Count(c) = 0 <=> /\ Cardinality(c.added) = 0 /\ Cardinality(c.removed) = 0
                            /\ Cardinality(c.modified) = 0  BY <1>3, <1>4, <1>5
  <1> QED  BY <1>3, <1>6

-----------------------------------------------------------------------------
(* The score of a comparison is between 0 and 100, and 0 if and only if    *)
(* nothing changed: no change is missed, and none is made up, by the terms *)
(* of the sum and their caps (compare_graphs).                             *)
THEOREM ComparisonScore ==
    ASSUME NEW before, NEW after, Graph(before), Graph(after)
    PROVE  LET diff == CompareGraphs(before, after)
           IN  diff.score \in 0..100 /\ (diff.score = 0 <=> before = after) /\ diff.risk = DiffRisk(diff.score)
  <1> DEFINE nodes == NodeChanges(before, after)
             edges == EdgeChanges(before, after)
             changedNodes == {NodeOf(after, id) : id \in nodes.added \union nodes.modified}
                                \union {NodeOf(before, id) : id \in nodes.removed}
             changedEdges == {EdgeOf(after, id) : id \in edges.added \union edges.modified}
                                \union {EdgeOf(before, id) : id \in edges.removed}
             files == ({n.file : n \in changedNodes} \union {e.file : e \in changedEdges}) \ {None}
             ofType(type) == {NameOf(n) : n \in {c \in changedNodes : c.type = type}}
             score == Score(Count(nodes), Count(edges), Cardinality(files),
                            Cardinality(ofType("Endpoint")), Cardinality(ofType("DatabaseEntity")),
                            Cardinality(nodes.removed))
  <1>1. /\ nodes.added = Ids(after) \ Ids(before) /\ nodes.removed = Ids(before) \ Ids(after)
        /\ nodes.modified \subseteq Ids(before) \intersect Ids(after)
        /\ edges.added = EdgeIds(after) \ EdgeIds(before) /\ edges.removed = EdgeIds(before) \ EdgeIds(after)
        /\ edges.modified \subseteq EdgeIds(before) \intersect EdgeIds(after)
    BY DEF NodeChanges, EdgeChanges, Changes
  <1>2. /\ Count(nodes) \in Nat /\ (Count(nodes) = 0 <=> before.nodes = after.nodes)
        /\ Cardinality(nodes.removed) \in Nat
        /\ Count(edges) \in Nat /\ (Count(edges) = 0 <=> before.edges = after.edges)
    <2>1. /\ Count(nodes) \in Nat /\ Cardinality(nodes.removed) \in Nat
          /\ Count(nodes) = 0 <=> nodes.added = {} /\ nodes.removed = {} /\ nodes.modified = {}
      BY <1>1, CountIds, CountNothing
    <2>2. /\ Count(edges) \in Nat
          /\ Count(edges) = 0 <=> edges.added = {} /\ edges.removed = {} /\ edges.modified = {}
      BY <1>1, CountIds, CountNothing
    <2> QED  BY <2>1, <2>2, NodesSame, EdgesSame
  <1>3. IsFiniteSet(changedNodes) /\ IsFiniteSet(changedEdges)
    <2>1. \A id \in nodes.added \union nodes.modified : NodeOf(after, id) \in after.nodes
      BY <1>1 DEF Ids, NodeOf
    <2>2. \A id \in nodes.removed : NodeOf(before, id) \in before.nodes  BY <1>1 DEF Ids, NodeOf
    <2>3. \A id \in edges.added \union edges.modified : EdgeOf(after, id) \in after.edges
      BY <1>1 DEF EdgeIds, EdgeOf
    <2>4. \A id \in edges.removed : EdgeOf(before, id) \in before.edges  BY <1>1 DEF EdgeIds, EdgeOf
    <2>5. changedNodes \subseteq after.nodes \union before.nodes  BY <2>1, <2>2
    <2>6. changedEdges \subseteq after.edges \union before.edges  BY <2>3, <2>4
    <2>7. IsFiniteSet(after.nodes \union before.nodes) /\ IsFiniteSet(after.edges \union before.edges)
      BY FS_Union DEF Graph
    <2> QED  BY <2>5, <2>6, <2>7, FS_Subset
  <1>4. IsFiniteSet(files)
    <2> HIDE DEF changedNodes, changedEdges
    <2>1. [n \in changedNodes |-> n.file] \in Surjection(changedNodes, {n.file : n \in changedNodes})
      BY DEF Surjection
    <2>2. [e \in changedEdges |-> e.file] \in Surjection(changedEdges, {e.file : e \in changedEdges})
      BY DEF Surjection
    <2>3. IsFiniteSet({n.file : n \in changedNodes}) /\ IsFiniteSet({e.file : e \in changedEdges})
      BY <1>3, <2>1, <2>2, FS_Surjection
    <2> QED  BY <2>3, FS_Union, FS_Difference
  <1>5. ASSUME NEW type PROVE IsFiniteSet(ofType(type))
    <2> DEFINE typed == {c \in changedNodes : c.type = type}
    <2>1. IsFiniteSet(typed)  BY <1>3, FS_Subset
    <2> HIDE DEF typed
    <2>2. [n \in typed |-> NameOf(n)] \in Surjection(typed, {NameOf(n) : n \in typed})
      BY DEF Surjection
    <2>3. IsFiniteSet({NameOf(n) : n \in typed})  BY <2>1, <2>2, FS_Surjection
    <2> QED  BY <2>3 DEF typed
  <1>6. /\ Cardinality(files) \in Nat
        /\ Cardinality(ofType("Endpoint")) \in Nat /\ Cardinality(ofType("DatabaseEntity")) \in Nat
    <2> HIDE DEF files, ofType
    <2> QED  BY <1>4, <1>5, FS_CardinalityType
  <1>7. ASSUME before = after
        PROVE  /\ Cardinality(files) = 0 /\ Cardinality(nodes.removed) = 0
               /\ Cardinality(ofType("Endpoint")) = 0 /\ Cardinality(ofType("DatabaseEntity")) = 0
    <2>1. /\ nodes.added = {} /\ nodes.removed = {} /\ nodes.modified = {}
          /\ edges.added = {} /\ edges.removed = {} /\ edges.modified = {}
      BY <1>7, NodesSame, EdgesSame
    <2>2. changedNodes = {} /\ changedEdges = {}  BY <2>1
    <2> HIDE DEF changedNodes, changedEdges
    <2>3. files = {} /\ ofType("Endpoint") = {} /\ ofType("DatabaseEntity") = {}  BY <2>2
    <2> QED  BY <2>1, <2>3, FS_EmptySet
  <1>8. before = after <=> before.nodes = after.nodes /\ before.edges = after.edges  BY DEF Graph
  <1>9. score \in 0..100 /\ (score = 0 <=> before = after)
    <2> HIDE DEF nodes, edges, files, ofType
    <2>1. /\ score \in 0..100
          /\ score = 0 <=> /\ Count(nodes) = 0 /\ Count(edges) = 0 /\ Cardinality(files) = 0
                            /\ Cardinality(ofType("Endpoint")) = 0
                            /\ Cardinality(ofType("DatabaseEntity")) = 0
                            /\ Cardinality(nodes.removed) = 0
      <3>1. PICK s, r, f, e, d, m \in Nat :
                /\ s = Count(nodes) /\ r = Count(edges) /\ f = Cardinality(files)
                /\ e = Cardinality(ofType("Endpoint")) /\ d = Cardinality(ofType("DatabaseEntity"))
                /\ m = Cardinality(nodes.removed)  BY <1>2, <1>6
      <3>2. score = Score(s, r, f, e, d, m)  BY <3>1
      <3> HIDE DEF score
      <3>3. s \in Nat /\ r \in Nat /\ f \in Nat /\ e \in Nat /\ d \in Nat /\ m \in Nat  BY <3>1
      <3>4. Score(s, r, f, e, d, m) \in 0..100  BY <3>3, ScoreBounded
      <3>5. Score(s, r, f, e, d, m) = 0 <=> s = 0 /\ r = 0 /\ f = 0 /\ e = 0 /\ d = 0 /\ m = 0
        BY <3>3 DEF Score, AtMost
      <3> QED  BY <3>1, <3>2, <3>4, <3>5
    <2> HIDE DEF score
    <2>2. CASE before = after  BY <1>2, <1>7, <2>1, <2>2
    <2>3. CASE before # after  BY <1>2, <1>8, <2>1, <2>3
    <2> QED  BY <2>2, <2>3
  <1>10. CompareGraphs(before, after).score = score /\ CompareGraphs(before, after).risk = DiffRisk(score)
    BY DEF CompareGraphs
  <1> QED  BY <1>9, <1>10

(* The score of an impact is between 0 and 100, and is 0 if and only if    *)
(* there is nothing to report: no dependents, in no more than one module,  *)
(* no depth, and nothing written by what is affected (impact).             *)
THEOREM ImpactScore ==
    ASSUME NEW direct \in Nat, NEW transitive \in Nat, NEW endpoints \in Nat, NEW modules \in Nat,
           NEW writes \in Nat, NEW depth \in Nat
    PROVE  LET score == Total(Features(direct, transitive, endpoints, modules, writes, depth))
           IN  /\ score \in 0..100
               /\ score = 0 <=> direct = 0 /\ transitive = 0 /\ endpoints = 0 /\ modules \in {0, 1}
                                    /\ writes = 0 /\ depth = 0
  BY DEF Total, Features, AtMost

-----------------------------------------------------------------------------
(* What is found from a node, hop by hop.                                  *)

Widening(w, net, id, hops) ==
    /\ DOMAIN w = 0..hops
    /\ w[0] = {id}
    /\ \A k \in 1..hops : w[k] = w[k - 1] \union Successors(net, w[k - 1])

LEMMA WithinSteps ==
    ASSUME NEW net, NEW id, NEW hops \in Nat
    PROVE  Widening(Within(net, id, hops), net, id, hops)
  <1> DEFINE S == SUBSET ({id} \union {e[2] : e \in net})
             Step(ids) == ids \union Successors(net, ids)
             step == [p \in (1..hops) \X S |-> Step(p[2])]
             a == {id}
             Rec(f) == f = [k \in 0..hops |-> IF k = 0 THEN {id} ELSE Step(f[k - 1])]
             w == CHOOSE f : Rec(f)
  <1>1. \A ids \in S : Step(ids) \in S  BY DEF Successors
  <1>2. a \in S  OBVIOUS
  <1> HIDE DEF S
  <1>3. step \in [(1..hops) \X S -> S]
    <2> HIDE DEF Step
    <2> QED  BY <1>1
  <1>4. PICK f : Recursive(f, S, a, hops, step)
    <2> HIDE DEF step, a
    <2> QED  BY <1>2, <1>3, Recursion
  <1>5. Rec(f)
    <2>1. \A k \in 0..hops : k # 0 => f[k - 1] \in S /\ k \in 1..hops  BY <1>4 DEF Recursive
    <2> HIDE DEF Step
    <2>2. \A k \in 0..hops : k # 0 => step[<<k, f[k - 1]>>] = Step(f[k - 1])  BY <2>1
    <2>3. \A k \in 0..hops : f[k] = IF k = 0 THEN {id} ELSE Step(f[k - 1])
      BY <1>4, <2>2 DEF Recursive
    <2> QED  BY <1>4, <2>3 DEF Recursive
  <1>6. Rec(w)
    <2> HIDE DEF Rec
    <2> QED  BY <1>5
  <1>7. Within(net, id, hops) = [k \in 0..hops |-> w[k]]  BY DEF Within
  <1>8. w[0] = {id} /\ \A k \in 1..hops : w[k] = Step(w[k - 1])
    <2> HIDE DEF w, Step
    <2>1. 0 \in 0..hops /\ \A k \in 1..hops : k \in 0..hops /\ k # 0  OBVIOUS
    <2>2. w[0] = {id}  BY <1>6, <2>1
    <2>3. \A k \in 1..hops : w[k] = Step(w[k - 1])  BY <1>6, <2>1
    <2> QED  BY <2>2, <2>3
  <1> HIDE DEF w
  <1>9. DOMAIN Within(net, id, hops) = 0..hops /\ \A k \in 0..hops : Within(net, id, hops)[k] = w[k]
    BY <1>7
  <1>10. \A k \in 1..hops : k \in 0..hops /\ k - 1 \in 0..hops  OBVIOUS
  <1> QED  BY <1>8, <1>9, <1>10 DEF Widening

(* There is a path of at most so many hops.                                *)
Near(net, k, a, b) == b \in Within(net, a, k)[k]

Pairs(net) == \A e \in net : e = <<e[1], e[2]>>

LEMMA InWithin ==
    ASSUME NEW net, NEW a, NEW hops \in Nat, NEW k \in 0..hops
    PROVE  Within(net, a, hops)[k] = Within(net, a, k)[k]
  <1> DEFINE w == Within(net, a, hops)
             v == Within(net, a, k)
             good == {j \in Nat : j <= k => w[j] = v[j]}
  <1>1. Widening(w, net, a, hops) /\ Widening(v, net, a, k)  BY WithinSteps
  <1> HIDE DEF w, v
  <1>2. 0 \in good  BY <1>1 DEF Widening
  <1>3. ASSUME NEW j \in Nat, j \in good PROVE j + 1 \in good
    <2> SUFFICES ASSUME j + 1 <= k PROVE w[j + 1] = v[j + 1]  OBVIOUS
    <2>1. w[j] = v[j] /\ j + 1 \in 1..hops /\ j + 1 \in 1..k /\ j + 1 - 1 = j  BY <1>3
    <2>2. w[j + 1] = w[j + 1 - 1] \union Successors(net, w[j + 1 - 1])  BY <1>1, <2>1 DEF Widening
    <2>3. v[j + 1] = v[j + 1 - 1] \union Successors(net, v[j + 1 - 1])  BY <1>1, <2>1 DEF Widening
    <2> QED  BY <2>1, <2>2, <2>3
  <1>4. Nat \subseteq good
    <2> HIDE DEF good
    <2> QED  BY <1>2, <1>3, Induction
  <1>5. k \in Nat /\ k <= k  OBVIOUS
  <1> QED  BY <1>4, <1>5 DEF w, v

LEMMA NearSteps ==
    ASSUME NEW net, Pairs(net), NEW a
    PROVE  /\ \A b : Near(net, 0, a, b) <=> a = b
           /\ \A b : Near(net, 1, a, b) <=> a = b \/ <<a, b>> \in net
           /\ \A k \in Nat : \A b : Near(net, k + 1, a, b) <=>
                Near(net, k, a, b) \/ \E c : Near(net, k, a, c) /\ <<c, b>> \in net
  <1>1. \A b : Near(net, 0, a, b) <=> a = b
    <2>1. Within(net, a, 0)[0] = {a}  BY WithinSteps DEF Widening
    <2> QED  BY <2>1 DEF Near
  <1>2. ASSUME NEW k \in Nat, NEW b
        PROVE  Near(net, k + 1, a, b) <=> Near(net, k, a, b) \/ \E c : Near(net, k, a, c) /\ <<c, b>> \in net
    <2> DEFINE w == Within(net, a, k + 1)
               v == Within(net, a, k)
    <2>1. w[k] = v[k]
      <3>1. k + 1 \in Nat /\ k \in 0..(k + 1)  OBVIOUS
      <3> QED  BY <3>1, InWithin
    <2>2. w[k + 1] = w[k] \union Successors(net, w[k])
      <3>1. k + 1 \in Nat /\ k + 1 \in 1..(k + 1) /\ k + 1 - 1 = k  OBVIOUS
      <3>2. Widening(w, net, a, k + 1)  BY <3>1, WithinSteps
      <3> HIDE DEF w
      <3>3. w[k + 1] = w[k + 1 - 1] \union Successors(net, w[k + 1 - 1])  BY <3>1, <3>2 DEF Widening
      <3> QED  BY <3>1, <3>3
    <2> HIDE DEF w, v
    <2>3. b \in Successors(net, v[k]) <=> \E c : c \in v[k] /\ <<c, b>> \in net
      <3>1. ASSUME b \in Successors(net, v[k]) PROVE \E c : c \in v[k] /\ <<c, b>> \in net
        <4>1. PICK e \in net : e[1] \in v[k] /\ e[2] = b  BY <3>1 DEF Successors
        <4>2. e = <<e[1], e[2]>>  BY DEF Pairs
        <4>3. <<e[1], b>> \in net  BY <4>1, <4>2
        <4> QED  BY <4>1, <4>3
      <3>2. ASSUME NEW c, c \in v[k], <<c, b>> \in net PROVE b \in Successors(net, v[k])
        BY <3>2 DEF Successors
      <3> QED  BY <3>1, <3>2
    <2> QED  BY <2>1, <2>2, <2>3 DEF Near, w, v
  <1>3. \A b : Near(net, 1, a, b) <=> a = b \/ <<a, b>> \in net
    <2>1. 0 \in Nat /\ 0 + 1 = 1  OBVIOUS
    <2>2. \A b : Near(net, 0 + 1, a, b) <=> Near(net, 0, a, b) \/ \E c : Near(net, 0, a, c) /\ <<c, b>> \in net
      BY <1>2, <2>1
    <2> QED  BY <1>1, <2>1, <2>2
  <1> QED  BY <1>1, <1>2, <1>3

LEMMA NearMore ==
    ASSUME NEW net, Pairs(net), NEW a, NEW b, NEW k \in Nat, NEW l \in Nat, k <= l, Near(net, k, a, b)
    PROVE  Near(net, l, a, b)
  <1> DEFINE good == {i \in Nat : Near(net, k + i, a, b)}
  <1>1. 0 \in good  OBVIOUS
  <1>2. ASSUME NEW i \in Nat, i \in good PROVE i + 1 \in good
    <2>1. k + i \in Nat /\ k + (i + 1) = k + i + 1  OBVIOUS
    <2>2. Near(net, k + i + 1, a, b)  BY <1>2, <2>1, NearSteps
    <2> QED  BY <2>1, <2>2
  <1>3. Nat \subseteq good
    <2> HIDE DEF good
    <2> QED  BY <1>1, <1>2, Induction
  <1>4. l - k \in Nat /\ k + (l - k) = l  OBVIOUS
  <1>5. l - k \in good  BY <1>3, <1>4
  <1> QED  BY <1>4, <1>5

(* A path goes on, and paths can be put together.                          *)
LEMMA NearJoined ==
    ASSUME NEW net, Pairs(net), NEW a, NEW b, NEW c, NEW j \in Nat, NEW k \in Nat,
           Near(net, j, a, b), Near(net, k, b, c)
    PROVE  Near(net, j + k, a, c)
  <1> DEFINE good == {i \in Nat : \A x : Near(net, i, b, x) => Near(net, j + i, a, x)}
  <1>1. 0 \in good
    <2>1. \A x : Near(net, 0, b, x) => x = b  BY NearSteps
    <2> QED  BY <2>1
  <1>2. ASSUME NEW i \in Nat, i \in good PROVE i + 1 \in good
    <2> SUFFICES ASSUME NEW x, Near(net, i + 1, b, x) PROVE Near(net, j + (i + 1), a, x)  OBVIOUS
    <2>1. j + i \in Nat /\ j + (i + 1) = j + i + 1  OBVIOUS
    <2>2. \A y : Near(net, i, b, y) => Near(net, j + i, a, y)  BY <1>2
    <2>3. Near(net, i, b, x) \/ \E y : Near(net, i, b, y) /\ <<y, x>> \in net  BY NearSteps
    <2>4. Near(net, j + i + 1, a, x)  BY <2>1, <2>2, <2>3, NearSteps
    <2> QED  BY <2>1, <2>4
  <1>3. Nat \subseteq good
    <2> HIDE DEF good
    <2> QED  BY <1>1, <1>2, Induction
  <1> QED  BY <1>3

(* The first hop of a path.                                                *)
LEMMA FirstHop ==
    ASSUME NEW net, Pairs(net), NEW a, NEW b, NEW k \in Nat
    PROVE  Near(net, k + 1, a, b) <=> Near(net, k, a, b) \/ \E c : <<a, c>> \in net /\ Near(net, k, c, b)
  <1> DEFINE Starts(i, x) == Near(net, i, a, x) \/ \E c : <<a, c>> \in net /\ Near(net, i, c, x)
             good == {i \in Nat : \A x : Near(net, i + 1, a, x) => Starts(i, x)}
  <1>1. \A x : Near(net, 0, x, x)  BY NearSteps
  <1>2. 0 \in good
    <2> SUFFICES ASSUME NEW x, Near(net, 0 + 1, a, x) PROVE Starts(0, x)  OBVIOUS
    <2>1. Near(net, 1, a, x)  OBVIOUS
    <2>2. a = x \/ <<a, x>> \in net  BY <2>1, NearSteps
    <2> QED  BY <1>1, <2>2
  <1>3. ASSUME NEW i \in Nat, i \in good PROVE i + 1 \in good
    <2> SUFFICES ASSUME NEW x, Near(net, i + 1 + 1, a, x) PROVE Starts(i + 1, x)  OBVIOUS
    <2>0. i + 1 \in Nat /\ i + 1 + 1 \in Nat  OBVIOUS
    <2>1. Near(net, i + 1, a, x) \/ \E y : Near(net, i + 1, a, y) /\ <<y, x>> \in net
      BY <2>0, NearSteps
    <2>2. CASE Near(net, i + 1, a, x)  BY <2>2
    <2>3. CASE \E y : Near(net, i + 1, a, y) /\ <<y, x>> \in net
      <3>1. PICK y : Near(net, i + 1, a, y) /\ <<y, x>> \in net  BY <2>3
      <3>2. Starts(i, y)  BY <1>3, <3>1
      <3>3. CASE Near(net, i, a, y)  BY <3>1, <3>3, NearSteps
      <3>4. CASE \E c : <<a, c>> \in net /\ Near(net, i, c, y)
        <4>1. PICK c : <<a, c>> \in net /\ Near(net, i, c, y)  BY <3>4
        <4>2. Near(net, i + 1, c, x)  BY <3>1, <4>1, NearSteps
        <4> QED  BY <4>1, <4>2
      <3> QED  BY <3>2, <3>3, <3>4
    <2> QED  BY <2>1, <2>2, <2>3
  <1>4. Nat \subseteq good
    <2> HIDE DEF good
    <2> QED  BY <1>2, <1>3, Induction
  <1>5. Near(net, k + 1, a, b) => Starts(k, b)  BY <1>4
  <1>6. Near(net, k, a, b) => Near(net, k + 1, a, b)  BY NearSteps
  <1>7. ASSUME NEW c, <<a, c>> \in net, Near(net, k, c, b) PROVE Near(net, k + 1, a, b)
    <2>1. Near(net, 1, a, c)  BY <1>7, NearSteps
    <2>3. Near(net, 1 + k, a, b)  BY <1>7, <2>1, NearJoined
    <2>4. 1 + k = k + 1  OBVIOUS
    <2> QED  BY <2>3, <2>4
  <1> QED  BY <1>5, <1>6, <1>7

(* A path backwards is one of the reversed net.                            *)
LEMMA NearReversed ==
    ASSUME NEW net, Pairs(net), NEW k \in Nat
    PROVE  /\ Pairs(Reversed(net))
           /\ \A a, b : Near(Reversed(net), k, b, a) <=> Near(net, k, a, b)
  <1> DEFINE back == Reversed(net)
             good == {i \in Nat : \A a, b : Near(back, i, b, a) <=> Near(net, i, a, b)}
  <1>1. Pairs(back) /\ \A a, b : <<b, a>> \in back <=> <<a, b>> \in net
    <2>1. \A a, b : <<a, b>> \in net => <<b, a>> \in back  BY DEF Reversed
    <2>2. ASSUME NEW a, NEW b, <<b, a>> \in back PROVE <<a, b>> \in net
      <3>1. PICK e \in net : <<b, a>> = <<e[2], e[1]>>  BY <2>2 DEF Reversed
      <3>2. e = <<e[1], e[2]>>  BY DEF Pairs
      <3> QED  BY <3>1, <3>2
    <2>3. Pairs(back)  BY DEF Pairs, Reversed
    <2> QED  BY <2>1, <2>2, <2>3
  <1> HIDE DEF back
  <1>2. 0 \in good  BY <1>1, NearSteps
  <1>3. ASSUME NEW i \in Nat, i \in good PROVE i + 1 \in good
    <2> SUFFICES ASSUME NEW a, NEW b PROVE Near(back, i + 1, b, a) <=> Near(net, i + 1, a, b)
      OBVIOUS
    <2>1. \A x, y : Near(back, i, y, x) <=> Near(net, i, x, y)  BY <1>3
    <2>2. Near(back, i + 1, b, a) <=> Near(back, i, b, a) \/ \E c : Near(back, i, b, c) /\ <<c, a>> \in back
      BY <1>1, NearSteps
    <2>3. Near(net, i + 1, a, b) <=> Near(net, i, a, b) \/ \E c : <<a, c>> \in net /\ Near(net, i, c, b)
      BY FirstHop
    <2> QED  BY <1>1, <2>1, <2>2, <2>3
  <1>4. Nat \subseteq good
    <2> HIDE DEF good
    <2> QED  BY <1>2, <1>3, Induction
  <1> QED  BY <1>1, <1>4 DEF back

-----------------------------------------------------------------------------
(* What the queries find.                                                  *)

(* The file that an id is of.                                              *)
FileOf(id) ==
    IF id[1] \in {"file", "dir", "symbol", "endpoint", "unresolved", "handler"} THEN id[2]
    ELSE IF id[1] = "entity" THEN id[2][2]
    ELSE None

(* What the id of a node tells of it.                                      *)
Told(n) ==
    /\ n.type \in {"Repository", "Directory"} <=> ~Code(n.id)
    /\ n.type \in {"UnresolvedSymbol", "Module"} <=> Missing(n.id)
    /\ n.file = FileOf(n.id)
    /\ n.file = None => n.module = None

Whole(g) ==
    /\ Graph(g)
    /\ \A e \in g.edges : Linked(g, e)
    /\ \A n \in g.nodes : Told(n)

LEMMA NodeTold ==
    ASSUME NEW files, Repository(files), NEW order, NEW f \in DOMAIN files, NEW n, NodeOfFile(files, order, f, n)
    PROVE  Told(n)
  <1>1. f # None  BY RepositoryContents DEF Repository
  <1>2. CASE n = RepositoryNode
    BY <1>2, NodeFields DEF RepositoryNode, RepositoryId, Told, Code, Missing, FileOf
  <1>3. CASE IsFile(files, f, n)
    <2>1. n.id = <<"file", f>> /\ n.type = "File" /\ n.file = f
      BY <1>3, NodeFields DEF IsFile, FileNode, FileId
    <2> QED  BY <1>1, <2>1 DEF Told, Code, Missing, FileOf
  <1>4. CASE IsDirectory(f, n)
    <2>1. PICK a \in Parents(f) : n = DirectoryNode(a)  BY <1>4 DEF IsDirectory
    <2>2. n.id = <<"dir", a>> /\ n.type = "Directory" /\ n.file = a /\ n.module = a
      BY <2>1, NodeFields DEF DirectoryNode
    <2> QED  BY <2>2 DEF Told, Code, Missing, FileOf
  <1>5. CASE IsSymbol(files, f, n)
    <2>1. PICK s \in files[f].symbols : n = SymbolNode(f, s)  BY <1>5 DEF IsSymbol
    <2>2. n.id = SymbolId(f, s) /\ n.type = s.kind /\ n.file = f  BY <2>1, NodeFields DEF SymbolNode
    <2>3. n.type \in {"Class", "Method", "Function"}  BY <2>2 DEF Repository, Extracted, Symbols
    <2>4. n.id[1] = "symbol" /\ n.id[2] = f  BY <2>2 DEF SymbolId
    <2> QED  BY <1>1, <2>2, <2>3, <2>4 DEF Told, Code, Missing, FileOf
  <1>6. CASE IsEndpoint(files, f, n)
    <2>1. PICK d \in files[f].endpoints : n = EndpointNode(f, d)  BY <1>6 DEF IsEndpoint
    <2>2. n.id = EndpointId(f, d) /\ n.type = "Endpoint" /\ n.file = f
      BY <2>1, NodeFields DEF EndpointNode
    <2>3. n.id[1] = "endpoint" /\ n.id[2] = f  BY <2>2 DEF EndpointId
    <2> QED  BY <1>1, <2>2, <2>3 DEF Told, Code, Missing, FileOf
  <1>7. CASE IsPackage(files, order, f, n)
    <2>1. PICK i \in Outside(files, f) : n = PackageNode(files, order, i)  BY <1>7 DEF IsPackage
    <2>2. n.id = PackageId(i.module) /\ n.file = None /\ n.module = None
      BY <2>1, NodeFields DEF PackageNode
    <2>3. \/ n.id[1] = "package" /\ n.type = "ExternalPackage"
          \/ n.id[1] = "unresolved-module" /\ n.type = "Module"
      BY <1>7, NodeTags
    <2> QED  BY <2>2, <2>3 DEF Told, Code, Missing, FileOf
  <1>8. CASE IsUnresolved(files, f, n)
    <2>1. PICK r \in LastUnresolved(files, f) : n = UnresolvedNode(f, r)  BY <1>8 DEF IsUnresolved
    <2>2. n.id = UnresolvedId(f, r) /\ n.type = "UnresolvedSymbol" /\ n.file = f
      BY <2>1, NodeFields DEF UnresolvedNode
    <2>3. n.id[1] = "unresolved" /\ n.id[2] = f  BY <2>2 DEF UnresolvedId
    <2> QED  BY <1>1, <2>2, <2>3 DEF Told, Code, Missing, FileOf
  <1>9. CASE IsHandler(files, f, n)
    <2>1. PICK d \in LastUnhandled(files, f) : n = HandlerNode(f, d)  BY <1>9 DEF IsHandler
    <2>2. n.id = HandlerId(f, d.handler) /\ n.type = "UnresolvedSymbol" /\ n.file = f
      BY <2>1, NodeFields DEF HandlerNode
    <2>3. n.id[1] = "handler" /\ n.id[2] = f  BY <2>2 DEF HandlerId
    <2> QED  BY <1>1, <2>2, <2>3 DEF Told, Code, Missing, FileOf
  <1>10. CASE IsEntity(files, f, n)
    <2>1. PICK s \in Models(files, f) : n = EntityNode(f, s)  BY <1>10 DEF IsEntity
    <2>2. n.id = EntityId(SymbolId(f, s)) /\ n.type = "DatabaseEntity" /\ n.file = f
      BY <2>1, NodeFields DEF EntityNode
    <2>3. n.id[1] = "entity" /\ n.id[2][2] = f  BY <2>2 DEF EntityId, SymbolId
    <2> QED  BY <1>1, <2>2, <2>3 DEF Told, Code, Missing, FileOf
  <1> QED  BY <1>2, <1>3, <1>4, <1>5, <1>6, <1>7, <1>8, <1>9, <1>10 DEF NodeOfFile

LEMMA VersionWhole ==
    ASSUME NEW v, Indexed(v)
    PROVE  Whole(v.graph)
  <1> DEFINE files == Analyzed(v)
             order == ScanFiles(v.sources)
  <1>1. Repository(files) /\ v.graph = ResolveGraph(files, order)  BY VersionBuilt
  <1> HIDE DEF files, order
  <1>2. ASSUME NEW n \in v.graph.nodes PROVE Told(n)
    <2>1. PICK f \in DOMAIN files : NodeOfFile(files, order, f, n)  BY <1>1, GraphNodes
    <2> QED  BY <1>1, <2>1, NodeTold
  <1> QED  BY <1>2, VersionGraph DEF Whole

LEMMA NetKnown ==
    ASSUME NEW g, Whole(g)
    PROVE  /\ Pairs(Net(g))
           /\ \A a, b : <<a, b>> \in Net(g) <=> \E e \in Dependencies(g) : e.source = a /\ e.target = b
           /\ \A a, b : <<a, b>> \in Net(g) => a \in Ids(g) /\ b \in Ids(g)
  <1>1. Pairs(Net(g))  BY DEF Pairs, Net, Ends
  <1>2. \A a, b : <<a, b>> \in Net(g) <=> \E e \in Dependencies(g) : e.source = a /\ e.target = b
    BY DEF Net, Ends
  <1>3. \A e \in Dependencies(g) : e.source \in Ids(g) /\ e.target \in Ids(g)
    BY DEF Whole, Dependencies, Linked, Firm
  <1> QED  BY <1>1, <1>2, <1>3

LEMMA InSuccessors ==
    ASSUME NEW net, Pairs(net), NEW ids, NEW b
    PROVE  /\ b \in Successors(net, ids) <=> \E a \in ids : <<a, b>> \in net
           /\ b \in Predecessors(net, ids) <=> \E a \in ids : <<b, a>> \in net
  <1>1. \A e \in net : e = <<e[1], e[2]>>  BY DEF Pairs
  <1>2. ASSUME b \in Successors(net, ids) PROVE \E a \in ids : <<a, b>> \in net
    <2>1. PICK e \in net : e[1] \in ids /\ e[2] = b  BY <1>2 DEF Successors
    <2>2. <<e[1], b>> \in net  BY <1>1, <2>1
    <2> QED  BY <2>1, <2>2
  <1>3. ASSUME NEW a \in ids, <<a, b>> \in net PROVE b \in Successors(net, ids)
    BY <1>3 DEF Successors
  <1>4. ASSUME b \in Predecessors(net, ids) PROVE \E a \in ids : <<b, a>> \in net
    <2>1. PICK e \in net : e[2] \in ids /\ e[1] = b  BY <1>4 DEF Predecessors
    <2>2. <<b, e[2]>> \in net  BY <1>1, <2>1
    <2> QED  BY <2>1, <2>2
  <1>5. ASSUME NEW a \in ids, <<b, a>> \in net PROVE b \in Predecessors(net, ids)
    BY <1>5 DEF Predecessors
  <1> QED  BY <1>2, <1>3, <1>4, <1>5

(* The length of the shortest path.                                        *)
Far(net, a, b, d) == d \in Nat /\ Near(net, d, a, b) /\ \A k \in Nat : Near(net, k, a, b) => d <= k

LEMMA HopsLeast ==
    ASSUME NEW net, NEW a, NEW b, NEW h \in Nat, Near(net, h, a, b)
    PROVE  Hops(Within(net, a, h), b) <= h /\ Far(net, a, b, Hops(Within(net, a, h), b))
  <1> DEFINE w == Within(net, a, h)
             T == {k \in DOMAIN w : b \in w[k]}
             d == Hops(w, b)
  <1>1. DOMAIN w = 0..h  BY WithinSteps DEF Widening
  <1>2. \A k \in 0..h : b \in w[k] <=> Near(net, k, a, b)  BY InWithin DEF Near
  <1> HIDE DEF w
  <1>3. \A k : k \in T <=> k \in 0..h /\ Near(net, k, a, b)  BY <1>1, <1>2
  <1>4. d = Min(T)  BY DEF Hops
  <1> HIDE DEF T, d
  <1>5. h \in T /\ T \subseteq Nat  BY <1>3
  <1>6. d \in T /\ \A y \in T : d <= y  BY <1>4, <1>5, MinIsLeast
  <1>7. d \in 0..h /\ Near(net, d, a, b)  BY <1>3, <1>6
  <1>8. ASSUME NEW k \in Nat, Near(net, k, a, b) PROVE d <= k
    <2>1. CASE k <= h
      <3>1. k \in T  BY <1>3, <1>8, <2>1
      <3> QED  BY <1>6, <3>1
    <2>2. CASE ~(k <= h)  BY <1>7, <2>2
    <2> QED  BY <2>1, <2>2
  <1> QED  BY <1>7, <1>8 DEF Far, d, w

LEMMA FarOnce ==
    ASSUME NEW net, NEW a, NEW b, NEW c, NEW d, Far(net, a, b, c), Far(net, a, b, d)
    PROVE  c = d
  BY DEF Far

(* How far what depends on the seeds is from them.                         *)
Distance(net, a, seeds, d) ==
    /\ d \in Nat
    /\ \E s \in seeds : Near(net, d, a, s)
    /\ \A k \in Nat : \A s \in seeds : Near(net, k, a, s) => d <= k

LEMMA DistancesKnown ==
    ASSUME NEW g, Whole(g), NEW seeds
    PROVE  LET distances == Distances(g, seeds)
           IN  /\ \A a : a \in DOMAIN distances <=> \E s \in seeds : Near(Net(g), Cutoff, a, s)
               /\ \A a \in DOMAIN distances : /\ Distance(Net(g), a, seeds, distances[a])
                                              /\ distances[a] <= Cutoff
  <1> DEFINE net == Net(g)
             reverse == Reversed(net)
             from == [seed \in seeds |-> Within(reverse, seed, Cutoff)]
             reached == UNION {from[seed][Cutoff] : seed \in seeds}
             nearest(id) == {Hops(from[seed], id) : seed \in {s \in seeds : id \in from[s][Cutoff]}}
             distances == Distances(g, seeds)
  <1>1. distances = [id \in reached |-> Min(nearest(id))]  BY DEF Distances
  <1>2. Cutoff \in Nat  BY IntelligenceBounds
  <1>3. Pairs(net) /\ Pairs(reverse) /\ \A k \in Nat : \A a, b : Near(reverse, k, b, a) <=> Near(net, k, a, b)
    BY NetKnown, NearReversed
  <1> HIDE DEF net, reverse
  <1>4. \A s \in seeds : \A a : a \in from[s][Cutoff] <=> Near(net, Cutoff, a, s)
    <2>1. \A s \in seeds : \A a : a \in from[s][Cutoff] <=> Near(reverse, Cutoff, s, a)  BY DEF Near
    <2> QED  BY <1>2, <1>3, <2>1
  <1>5. ASSUME NEW s \in seeds, NEW a, a \in from[s][Cutoff]
        PROVE  Far(net, a, s, Hops(from[s], a)) /\ Hops(from[s], a) <= Cutoff
    <2>1. Near(reverse, Cutoff, s, a)  BY <1>2, <1>3, <1>4, <1>5
    <2>2. Far(reverse, s, a, Hops(from[s], a)) /\ Hops(from[s], a) <= Cutoff
      <3>1. from[s] = Within(reverse, s, Cutoff)  OBVIOUS
      <3> HIDE DEF from
      <3> QED  BY <1>2, <2>1, <3>1, HopsLeast
    <2> HIDE DEF from
    <2> QED  BY <1>3, <2>2 DEF Far
  <1> HIDE DEF from
  <1>6. \A a : a \in reached <=> \E s \in seeds : Near(net, Cutoff, a, s)  BY <1>4
  <1>7. ASSUME NEW a \in reached PROVE Distance(net, a, seeds, Min(nearest(a))) /\ Min(nearest(a)) <= Cutoff
    <2> DEFINE T == nearest(a)
               d == Min(T)
    <2>1. PICK s \in seeds : a \in from[s][Cutoff]  OBVIOUS
    <2>2. Hops(from[s], a) \in T  BY <2>1
    <2>3. \A t \in T : \E x \in seeds : a \in from[x][Cutoff] /\ t = Hops(from[x], a)  OBVIOUS
    <2>4. \A x \in seeds : a \in from[x][Cutoff] => Hops(from[x], a) \in T  OBVIOUS
    <2> HIDE DEF T
    <2>5. T \subseteq Nat /\ T # {}  BY <1>5, <2>2, <2>3 DEF Far
    <2>6. d \in T /\ \A t \in T : d <= t  BY <2>5, MinIsLeast
    <2> HIDE DEF d
    <2>7. PICK x \in seeds : a \in from[x][Cutoff] /\ d = Hops(from[x], a)  BY <2>3, <2>6
    <2>8. Far(net, a, x, d) /\ d <= Cutoff  BY <1>5, <2>7
    <2>9. ASSUME NEW k \in Nat, NEW y \in seeds, Near(net, k, a, y) PROVE d <= k
      <3>1. CASE k <= Cutoff
        <4>1. Near(net, Cutoff, a, y)  BY <1>2, <1>3, <2>9, <3>1, NearMore
        <4>2. a \in from[y][Cutoff]  BY <1>4, <4>1
        <4>3. Hops(from[y], a) \in T /\ Far(net, a, y, Hops(from[y], a))  BY <1>5, <2>4, <4>2
        <4>4. d <= Hops(from[y], a) /\ Hops(from[y], a) <= k /\ Hops(from[y], a) \in Nat
          BY <2>6, <2>9, <4>3 DEF Far
        <4>5. d \in Nat  BY <2>8 DEF Far
        <4> QED  BY <4>4, <4>5
      <3>2. CASE ~(k <= Cutoff)
        <4>1. d \in Nat  BY <2>8 DEF Far
        <4> QED  BY <1>2, <2>8, <3>2, <4>1
      <3> QED  BY <3>1, <3>2
    <2> QED  BY <2>8, <2>9 DEF Distance, Far, d, T
  <1> HIDE DEF reached, nearest
  <1>8. DOMAIN distances = reached /\ \A a \in reached : distances[a] = Min(nearest(a))  BY <1>1
  <1> HIDE DEF distances
  <1> QED  BY <1>6, <1>7, <1>8 DEF distances, net

LEMMA InVisited ==
    ASSUME NEW g, NEW a, NEW b
    PROVE  b \in Visited(g, a) <=> Near(Net(g), Cutoff, a, b)
  BY DEF Visited, Near

(* Traces and impacts agree.                                               *)
LEMMA TracesAgree ==
    ASSUME NEW g, Whole(g), NEW a, NEW b
    PROVE  /\ b \in Visited(g, a) <=> a \in DOMAIN Distances(g, {b})
           /\ b \in Visited(g, a) /\ Cutoff < MaxPath => Path(g, a, b, TRUE) = Distances(g, {b})[a]
  <1> DEFINE net == Net(g)
             distances == Distances(g, {b})
  <1>1. b \in Visited(g, a) <=> a \in DOMAIN distances  BY InVisited, DistancesKnown
  <1>2. ASSUME b \in Visited(g, a), Cutoff < MaxPath PROVE Path(g, a, b, TRUE) = distances[a]
    <2> DEFINE h == MaxPath - 1
    <2>1. h \in Nat /\ Cutoff \in Nat /\ Cutoff <= h  BY <1>2, IntelligenceBounds
    <2>2. Near(net, h, a, b)
      <3>1. Near(net, Cutoff, a, b)  BY <1>2, InVisited
      <3> HIDE DEF h, net
      <3> QED  BY <2>1, <3>1, NetKnown, NearMore DEF net
    <2>3. Path(g, a, b, TRUE) = Hops(Within(net, a, h), b)  BY <2>2 DEF Path, Near
    <2>4. Far(net, a, b, Path(g, a, b, TRUE))
      <3> HIDE DEF h, net
      <3> QED  BY <2>1, <2>2, <2>3, HopsLeast
    <2>5. Distance(net, a, {b}, distances[a])  BY <1>1, <1>2, DistancesKnown
    <2>6. Far(net, a, b, distances[a])  BY <2>5 DEF Distance, Far
    <2> HIDE DEF net, distances
    <2> QED  BY <2>4, <2>6, FarOnce
  <1> QED  BY <1>1, <1>2

(* What a change is of: members, three levels deep.                        *)
Structure(g) == {<<e.source, e.target>> : e \in {d \in g.edges : d.type \in {"DEFINES", "CONTAINS"}}}

Deepening(w, g, id) ==
    /\ w[0] = {id}
    /\ \A k \in 1..3 : w[k] = Successors(Structure(g), w[k - 1])
    /\ \A k \in 1..3 : w[k] \subseteq Ids(g)
    /\ UNION {w[k] : k \in 0..3} \subseteq Ids(g)
    /\ Selected(g, id) = IF TypeOf(g, id) \in {"File", "Class", "Interface"} THEN UNION {w[k] : k \in 0..3} ELSE {id}

LEMMA SelectedSteps ==
    ASSUME NEW g, Whole(g), NEW id \in Ids(g)
    PROVE  \E w : Deepening(w, g, id)
  <1> DEFINE structure == {<<e.source, e.target>> : e \in {d \in g.edges : d.type \in {"DEFINES", "CONTAINS"}}}
             S == SUBSET Ids(g)
             n == 3
             Step(ids) == Successors(structure, ids)
             step == [p \in (1..n) \X S |-> Step(p[2])]
             a == {id}
             Rec(f) == f = [k \in 0..n |-> IF k = 0 THEN {id} ELSE Step(f[k - 1])]
             w == CHOOSE f : Rec(f)
  <1>1. \A ids \in S : Step(ids) \in S  BY DEF Successors, Whole, Linked
  <1>2. a \in S /\ n \in Nat  OBVIOUS
  <1> HIDE DEF S
  <1>3. step \in [(1..n) \X S -> S]
    <2> HIDE DEF Step
    <2> QED  BY <1>1
  <1>4. PICK f : Recursive(f, S, a, n, step)
    <2> HIDE DEF step, a, n
    <2> QED  BY <1>2, <1>3, Recursion
  <1>5. Rec(f)
    <2>1. \A k \in 0..n : k # 0 => f[k - 1] \in S /\ k \in 1..n  BY <1>4 DEF Recursive
    <2> HIDE DEF Step
    <2>2. \A k \in 0..n : k # 0 => step[<<k, f[k - 1]>>] = Step(f[k - 1])  BY <2>1
    <2>3. \A k \in 0..n : f[k] = IF k = 0 THEN {id} ELSE Step(f[k - 1])  BY <1>4, <2>2 DEF Recursive
    <2> QED  BY <1>4, <2>3 DEF Recursive
  <1>6. Rec(w)
    <2> HIDE DEF Rec
    <2> QED  BY <1>5
  <1>7. Selected(g, id) = IF TypeOf(g, id) \in {"File", "Class", "Interface"} THEN UNION {w[k] : k \in 0..3} ELSE {id}
    BY DEF Selected
  <1>8. w[0] = {id} /\ \A k \in 1..n : w[k] = Step(w[k - 1])
    <2> HIDE DEF w, Step
    <2>1. 0 \in 0..n /\ \A k \in 1..n : k \in 0..n /\ k # 0  OBVIOUS
    <2>2. w[0] = {id}  BY <1>6, <2>1
    <2>3. \A k \in 1..n : w[k] = Step(w[k - 1])  BY <1>6, <2>1
    <2> QED  BY <2>2, <2>3
  <1>9. w \in [0..n -> S]
    <2> HIDE DEF w, Step
    <2>1. DOMAIN w = 0..n /\ w = [k \in 0..n |-> w[k]]  BY <1>6
    <2>2. w[0] \in S /\ \A k \in 1..n : w[k - 1] \in S => w[k] \in S  BY <1>1, <1>2, <1>8
    <2> HIDE DEF n
    <2> QED  BY <1>2, <2>1, <2>2, Stays
  <1> HIDE DEF w
  <1>10. \A k \in 0..3 : w[k] \subseteq Ids(g)  BY <1>9 DEF S
  <1>11. \A k \in 1..3 : w[k] = Successors(Structure(g), w[k - 1])  BY <1>8 DEF Structure
  <1>12. Deepening(w, g, id)  BY <1>7, <1>8, <1>10, <1>11 DEF Deepening
  <1> QED  BY <1>12

LEMMA SelectedKnown ==
    ASSUME NEW g, Whole(g), NEW id \in Ids(g)
    PROVE  id \in Selected(g, id) /\ Selected(g, id) \subseteq Ids(g)
  <1>1. PICK w : Deepening(w, g, id)  BY SelectedSteps
  <1>2. id \in w[0] /\ 0 \in 0..3  BY <1>1 DEF Deepening
  <1>3. id \in UNION {w[k] : k \in 0..3}  BY <1>2
  <1> QED  BY <1>1, <1>3 DEF Deepening

LEMMA SubgraphShows ==
    ASSUME NEW g, NEW S, NEW list \in Seq(S), NEW limit \in Nat
    PROVE  LET shown == Subgraph(g, list, limit)
           IN  /\ shown.nodes \subseteq ToSet(list) \intersect Ids(g)
               /\ shown.truncated \/ shown.nodes = ToSet(list) \intersect Ids(g)
  <1> DEFINE known == Among(Unique(list), Ids(g))
  <1>1. Unique(list) \in Seq(S) /\ ToSet(Unique(list)) = ToSet(list)  BY InUnique
  <1>2. known \in Seq(S) /\ ToSet(known) = ToSet(list) \intersect Ids(g)  BY <1>1, InAmong
  <1>3. /\ Subgraph(g, list, limit).nodes = ToSet(First(limit, known))
        /\ Subgraph(g, list, limit).truncated <=> Len(known) > limit  BY DEF Subgraph
  <1> HIDE DEF known
  <1>4. /\ ToSet(First(limit, known)) \subseteq ToSet(known)
        /\ Len(known) <= limit => First(limit, known) = known
        /\ Len(known) \in Nat  BY <1>2, InFirst, InList
  <1> DEFINE shown == Subgraph(g, list, limit)
  <1> HIDE DEF shown
  <1>5. shown.nodes \subseteq ToSet(list) \intersect Ids(g)  BY <1>2, <1>3, <1>4 DEF shown
  <1>6. CASE Len(known) > limit  BY <1>3, <1>5, <1>6 DEF shown
  <1>7. CASE ~(Len(known) > limit)
    <2>1. Len(known) <= limit  BY <1>4, <1>7
    <2>2. shown.nodes = ToSet(list) \intersect Ids(g)  BY <1>2, <1>3, <1>4, <2>1 DEF shown
    <2> QED  BY <1>5, <2>2 DEF shown
  <1> QED  BY <1>6, <1>7

(* The parts of an impact.                                                 *)
DataOf(g, ids) == {e.target : e \in {d \in g.edges : d.source \in ids /\ d.type \in {"READS_FROM", "WRITES_TO"}}}

LEMMA ImpactParts ==
    ASSUME NEW g, NEW id
    PROVE  LET impact == Impact(g, id)
               distances == Distances(g, Selected(g, id))
               dependents == DOMAIN distances \ Selected(g, id)
               affected == dependents \union Selected(g, id)
           IN  /\ impact.dependents = dependents
               /\ impact.distances = distances
               /\ impact.direct = Predecessors(Net(g), Selected(g, id)) \ Selected(g, id)
               /\ impact.endpoints = {d \in dependents : TypeOf(g, d) = "Endpoint"}
               /\ impact.db = DataOf(g, affected)
               /\ impact.graph = Subgraph(g, <<id>> \o Sorted(affected \ {id}) \o Sorted(DataOf(g, affected)), GraphLimit)
  BY DEF Impact, Assess, Dependents, Direct, DataOf

LEMMA AffectedKnown ==
    ASSUME NEW g, Whole(g), NEW id \in Ids(g)
    PROVE  LET selected == Selected(g, id)
               dependents == DOMAIN Distances(g, selected) \ selected
           IN  /\ dependents \subseteq Ids(g)
               /\ dependents = {a \in Ids(g) \ selected : selected \intersect Visited(g, a) # {}}
               /\ IsFiniteSet(selected) /\ IsFiniteSet(dependents)
               /\ \A ids : DataOf(g, ids) \subseteq Ids(g) /\ IsFiniteSet(DataOf(g, ids))
  <1> DEFINE selected == Selected(g, id)
             dependents == DOMAIN Distances(g, selected) \ selected
             found == {a \in Ids(g) \ selected : selected \intersect Visited(g, a) # {}}
  <1>1. selected \subseteq Ids(g)  BY SelectedKnown
  <1> HIDE DEF selected
  <1>2. \A a : a \in DOMAIN Distances(g, selected) <=> \E s \in selected : Near(Net(g), Cutoff, a, s)
    BY DistancesKnown
  <1>3. ASSUME NEW a, NEW s \in selected, Near(Net(g), Cutoff, a, s) PROVE a \in Ids(g)
    <2>1. Cutoff \in Nat /\ Cutoff - 1 \in Nat /\ Cutoff - 1 + 1 = Cutoff  BY IntelligenceBounds
    <2> DEFINE good == {k \in Nat : \A x : Near(Net(g), k, x, s) => x \in Ids(g)}
    <2>2. 0 \in good  BY <1>1, NetKnown, NearSteps
    <2>3. ASSUME NEW k \in Nat, k \in good PROVE k + 1 \in good
      <3> SUFFICES ASSUME NEW x, Near(Net(g), k + 1, x, s) PROVE x \in Ids(g)  OBVIOUS
      <3>1. Near(Net(g), k, x, s) \/ \E c : <<x, c>> \in Net(g) /\ Near(Net(g), k, c, s)
        BY NetKnown, FirstHop
      <3> QED  BY <2>3, <3>1, NetKnown
    <2>4. Nat \subseteq good
      <3> HIDE DEF good
      <3> QED  BY <2>2, <2>3, Induction
    <2> QED  BY <1>3, <2>1, <2>4
  <1>4. \A a : a \in dependents <=> a \in found  BY <1>2, <1>3, InVisited
  <1> HIDE DEF dependents, found
  <1>5. dependents = found  BY <1>4, SameSet
  <1>6. IsFiniteSet(Ids(g))  BY CountIds DEF Whole
  <1>7. \A ids : DataOf(g, ids) \subseteq Ids(g)  BY DEF DataOf, Whole, Linked
  <1>8. dependents \subseteq Ids(g)  BY <1>5 DEF found
  <1> QED  BY <1>1, <1>5, <1>6, <1>7, <1>8, FS_Subset DEF selected, dependents, found

LEMMA SortedAfter ==
    ASSUME NEW S, NEW id \in S, NEW a, a \subseteq S, IsFiniteSet(a)
    PROVE  LET list == <<id>> \o Sorted(a \ {id})
           IN  list \in Seq(S) /\ ToSet(list) = a \union {id}
  <1> DEFINE first == <<id>>
             rest == Sorted(a \ {id})
  <1>1. first \in Seq(S) /\ ToSet(first) = {id}  BY InShortList
  <1>2. IsFiniteSet(a \ {id})  BY FS_Subset
  <1>3. rest \in Seq(S) /\ ToSet(rest) = a \ {id}
    <2> DEFINE T == a \ {id}
    <2>1. T \subseteq S /\ IsFiniteSet(T)  BY <1>2
    <2> HIDE DEF T
    <2>2. Sorted(T) \in Seq(T) /\ ToSet(Sorted(T)) = T  BY <2>1, InSorted
    <2>3. Sorted(T) \in Seq(S) /\ ToSet(Sorted(T)) = T  BY <2>1, <2>2
    <2> QED  BY <2>3 DEF T
  <1> HIDE DEF first, rest
  <1>4. first \o rest \in Seq(S) /\ \A x : x \in ToSet(first \o rest) <=> x \in ToSet(first) \/ x \in ToSet(rest)
    BY <1>1, <1>3, InLists
  <1>5. ToSet(first \o rest) = a \union {id}  BY <1>1, <1>3, <1>4
  <1> QED  BY <1>4, <1>5 DEF first, rest

LEMMA ImpactShown ==
    ASSUME NEW g, Whole(g), NEW id \in Ids(g)
    PROVE  LET impact == Impact(g, id)
               affected == impact.dependents \union Selected(g, id)
           IN  /\ impact.graph.nodes \subseteq affected \union impact.db
               /\ impact.graph.truncated \/ affected \subseteq impact.graph.nodes
               /\ IsFiniteSet(impact.graph.nodes) /\ impact.graph.nodes \subseteq Ids(g)
  <1> DEFINE impact == Impact(g, id)
             affected == impact.dependents \union Selected(g, id)
             db == DataOf(g, affected)
             first == <<id>> \o Sorted(affected \ {id})
             list == first \o Sorted(db)
             S == Ids(g)
  <1>1. impact.graph = Subgraph(g, list, GraphLimit) /\ impact.db = db  BY ImpactParts
  <1>2. affected \subseteq S /\ IsFiniteSet(affected) /\ id \in affected
    <2>1. impact.dependents = DOMAIN Distances(g, Selected(g, id)) \ Selected(g, id)  BY ImpactParts
    <2> DEFINE dependents == impact.dependents
               selected == Selected(g, id)
    <2>2. dependents \subseteq S /\ selected \subseteq S /\ id \in selected
      BY <2>1, AffectedKnown, SelectedKnown
    <2>3. IsFiniteSet(selected) /\ IsFiniteSet(dependents)  BY <2>1, AffectedKnown
    <2> HIDE DEF impact, dependents, selected
    <2>4. IsFiniteSet(dependents \union selected)  BY <2>3, FS_Union
    <2> QED  BY <2>2, <2>4 DEF dependents, selected
  <1>3. db \subseteq S /\ IsFiniteSet(db)  BY AffectedKnown
  <1> HIDE DEF affected, db, impact
  <1>4. first \in Seq(S) /\ ToSet(first) = affected
    <2>1. first \in Seq(S) /\ ToSet(first) = affected \union {id}  BY <1>2, SortedAfter
    <2> QED  BY <1>2, <2>1
  <1>5. Sorted(db) \in Seq(S) /\ ToSet(Sorted(db)) = db  BY <1>3, InSorted
  <1> HIDE DEF first
  <1>6. list \in Seq(S) /\ \A x : x \in ToSet(list) <=> x \in affected \/ x \in db
    BY <1>4, <1>5, InLists
  <1> HIDE DEF list
  <1>7. /\ impact.graph.nodes \subseteq ToSet(list) \intersect S
        /\ impact.graph.truncated \/ impact.graph.nodes = ToSet(list) \intersect S
    BY <1>1, <1>6, SubgraphShows, IntelligenceBounds
  <1>8. impact.graph.nodes \subseteq affected \union db /\ impact.graph.nodes \subseteq S
    BY <1>6, <1>7
  <1>9. impact.graph.truncated \/ affected \subseteq impact.graph.nodes  BY <1>2, <1>6, <1>7
  <1>10. IsFiniteSet(impact.graph.nodes)  BY <1>8, CountIds, FS_Subset DEF Whole
  <1> QED  BY <1>1, <1>8, <1>9, <1>10 DEF affected, impact

(* What depends on a change is one further than the nearest of what it     *)
(* depends on itself.                                                      *)
LEMMA DistancesStep ==
    ASSUME NEW g, Whole(g), NEW seeds, NEW a \in DOMAIN Distances(g, seeds)
    PROVE  LET distances == Distances(g, seeds)
               next == {distances[n] : n \in Successors(Net(g), {a}) \intersect DOMAIN distances}
           IN  distances[a] = IF a \in seeds THEN 0 ELSE 1 + Min(next)
  <1> DEFINE net == Net(g)
             distances == Distances(g, seeds)
             next == {distances[n] : n \in Successors(net, {a}) \intersect DOMAIN distances}
             d == distances[a]
  <1>1. /\ Pairs(net) /\ Cutoff \in Nat
        /\ \A b : b \in DOMAIN distances <=> \E s \in seeds : Near(net, Cutoff, b, s)
        /\ \A b \in DOMAIN distances : Distance(net, b, seeds, distances[b]) /\ distances[b] <= Cutoff
    BY NetKnown, DistancesKnown, IntelligenceBounds
  <1>2. d \in Nat /\ d <= Cutoff /\ \A k \in Nat : \A s \in seeds : Near(net, k, a, s) => d <= k
    BY <1>1 DEF Distance
  <1>3. PICK s \in seeds : Near(net, d, a, s)  BY <1>1 DEF Distance
  <1>4. \A n : n \in Successors(net, {a}) <=> <<a, n>> \in net
    <2> HIDE DEF net
    <2>1. \A n : n \in Successors(net, {a}) <=> \E x \in {a} : <<x, n>> \in net
      BY <1>1, InSuccessors
    <2> QED  BY <2>1
  <1>5. \A n \in DOMAIN distances : distances[n] \in Nat  BY <1>1 DEF Distance
  <1>6. next \subseteq Nat  BY <1>5
  <1>7. \A m \in next : \E n \in DOMAIN distances : <<a, n>> \in net /\ m = distances[n]  BY <1>4
  <1>8. \A n \in DOMAIN distances : <<a, n>> \in net => distances[n] \in next  BY <1>4
  <1> HIDE DEF next, d, net
  <1>9. CASE a \in seeds
    <2>1. Near(net, 0, a, a)  BY <1>1, NearSteps
    <2>2. d <= 0  BY <1>2, <1>9, <2>1
    <2> QED  BY <1>2, <1>9, <2>2 DEF d
  <1>10. CASE a \notin seeds
    <2>1. d # 0  BY <1>1, <1>3, <1>10, NearSteps
    <2> DEFINE k == d - 1
    <2>2. k \in Nat /\ d = k + 1 /\ ~(d <= k) /\ k <= Cutoff  BY <1>1, <1>2, <2>1
    <2> HIDE DEF k
    <2>3. ~Near(net, k, a, s)  BY <1>2, <2>2
    <2>4. Near(net, k + 1, a, s)  BY <1>3, <2>2
    <2>5. PICK c : <<a, c>> \in net /\ Near(net, k, c, s)  BY <1>1, <2>2, <2>3, <2>4, FirstHop
    <2>6. Near(net, Cutoff, c, s)  BY <1>1, <2>2, <2>5, NearMore
    <2>7. c \in DOMAIN distances  BY <1>1, <2>6
    <2>8. distances[c] \in next /\ distances[c] <= k  BY <1>1, <1>8, <2>2, <2>5, <2>7 DEF Distance
    <2>9. ASSUME NEW m \in next PROVE k <= m
      <3>1. PICK n \in DOMAIN distances : <<a, n>> \in net /\ m = distances[n]  BY <1>7
      <3>2. m \in Nat  BY <1>5, <3>1
      <3>3. PICK x \in seeds : Near(net, m, n, x)  BY <1>1, <3>1 DEF Distance
      <3>4. Near(net, m + 1, a, x)  BY <1>1, <3>1, <3>2, <3>3, FirstHop
      <3>5. m + 1 \in Nat /\ d <= m + 1  BY <1>2, <3>2, <3>4
      <3> QED  BY <2>2, <3>2, <3>5
    <2>10. Min(next) \in next /\ Min(next) <= distances[c]  BY <1>6, <2>8, MinIsLeast
    <2>11. Min(next) = k
      <3>1. Min(next) \in Nat /\ distances[c] \in Nat  BY <1>6, <2>8, <2>10
      <3>2. k <= Min(next)  BY <2>9, <2>10
      <3> QED  BY <2>2, <2>8, <2>10, <3>1, <3>2
    <2>12. d = 1 + Min(next)  BY <2>2, <2>11
    <2> QED  BY <1>10, <2>12 DEF d, next, net
  <1> QED  BY <1>9, <1>10

LEMMA ImpactAgrees ==
    ASSUME NEW g, Whole(g), NEW id \in Ids(g)
    PROVE  LET selected == Selected(g, id)
               impact == Impact(g, id)
           IN  /\ impact.dependents = {a \in Ids(g) \ selected : selected \intersect Visited(g, a) # {}}
               /\ \A d \in DOMAIN impact.distances :
                    impact.distances[d] =
                        IF d \in selected THEN 0
                        ELSE 1 + Min({impact.distances[n] :
                                n \in Successors(Net(g), {d}) \intersect DOMAIN impact.distances})
               /\ impact.direct \subseteq impact.dependents
               /\ impact.graph.truncated \/ impact.dependents \subseteq impact.graph.nodes
  <1> DEFINE selected == Selected(g, id)
             impact == Impact(g, id)
             distances == Distances(g, selected)
  <1>1. /\ impact.dependents = DOMAIN distances \ selected /\ impact.distances = distances
        /\ impact.direct = Predecessors(Net(g), selected) \ selected  BY ImpactParts
  <1>2. impact.dependents = {a \in Ids(g) \ selected : selected \intersect Visited(g, a) # {}}
    BY <1>1, AffectedKnown
  <1>3. impact.graph.truncated \/ impact.dependents \subseteq impact.graph.nodes  BY ImpactShown
  <1> HIDE DEF impact, selected
  <1>4. \A d \in DOMAIN distances :
            distances[d] = IF d \in selected THEN 0
                           ELSE 1 + Min({distances[n] : n \in Successors(Net(g), {d}) \intersect DOMAIN distances})
    BY DistancesStep
  <1>5. ASSUME NEW a \in Predecessors(Net(g), selected) PROVE a \in DOMAIN distances
    <2>1. PICK s \in selected : <<a, s>> \in Net(g)  BY NetKnown, InSuccessors
    <2>2. Near(Net(g), 1, a, s)  BY <2>1, NetKnown, NearSteps
    <2>3. 1 \in Nat /\ Cutoff \in Nat /\ 1 <= Cutoff  BY IntelligenceBounds
    <2>4. Near(Net(g), Cutoff, a, s)  BY <2>2, <2>3, NetKnown, NearMore
    <2> QED  BY <2>4, DistancesKnown
  <1>6. impact.direct \subseteq impact.dependents  BY <1>1, <1>5
  <1> QED  BY <1>1, <1>2, <1>3, <1>4, <1>6 DEF impact, selected

(* What a neighbourhood of one step shows.                                 *)
Spreading(w, g, id, along, n) ==
    /\ w[0] = {id}
    /\ \A k \in 0..n : w[k] \subseteq Ids(g)
    /\ \A k \in 1..n :
        w[k] = IF k > 1 /\ Cardinality(w[k - 1]) >= GraphLimit THEN w[k - 1]
               ELSE w[k - 1] \union Successors(along, w[k - 1])

Along(g, types, direction) ==
    LET net == Ends({e \in g.edges : types = {} \/ e.type \in types})
    IN  (IF direction \in {"both", "out"} THEN net ELSE {})
            \union (IF direction \in {"both", "in"} THEN Reversed(net) ELSE {})

LEMMA NeighborSteps ==
    ASSUME NEW g, Whole(g), NEW id \in Ids(g), NEW depth \in Nat, NEW types, NEW direction
    PROVE  LET n == AtMost(MaxDepth, depth)
           IN  \E w : /\ Spreading(w, g, id, Along(g, types, direction), n)
                      /\ Neighbors(g, id, depth, types, direction) =
                            Subgraph(g, <<id>> \o Sorted(w[n] \ {id}), GraphLimit)
  <1> DEFINE net == Ends({e \in g.edges : types = {} \/ e.type \in types})
             along == (IF direction \in {"both", "out"} THEN net ELSE {})
                        \union (IF direction \in {"both", "in"} THEN Reversed(net) ELSE {})
             S == SUBSET Ids(g)
             n == AtMost(MaxDepth, depth)
             Step(ids, k) == IF k > 1 /\ Cardinality(ids) >= GraphLimit THEN ids
                             ELSE ids \union Successors(along, ids)
             step == [p \in (1..n) \X S |-> Step(p[2], p[1])]
             a == {id}
             Rec(f) == f = [k \in 0..n |-> IF k = 0 THEN {id} ELSE Step(f[k - 1], k)]
             w == CHOOSE f : Rec(f)
  <1>1. \A ids \in S : \A k : Step(ids, k) \in S
    <2>1. \A e \in net : e[1] \in Ids(g) /\ e[2] \in Ids(g)  BY DEF Ends, Whole, Linked, Firm
    <2>2. \A e \in along : e[2] \in Ids(g)
      <3> HIDE DEF net
      <3> QED  BY <2>1 DEF Reversed
    <2> HIDE DEF along
    <2> QED  BY <2>2 DEF Successors
  <1>2. a \in S /\ n \in Nat  BY IntelligenceBounds DEF AtMost
  <1>3. Neighbors(g, id, depth, types, direction) = Subgraph(g, <<id>> \o Sorted(w[n] \ {id}), GraphLimit)
    BY DEF Neighbors
  <1>4. along = Along(g, types, direction)  BY DEF Along
  <1> HIDE DEF S, along, n
  <1>5. step \in [(1..n) \X S -> S]
    <2> HIDE DEF Step
    <2> QED  BY <1>1
  <1>6. PICK f : Recursive(f, S, a, n, step)
    <2> HIDE DEF step, a
    <2> QED  BY <1>2, <1>5, Recursion
  <1>7. Rec(f)
    <2>1. \A k \in 0..n : k # 0 => f[k - 1] \in S /\ k \in 1..n  BY <1>2, <1>6 DEF Recursive
    <2> HIDE DEF Step
    <2>2. \A k \in 0..n : k # 0 => step[<<k, f[k - 1]>>] = Step(f[k - 1], k)  BY <2>1
    <2>3. \A k \in 0..n : f[k] = IF k = 0 THEN {id} ELSE Step(f[k - 1], k)
      BY <1>6, <2>2 DEF Recursive
    <2> QED  BY <1>6, <2>3 DEF Recursive
  <1>8. Rec(w)
    <2> HIDE DEF Rec
    <2> QED  BY <1>7
  <1>9. w[0] = {id} /\ \A k \in 1..n : w[k] = Step(w[k - 1], k)
    <2> HIDE DEF w, Step
    <2>1. 0 \in 0..n /\ \A k \in 1..n : k \in 0..n /\ k # 0  BY <1>2
    <2>2. w[0] = {id}  BY <1>8, <2>1
    <2>3. \A k \in 1..n : w[k] = Step(w[k - 1], k)  BY <1>8, <2>1
    <2> QED  BY <2>2, <2>3
  <1>10. w \in [0..n -> S]
    <2> HIDE DEF w, Step
    <2>1. DOMAIN w = 0..n /\ w = [k \in 0..n |-> w[k]]  BY <1>8
    <2>2. w[0] \in S /\ \A k \in 1..n : w[k - 1] \in S => w[k] \in S  BY <1>1, <1>2, <1>9
    <2> QED  BY <1>2, <2>1, <2>2, Stays
  <1> HIDE DEF w
  <1>11. Spreading(w, g, id, along, n)  BY <1>9, <1>10 DEF Spreading, S
  <1> QED  BY <1>3, <1>4, <1>11 DEF n

LEMMA NeighborsShow ==
    ASSUME NEW g, Whole(g), NEW id \in Ids(g)
    PROVE  LET near == Neighbors(g, id, 1, DependencyTypes, "in")
           IN  near.truncated \/ Predecessors(Net(g), {id}) \subseteq near.nodes
  <1> DEFINE near == Neighbors(g, id, 1, DependencyTypes, "in")
             along == Along(g, DependencyTypes, "in")
  <1>1. AtMost(MaxDepth, 1) = 1 /\ 1 \in Nat  BY IntelligenceBounds DEF AtMost
  <1>2. PICK w : /\ Spreading(w, g, id, along, 1)
                 /\ near = Subgraph(g, <<id>> \o Sorted(w[1] \ {id}), GraphLimit)
    <2> HIDE DEF along
    <2>1. \E w : /\ Spreading(w, g, id, Along(g, DependencyTypes, "in"), AtMost(MaxDepth, 1))
                 /\ Neighbors(g, id, 1, DependencyTypes, "in") =
                        Subgraph(g, <<id>> \o Sorted(w[AtMost(MaxDepth, 1)] \ {id}), GraphLimit)
      BY <1>1, NeighborSteps
    <2> QED  BY <1>1, <2>1 DEF along
  <1>3. \A e \in Dependencies(g) : <<e.target, e.source>> \in along
    <2> DEFINE net == Ends({e \in g.edges : DependencyTypes = {} \/ e.type \in DependencyTypes})
    <2>1. along = Reversed(net)  BY DEF Along
    <2>2. ASSUME NEW e \in Dependencies(g) PROVE <<e.source, e.target>> \in net
      BY DEF Dependencies, Ends
    <2> HIDE DEF net
    <2>3. ASSUME NEW a, NEW b, <<a, b>> \in net PROVE <<b, a>> \in Reversed(net)
      BY <2>3 DEF Reversed
    <2> HIDE DEF along
    <2> QED  BY <2>1, <2>2, <2>3
  <1>4. w[1] = {id} \union Successors(along, {id}) /\ w[1] \subseteq Ids(g)
    <2>1. 1 \in 1..1 /\ 1 \in 0..1 /\ ~(1 > 1) /\ 1 - 1 = 0  OBVIOUS
    <2> HIDE DEF along
    <2> QED  BY <1>2, <2>1 DEF Spreading
  <1>5. Predecessors(Net(g), {id}) \subseteq w[1]
    <2> SUFFICES ASSUME NEW a \in Predecessors(Net(g), {id}) PROVE a \in Successors(along, {id})
      BY <1>4
    <2>1. \E x \in {id} : <<a, x>> \in Net(g)
      <3>1. Pairs(Net(g))  BY NetKnown
      <3> DEFINE ids == {id}
                 net == Net(g)
      <3> HIDE DEF ids, net
      <3>2. a \in Predecessors(net, ids) /\ Pairs(net)  BY <3>1 DEF ids, net
      <3>3. \E x \in ids : <<a, x>> \in net  BY <3>2, InSuccessors
      <3> QED  BY <3>3 DEF ids, net
    <2>2. <<a, id>> \in Net(g)  BY <2>1
    <2>3. PICK e \in Dependencies(g) : e.source = a /\ e.target = id  BY <2>2, NetKnown
    <2> HIDE DEF along
    <2>4. <<id, a>> \in along  BY <1>3, <2>3
    <2>5. <<id, a>>[1] \in {id} /\ <<id, a>>[2] = a  OBVIOUS
    <2> QED  BY <2>4, <2>5 DEF Successors
  <1> HIDE DEF near, along
  <1> DEFINE list == <<id>> \o Sorted(w[1] \ {id})
  <1>6. IsFiniteSet(w[1]) /\ id \in w[1]  BY <1>4, CountIds, FS_Subset DEF Whole
  <1>7. list \in Seq(Ids(g)) /\ ToSet(list) = w[1]
    <2>1. list \in Seq(Ids(g)) /\ ToSet(list) = w[1] \union {id}  BY <1>4, <1>6, SortedAfter
    <2> HIDE DEF list
    <2> QED  BY <1>6, <2>1
  <1> HIDE DEF list
  <1>8. near = Subgraph(g, list, GraphLimit)  BY <1>2 DEF list
  <1>9. near.truncated \/ near.nodes = ToSet(list) \intersect Ids(g)
    BY <1>7, <1>8, SubgraphShows, IntelligenceBounds
  <1>10. near.truncated \/ Predecessors(Net(g), {id}) \subseteq near.nodes
    BY <1>4, <1>5, <1>7, <1>9
  <1> QED  BY <1>10 DEF near

(* A dependency is between components, which are shown with it.            *)
LEMMA ArchitectureShows ==
    ASSUME NEW g, Whole(g), NEW e \in Dependencies(g),
           Component(NodeOf(g, e.source)) # Component(NodeOf(g, e.target)),
           ~Architecture(g).truncated
    PROVE  \E shown \in Architecture(g).edges :
                /\ shown.source = Component(NodeOf(g, e.source))
                /\ shown.target = Component(NodeOf(g, e.target))
  <1> DEFINE grouped == {n.id : n \in Grouped(g)}
             component == [id \in grouped |-> Component(NodeOf(g, id))]
             known == {d \in Dependencies(g) : {d.source, d.target} \subseteq DOMAIN component}
             across == {d \in known : component[d.source] # component[d.target]}
             components == {component[id] : id \in DOMAIN component}
             shown == ToSet(First(MaxComponents, Sorted(components)))
             evidence(a, b) == {d \in across : component[d.source] = a /\ component[d.target] = b}
             count(a, b) == Cardinality(evidence(a, b))
             firmness(a, b) == IF \A d \in evidence(a, b) : d.resolution = "resolved" THEN "resolved" ELSE "probable"
             drawn == {d \in across : {component[d.source], component[d.target]} \subseteq shown}
             relation(d) == [source |-> component[d.source], target |-> component[d.target],
                             count |-> count(component[d.source], component[d.target]),
                             resolution |-> firmness(component[d.source], component[d.target])]
  <1>1. Architecture(g).edges = {relation(d) : d \in drawn} /\ (Architecture(g).truncated <=> Cardinality(components) > MaxComponents)
    BY DEF Architecture
  <1>2. Linked(g, e) /\ e \in g.edges  BY DEF Dependencies, Whole
  <1>3. e.source \in Ids(g) /\ e.target \in Ids(g) /\ ~Missing(e.source) /\ ~Missing(e.target) /\ Code(e.source) /\ Code(e.target)
    <2>1. e.type # "CONTAINS" /\ e.resolution # "unresolved" /\ e.type \in DependencyTypes
      BY DEF Dependencies, DependencyTypes
    <2>2. e.source \in Firm(g) /\ e.target \in Ids(g) /\ e.resolution = Resolution(e.target, e.type)
          /\ Code(e.source) /\ Code(e.target) /\ (e.resolution = "probable" => ~Missing(e.target))
      BY <1>2, <2>1 DEF Linked
    <2>3. ~Missing(e.target)  BY <2>1, <2>2 DEF Resolution
    <2> QED  BY <2>2, <2>3 DEF Firm
  <1>4. ASSUME NEW id \in Ids(g), ~Missing(id), Code(id) PROVE id \in grouped
    <2>1. PICK n \in g.nodes : n.id = id  BY DEF Ids
    <2>2. Told(n)  BY DEF Whole
    <2>3. n \in Grouped(g)  BY <1>4, <2>1, <2>2 DEF Told, Grouped
    <2> QED  BY <2>1, <2>3
  <1>5. e.source \in grouped /\ e.target \in grouped  BY <1>3, <1>4
  <1>6. IsFiniteSet(grouped)
    <2>1. Grouped(g) \subseteq g.nodes /\ IsFiniteSet(g.nodes)  BY DEF Grouped, Whole, Graph
    <2>2. IsFiniteSet(Grouped(g))  BY <2>1, FS_Subset
    <2> DEFINE h == [n \in Grouped(g) |-> n.id]
    <2>3. Grouped(g) \subseteq DOMAIN h /\ \A x \in grouped : \E n \in Grouped(g) : x = h[n]
      OBVIOUS
    <2> HIDE DEF h, grouped
    <2> QED  BY <2>2, <2>3, FiniteBy
  <1> HIDE DEF grouped
  <1>7. IsFiniteSet(components)
    <2>2. grouped \subseteq DOMAIN component /\ \A x \in components : \E id \in grouped : x = component[id]
      OBVIOUS
    <2> HIDE DEF component, components
    <2> QED  BY <1>6, <2>2, FiniteBy
  <1>8. /\ component[e.source] = Component(NodeOf(g, e.source)) /\ component[e.target] = Component(NodeOf(g, e.target))
        /\ DOMAIN component = grouped  BY <1>5
  <1> HIDE DEF component
  <1>9. component[e.source] \in components /\ component[e.target] \in components /\ e \in across
    BY <1>5, <1>8
  <1> HIDE DEF components, across
  <1>10. shown = components
    <2>1. Sorted(components) \in Seq(components) /\ ToSet(Sorted(components)) = components
          /\ Len(Sorted(components)) = Cardinality(components)  BY <1>7, InSorted
    <2>2. Cardinality(components) \in Nat /\ MaxComponents \in Nat
      BY <1>7, FS_CardinalityType, IntelligenceBounds
    <2>3. Cardinality(components) <= MaxComponents  BY <1>1, <2>2
    <2> DEFINE all == Sorted(components)
    <2> HIDE DEF all
    <2>4. all \in Seq(components) /\ Len(all) <= MaxComponents /\ ToSet(all) = components
      BY <2>1, <2>3 DEF all
    <2>5. First(MaxComponents, all) = all  BY <2>2, <2>4, InFirst
    <2> QED  BY <2>4, <2>5 DEF all
  <1> HIDE DEF shown
  <1>11. e \in drawn  BY <1>9, <1>10
  <1> HIDE DEF drawn, count, firmness
  <1>12. relation(e) \in Architecture(g).edges
    <2> HIDE DEF relation
    <2> QED  BY <1>1, <1>11
  <1>13. relation(e).source = component[e.source] /\ relation(e).target = component[e.target]
    OBVIOUS
  <1> HIDE DEF relation
  <1> QED  BY <1>8, <1>12, <1>13

(* The queries agree on what depends on what, and hide nothing without     *)
(* saying so: traces and impacts find the same dependents, as far away as  *)
(* the paths between them are long; direct dependents are among the        *)
(* neighbours, and dependencies between modules in the architecture.       *)
THEOREM QueriesAgreeHolds == Spec => []QueriesAgree
  <1>1. ASSUME Versions PROVE QueriesAgree
    <2> DEFINE g == head.graph
               net == Net(g)
               visited == [id \in Ids(g) |-> Visited(g, id)]
               distances == [id \in Ids(g) |-> Distances(g, {id})]
               agrees(selected, impact) ==
                    /\ impact.dependents =
                            {a \in Ids(g) \ selected : selected \intersect visited[a] # {}}
                    /\ \A d \in DOMAIN impact.distances :
                        impact.distances[d] =
                            IF d \in selected THEN 0
                            ELSE 1 + Min({impact.distances[n] :
                                    n \in Successors(net, {d}) \intersect DOMAIN impact.distances})
                    /\ impact.direct \subseteq impact.dependents
                    /\ impact.graph.truncated \/ impact.dependents \subseteq impact.graph.nodes
               near(id) == Neighbors(g, id, 1, DependencyTypes, "in")
               architecture == Architecture(g)
               between(e) ==
                    \/ architecture.truncated
                    \/ Component(NodeOf(g, e.source)) = Component(NodeOf(g, e.target))
                    \/ \E shown \in architecture.edges :
                        /\ shown.source = Component(NodeOf(g, e.source))
                        /\ shown.target = Component(NodeOf(g, e.target))
    <2>1. Whole(g)  BY <1>1, VersionWhole DEF Versions
    <2>2. \A a, b \in Ids(g) :
            /\ b \in visited[a] <=> a \in DOMAIN distances[b]
            /\ b \in visited[a] /\ Cutoff < MaxPath => Path(g, a, b, TRUE) = distances[b][a]
      <3> SUFFICES ASSUME NEW a \in Ids(g), NEW b \in Ids(g)
                   PROVE  /\ b \in visited[a] <=> a \in DOMAIN distances[b]
                          /\ b \in visited[a] /\ Cutoff < MaxPath => Path(g, a, b, TRUE) = distances[b][a]
        OBVIOUS
      <3>1. visited[a] = Visited(g, a) /\ distances[b] = Distances(g, {b})  OBVIOUS
      <3> HIDE DEF visited, distances, g
      <3>2. /\ b \in Visited(g, a) <=> a \in DOMAIN Distances(g, {b})
            /\ b \in Visited(g, a) /\ Cutoff < MaxPath => Path(g, a, b, TRUE) = Distances(g, {b})[a]
        BY <2>1, TracesAgree
      <3> QED  BY <3>1, <3>2
    <2>3. \A id \in Ids(g) : agrees(Selected(g, id), Impact(g, id))
      <3> SUFFICES ASSUME NEW id \in Ids(g) PROVE agrees(Selected(g, id), Impact(g, id))  OBVIOUS
      <3> DEFINE selected == Selected(g, id)
                 impact == Impact(g, id)
      <3>1. \A a \in Ids(g) : visited[a] = Visited(g, a)  OBVIOUS
      <3> HIDE DEF visited, g
      <3>2. /\ impact.dependents = {a \in Ids(g) \ selected : selected \intersect Visited(g, a) # {}}
            /\ \A d \in DOMAIN impact.distances :
                impact.distances[d] =
                    IF d \in selected THEN 0
                    ELSE 1 + Min({impact.distances[n] :
                            n \in Successors(Net(g), {d}) \intersect DOMAIN impact.distances})
            /\ impact.direct \subseteq impact.dependents
            /\ impact.graph.truncated \/ impact.dependents \subseteq impact.graph.nodes
        BY <2>1, ImpactAgrees
      <3> HIDE DEF selected, impact
      <3>3. impact.dependents = {a \in Ids(g) \ selected : selected \intersect visited[a] # {}}
        BY <3>1, <3>2
      <3>4. agrees(selected, impact)  BY <3>2, <3>3
      <3> QED  BY <3>4 DEF selected, impact
    <2>4. \A id \in Ids(g) : near(id).truncated \/ Predecessors(net, {id}) \subseteq near(id).nodes
      <3> HIDE DEF g
      <3> QED  BY <2>1, NeighborsShow
    <2>5. \A e \in Dependencies(g) : between(e)
      <3> HIDE DEF g
      <3> QED  BY <2>1, ArchitectureShows
    <2> HIDE DEF agrees, near, between, visited, distances
    <2>6. \A id \in Ids(g) :
            /\ agrees(Selected(g, id), Impact(g, id))
            /\ near(id).truncated \/ Predecessors(net, {id}) \subseteq near(id).nodes  BY <2>3, <2>4
    <2> HIDE DEF g, net, architecture
    <2> QED  BY <2>2, <2>5, <2>6 DEF QueriesAgree, agrees, near, between, visited, distances, g, net, architecture
  <1> QED  BY <1>1, VersionsHold, PTL

-----------------------------------------------------------------------------
(* What a plan cites.                                                      *)

LEMMA Citing ==
    ASSUME NEW S, NEW list \in Seq(S), NEW id, id \in ToSet(list)
    PROVE  LET cited == First(MaxCited, Unique(list))
           IN  cited \in Seq(S) /\ cited # <<>> /\ ToSet(cited) \subseteq S
  <1> DEFINE unique == Unique(list)
             cited == First(MaxCited, unique)
  <1>1. unique \in Seq(S) /\ id \in ToSet(unique)  BY InUnique
  <1>2. unique # <<>>  BY <1>1, InNoList
  <1> HIDE DEF unique
  <1>3. MaxCited \in Nat /\ MaxCited # 0  BY PlannerBounds
  <1>4. cited \in Seq(S) /\ cited # <<>>  BY <1>1, <1>2, <1>3, InFirst
  <1>5. ToSet(cited) \subseteq S
    <2> HIDE DEF cited
    <2> QED  BY <1>4, InList
  <1> QED  BY <1>4, <1>5 DEF unique

LEMMA SortedIn ==
    ASSUME NEW S, NEW ids, ids \subseteq S, IsFiniteSet(ids)
    PROVE  Sorted(ids) \in Seq(S)
  BY InSorted

LEMMA Joined ==
    ASSUME NEW S, NEW a \in Seq(S), NEW b \in Seq(S)
    PROVE  a \o b \in Seq(S) /\ (\A x \in ToSet(a) \union ToSet(b) : x \in ToSet(a \o b))
  BY InLists

(* The target, what it affects and the data that is used there.            *)
Around(g, id) ==
    LET affected == Impact(g, id).dependents \union Selected(g, id)
    IN  affected \union DataOf(g, affected)

LEMMA ImpactAround ==
    ASSUME NEW g, Whole(g), NEW id \in Ids(g)
    PROVE  LET impact == Impact(g, id)
           IN  /\ id \in Around(g, id)
               /\ \A ids \in {impact.direct, impact.endpoints, impact.db, impact.graph.nodes} :
                    ids \subseteq Around(g, id) /\ IsFiniteSet(ids)
  <1> DEFINE impact == Impact(g, id)
             selected == Selected(g, id)
             affected == impact.dependents \union selected
  <1>1. /\ impact.dependents = DOMAIN Distances(g, selected) \ selected
        /\ impact.endpoints = {d \in impact.dependents : TypeOf(g, d) = "Endpoint"}
        /\ impact.db = DataOf(g, affected)  BY ImpactParts
  <1>2. id \in selected  BY SelectedKnown
  <1>3. IsFiniteSet(impact.dependents) /\ IsFiniteSet(impact.db)  BY <1>1, AffectedKnown
  <1>4. impact.direct \subseteq impact.dependents  BY ImpactAgrees
  <1>5. impact.graph.nodes \subseteq affected \union impact.db /\ IsFiniteSet(impact.graph.nodes)
    BY ImpactShown
  <1>6. Around(g, id) = affected \union impact.db  BY <1>1 DEF Around
  <1> HIDE DEF selected, impact
  <1>7. impact.endpoints \subseteq impact.dependents  BY <1>1
  <1>8. IsFiniteSet(impact.direct) /\ IsFiniteSet(impact.endpoints)  BY <1>3, <1>4, <1>7, FS_Subset
  <1> QED  BY <1>2, <1>3, <1>4, <1>5, <1>6, <1>7, <1>8 DEF impact

LEMMA EvidenceAround ==
    ASSUME NEW g, Whole(g), NEW id \in Ids(g)
    PROVE  EvidenceIds(id, Impact(g, id)) \in Seq(Around(g, id))
  <1> DEFINE impact == Impact(g, id)
             S == Around(g, id)
             a == Sorted(impact.direct)
             b == Sorted(impact.endpoints)
             c == Sorted(impact.db)
             d == Sorted(impact.graph.nodes)
             list == <<id>> \o a \o b \o c \o d
  <1>1. <<id>> \in Seq(S)  BY ImpactAround, InShortList
  <1>2. a \in Seq(S) /\ b \in Seq(S) /\ c \in Seq(S) /\ d \in Seq(S)  BY ImpactAround, SortedIn
  <1>3. EvidenceIds(id, impact) = First(MaxEvidence, Unique(list))  BY DEF EvidenceIds
  <1> HIDE DEF a, b, c, d, S, impact
  <1>4. list \in Seq(S)
    <2>1. <<id>> \o a \in Seq(S)  BY <1>1, <1>2, Joined
    <2>2. <<id>> \o a \o b \in Seq(S)  BY <2>1, <1>2, Joined
    <2>3. <<id>> \o a \o b \o c \in Seq(S)  BY <2>2, <1>2, Joined
    <2> QED  BY <2>3, <1>2, Joined
  <1> HIDE DEF list
  <1>5. Unique(list) \in Seq(S) /\ MaxEvidence \in Nat  BY <1>4, InUnique, PlannerBounds
  <1>6. First(MaxEvidence, Unique(list)) \in Seq(S)  BY <1>5, InFirst
  <1> QED  BY <1>3, <1>6 DEF S, impact

LEMMA FallbackAround ==
    ASSUME NEW g, Whole(g), NEW id \in Ids(g)
    PROVE  LET stages == FallbackStages(g, id, Impact(g, id), EvidenceIds(id, Impact(g, id)))
           IN  /\ Len(stages) >= 2
               /\ \A i \in DOMAIN stages : stages[i] # <<>> /\ ToSet(stages[i]) \subseteq Around(g, id)
  <1> DEFINE impact == Impact(g, id)
             evidence == EvidenceIds(id, impact)
             S == Around(g, id)
             known(ids, n) == First(n, Among(Sorted(ids), ToSet(evidence)))
             direct == known(impact.direct, 8)
             endpoints == known(impact.endpoints, 6)
             databases == known(impact.db, 6)
             tests == First(8, Among(evidence, {i \in ToSet(evidence) : NodeOf(g, i).file \in TestPaths}))
             cited(list) == First(MaxCited, Unique(list))
             one == <<id>>
             two == cited(one \o databases \o endpoints)
             three == cited(direct \o endpoints \o databases \o one)
             four == cited(tests \o endpoints \o databases \o one)
             middle == IF impact.dependents = {} THEN <<>> ELSE <<three>>
             stages == <<one, two>> \o middle \o <<four>>
             Good(stage) == stage # <<>> /\ ToSet(stage) \subseteq S
  <1>1. FallbackStages(g, id, impact, evidence) = stages  BY DEF FallbackStages
  <1>2. one \in Seq(S) /\ ToSet(one) = {id} /\ one # <<>>  BY ImpactAround, InShortList
  <1>3. evidence \in Seq(S)  BY EvidenceAround
  <1>4. \A ids \in {impact.direct, impact.endpoints, impact.db} : Sorted(ids) \in Seq(S)
    BY ImpactAround, SortedIn
  <1>5. \A n \in Nat : \A ids \in {impact.direct, impact.endpoints, impact.db} : known(ids, n) \in Seq(S)
    <2> SUFFICES ASSUME NEW n \in Nat, NEW ids \in {impact.direct, impact.endpoints, impact.db}
                 PROVE  known(ids, n) \in Seq(S)  OBVIOUS
    <2>1. Sorted(ids) \in Seq(S)  BY <1>4
    <2> HIDE DEF evidence, S, impact
    <2>2. Among(Sorted(ids), ToSet(evidence)) \in Seq(S)  BY <2>1, InAmong
    <2> QED  BY <2>2, InFirst
  <1>6. direct \in Seq(S) /\ endpoints \in Seq(S) /\ databases \in Seq(S)
    <2> HIDE DEF known
    <2> QED  BY <1>5
  <1>7. tests \in Seq(S)
    <2> DEFINE ids == {i \in ToSet(evidence) : NodeOf(g, i).file \in TestPaths}
    <2> HIDE DEF evidence, S, ids
    <2>1. Among(evidence, ids) \in Seq(S)  BY <1>3, InAmong
    <2>2. First(8, Among(evidence, ids)) \in Seq(S)  BY <2>1, InFirst
    <2> QED  BY <2>2 DEF ids
  <1> HIDE DEF direct, endpoints, databases, tests, S, one, evidence, impact
  <1>8. Good(two)
    <2> DEFINE list == one \o databases \o endpoints
    <2>1. one \o databases \in Seq(S) /\ id \in ToSet(one \o databases)  BY <1>2, <1>6, Joined
    <2>2. list \in Seq(S) /\ id \in ToSet(list)  BY <1>6, <2>1, Joined
    <2> HIDE DEF list
    <2>3. Good(First(MaxCited, Unique(list)))  BY <2>2, Citing
    <2> QED  BY <2>3 DEF list
  <1>9. Good(three)
    <2> DEFINE list == direct \o endpoints \o databases \o one
    <2>1. direct \o endpoints \in Seq(S)  BY <1>6, Joined
    <2>2. direct \o endpoints \o databases \in Seq(S)  BY <1>6, <2>1, Joined
    <2>3. list \in Seq(S) /\ id \in ToSet(list)  BY <1>2, <2>2, Joined
    <2> HIDE DEF list
    <2>4. Good(First(MaxCited, Unique(list)))  BY <2>3, Citing
    <2> QED  BY <2>4 DEF list
  <1>10. Good(four)
    <2> DEFINE list == tests \o endpoints \o databases \o one
    <2>1. tests \o endpoints \in Seq(S)  BY <1>6, <1>7, Joined
    <2>2. tests \o endpoints \o databases \in Seq(S)  BY <1>6, <2>1, Joined
    <2>3. list \in Seq(S) /\ id \in ToSet(list)  BY <1>2, <2>2, Joined
    <2> HIDE DEF list
    <2>4. Good(First(MaxCited, Unique(list)))  BY <2>3, Citing
    <2> QED  BY <2>4 DEF list
  <1>11. Good(one)  BY <1>2, InList
  <1> HIDE DEF two, three, four
  <1>12. Len(stages) >= 2 /\ \A i \in DOMAIN stages : Good(stages[i])
    <2> DEFINE T == {one, two, three, four}
               first == <<one, two>>
               last == <<four>>
    <2>1. first \in Seq(T) /\ Len(first) = 2  OBVIOUS
    <2>2. last \in Seq(T) /\ Len(last) = 1  OBVIOUS
    <2>3. middle \in Seq(T) /\ Len(middle) \in Nat
      <3>1. <<three>> \in Seq(T) /\ Len(<<three>>) = 1  OBVIOUS
      <3>2. <<>> \in Seq(T) /\ Len(<<>>) = 0  OBVIOUS
      <3> HIDE DEF T
      <3> QED  BY <3>1, <3>2
    <2>4. \A stage \in T : Good(stage)
      <3> HIDE DEF Good
      <3> QED  BY <1>8, <1>9, <1>10, <1>11
    <2> HIDE DEF first, middle, last, T, Good
    <2>5. first \o middle \in Seq(T) /\ Len(first \o middle) = 2 + Len(middle)
      BY <2>1, <2>3, InLists
    <2>6. stages \in Seq(T) /\ Len(stages) = 2 + Len(middle) + 1
      BY <2>2, <2>5, InLists DEF first, last
    <2> HIDE DEF stages
    <2>7. Len(stages) >= 2  BY <2>3, <2>6
    <2>8. \A i \in DOMAIN stages : stages[i] \in T  BY <2>6
    <2> QED  BY <2>4, <2>7, <2>8
  <1> HIDE DEF stages
  <1> QED  BY <1>1, <1>12 DEF Good, S, evidence, impact

LEMMA PlanAround ==
    ASSUME NEW g, Whole(g), NEW id \in Ids(g), NEW reply
    PROVE  LET plan == Plan(g, id, reply)
           IN  /\ Len(plan.stages) >= 2
               /\ \A i \in DOMAIN plan.stages :
                    plan.stages[i] # <<>> /\ ToSet(plan.stages[i]) \subseteq Around(g, id)
  <1> DEFINE impact == Impact(g, id)
             evidence == EvidenceIds(id, impact)
             stages == Plan(g, id, reply).stages
             fallback == FallbackStages(g, id, impact, evidence)
  <1>1. stages = IF Accepted(reply, evidence) THEN reply.stages ELSE fallback  BY DEF Plan
  <1>2. ToSet(evidence) \subseteq Around(g, id)
    <2>1. evidence \in Seq(Around(g, id))  BY EvidenceAround
    <2> HIDE DEF evidence
    <2> QED  BY <2>1, InList
  <1>3. /\ Len(fallback) >= 2
        /\ \A i \in DOMAIN fallback : fallback[i] # <<>> /\ ToSet(fallback[i]) \subseteq Around(g, id)
    BY FallbackAround
  <1> HIDE DEF evidence, impact, stages, fallback
  <1>4. CASE Accepted(reply, evidence)
    <2> DEFINE said == reply.stages
    <2>1. /\ Len(said) \in 2..6
          /\ \A i \in DOMAIN said : Len(said[i]) \in 1..MaxCited /\ ToSet(said[i]) \subseteq ToSet(evidence)
          /\ stages = said  BY <1>1, <1>4 DEF Accepted
    <2> HIDE DEF said
    <2>2. Len(stages) >= 2  BY <2>1
    <2>3. \A i \in DOMAIN stages : stages[i] # <<>> /\ ToSet(stages[i]) \subseteq Around(g, id)
      <3>1. \A i \in DOMAIN stages : Len(stages[i]) # 0
        <4>1. 0 \notin 1..MaxCited  BY PlannerBounds
        <4> QED  BY <2>1, <4>1
      <3>2. Len(<<>>) = 0  OBVIOUS
      <3> QED  BY <1>2, <2>1, <3>1, <3>2
    <2> QED  BY <2>2, <2>3 DEF stages
  <1>5. CASE ~Accepted(reply, evidence)  BY <1>1, <1>3, <1>5 DEF stages
  <1> QED  BY <1>4, <1>5

(* Whatever the model replies, and whatever it may reply at all, a plan    *)
(* has two stages or more, and each cites something: the target, its       *)
(* members, what depends on these or the databases that any of these use.  *)
THEOREM PlanGroundedHolds == Spec => []PlanGrounded
  <1>1. ASSUME Versions PROVE PlanGrounded
    <2> DEFINE g == head.graph
               visited == [a \in Ids(g) |-> Visited(g, a)]
               related(id) == Selected(g, id) \union {a \in Ids(g) : Selected(g, id) \intersect visited[a] # {}}
               databases(id) == {e.target : e \in {d \in g.edges :
                                    d.source \in related(id) /\ d.type \in {"READS_FROM", "WRITES_TO"}}}
               grounded(id, reply) ==
                    /\ Len(Plan(g, id, reply).stages) >= 2
                    /\ \A i \in DOMAIN Plan(g, id, reply).stages :
                        /\ Plan(g, id, reply).stages[i] # <<>>
                        /\ ToSet(Plan(g, id, reply).stages[i]) \subseteq related(id) \union databases(id)
    <2>1. Whole(g)  BY <1>1, VersionWhole DEF Versions
    <2>2. ASSUME NEW id \in Ids(g) PROVE Around(g, id) = related(id) \union databases(id)
      <3> DEFINE affected == Impact(g, id).dependents \union Selected(g, id)
                 selected == Selected(g, id)
      <3>1. \A a \in Ids(g) : visited[a] = Visited(g, a)  OBVIOUS
      <3> HIDE DEF visited, g
      <3>2. Impact(g, id).dependents = {a \in Ids(g) \ selected : selected \intersect Visited(g, a) # {}}
        BY <2>1, <2>2, ImpactAgrees
      <3>3. \A x : x \in affected <=> x \in related(id)  BY <3>1, <3>2
      <3> HIDE DEF affected, related
      <3>4. affected = related(id)  BY <3>3, SameSet
      <3>5. databases(id) = DataOf(g, related(id))  BY DEF DataOf
      <3>6. Around(g, id) = affected \union DataOf(g, affected)  BY DEF Around, affected
      <3> QED  BY <3>4, <3>5, <3>6
    <2>3. \A id \in Ids(g) : \A reply \in Replies(g, id) : grounded(id, reply)
      <3> SUFFICES ASSUME NEW id \in Ids(g), NEW reply PROVE grounded(id, reply)  OBVIOUS
      <3> HIDE DEF related, databases, g
      <3> QED  BY <2>1, <2>2, PlanAround
    <2> HIDE DEF grounded
    <2>4. PlanGrounded
      <3> HIDE DEF g
      <3> QED  BY <2>3 DEF PlanGrounded, grounded, related, databases, visited, g
    <2> QED  BY <2>4
  <1> QED  BY <1>1, VersionsHold, PTL

-----------------------------------------------------------------------------
(* Cycles.                                                                 *)

(* What only shrinks has settled after as many steps as it has elements.   *)
LEMMA Settles ==
    ASSUME NEW S, IsFiniteSet(S), NEW F \in [SUBSET S -> SUBSET S], \A T \in SUBSET S : F[T] \subseteq T,
           NEW A, A[0] \in SUBSET S,
           \A k \in 0..(Cardinality(S) - 1) : A[k + 1] = F[A[k]]
    PROVE  LET n == Cardinality(S)
           IN  /\ \A k \in 0..n : A[k] \in SUBSET S
               /\ F[A[n]] = A[n]
  <1> DEFINE n == Cardinality(S)
             good == {k \in Nat : k <= n => A[k] \in SUBSET S /\ (F[A[k]] = A[k] \/ Cardinality(A[k]) <= n - k)}
  <1>1. n \in Nat  BY FS_CardinalityType
  <1>2. \A T \in SUBSET S : IsFiniteSet(T) /\ Cardinality(T) \in Nat /\ Cardinality(T) <= n
    BY FS_Subset, FS_CardinalityType
  <1>3. 0 \in good  BY <1>1, <1>2
  <1>4. ASSUME NEW k \in Nat, k \in good PROVE k + 1 \in good
    <2> SUFFICES ASSUME k + 1 <= n
                 PROVE  A[k + 1] \in SUBSET S /\ (F[A[k + 1]] = A[k + 1] \/ Cardinality(A[k + 1]) <= n - (k + 1))
      OBVIOUS
    <2>1. k <= n /\ k \in 0..(n - 1)  BY <1>1
    <2>2. A[k] \in SUBSET S /\ (F[A[k]] = A[k] \/ Cardinality(A[k]) <= n - k)  BY <1>4, <2>1
    <2>3. A[k + 1] = F[A[k]]  BY <2>1
    <2>4. A[k + 1] \in SUBSET S /\ A[k + 1] \subseteq A[k]  BY <2>2, <2>3
    <2>5. CASE F[A[k]] = A[k]  BY <2>3, <2>4, <2>5
    <2>6. CASE F[A[k]] # A[k]
      <3> DEFINE a == A[k]
                 b == A[k + 1]
      <3>1. b \subseteq a /\ b # a /\ a \in SUBSET S /\ b \in SUBSET S  BY <2>2, <2>3, <2>4, <2>6
      <3>2. IsFiniteSet(a)  BY <1>2, <3>1
      <3> HIDE DEF a, b
      <3>3. Cardinality(b) <= Cardinality(a) /\ Cardinality(a) # Cardinality(b)
        BY <3>1, <3>2, FS_Subset
      <3>4. Cardinality(a) \in Nat /\ Cardinality(b) \in Nat  BY <1>2, <3>1
      <3>5. Cardinality(a) <= n - k  BY <2>2, <2>6 DEF a
      <3> HIDE DEF n
      <3>6. Cardinality(b) <= n - (k + 1)  BY <1>1, <3>3, <3>4, <3>5
      <3> QED  BY <2>4, <3>6 DEF b
    <2> QED  BY <2>5, <2>6
  <1>5. Nat \subseteq good
    <2> HIDE DEF good
    <2> QED  BY <1>3, <1>4, Induction
  <1>6. \A k \in 0..n : k \in good /\ k <= n  BY <1>1, <1>5
  <1>7. \A k \in 0..n : A[k] \in SUBSET S  BY <1>6
  <1>8. n \in 0..n  BY <1>1
  <1>9. F[A[n]] = A[n] \/ Cardinality(A[n]) <= n - n
    <2> HIDE DEF n
    <2> QED  BY <1>6, <1>8
  <1>10. CASE Cardinality(A[n]) <= n - n
    <2> DEFINE a == A[n]
    <2>1. a \in SUBSET S  BY <1>7, <1>8
    <2>2. IsFiniteSet(a) /\ Cardinality(a) \in Nat  BY <1>2, <2>1
    <2>3. Cardinality(a) = 0
      <3> HIDE DEF n
      <3> QED  BY <1>1, <1>10, <2>2 DEF a
    <2> HIDE DEF a
    <2>4. a = {}  BY <2>2, <2>3, FS_EmptySet
    <2>5. F[a] \subseteq a  BY <2>1
    <2> QED  BY <1>7, <2>4, <2>5 DEF a
  <1> QED  BY <1>7, <1>9, <1>10

(* There is a path.                                                        *)
Leads(net, a, b) == \E k \in Nat : Near(net, k, a, b)

LEMMA LeadsSteps ==
    ASSUME NEW net, Pairs(net)
    PROVE  /\ \A a : Leads(net, a, a)
           /\ \A a, b : <<a, b>> \in net => Leads(net, a, b)
           /\ \A a, b, c : Leads(net, a, b) /\ Leads(net, b, c) => Leads(net, a, c)
  <1>1. ASSUME NEW a PROVE Near(net, 0, a, a)  BY NearSteps
  <1>2. ASSUME NEW a, NEW b, <<a, b>> \in net PROVE Near(net, 1, a, b)  BY <1>2, NearSteps
  <1>3. ASSUME NEW a, NEW b, NEW c, Leads(net, a, b), Leads(net, b, c) PROVE Leads(net, a, c)
    <2>1. PICK j \in Nat : Near(net, j, a, b)  BY <1>3 DEF Leads
    <2>2. PICK k \in Nat : Near(net, k, b, c)  BY <1>3 DEF Leads
    <2>3. j + k \in Nat /\ Near(net, j + k, a, c)  BY <2>1, <2>2, NearJoined
    <2> QED  BY <2>3 DEF Leads
  <1>4. 0 \in Nat /\ 1 \in Nat  OBVIOUS
  <1> QED  BY <1>1, <1>2, <1>3, <1>4 DEF Leads

(* A path of a hop or more has a first and a last one.                     *)
LEMMA LeadsFar ==
    ASSUME NEW net, Pairs(net), NEW a, NEW b, Leads(net, a, b), a # b
    PROVE  /\ \E c : <<a, c>> \in net /\ Leads(net, c, b)
           /\ \E c : Leads(net, a, c) /\ <<c, b>> \in net
  <1> DEFINE T == {k \in Nat : Near(net, k, a, b)}
  <1>1. T \subseteq Nat /\ T # {}  BY DEF Leads
  <1>2. PICK d \in T : \A k \in T : d <= k
    <2> HIDE DEF T
    <2> QED  BY <1>1, LeastElement
  <1>3. d \in Nat /\ Near(net, d, a, b)  OBVIOUS
  <1>4. d # 0  BY <1>3, NearSteps
  <1> DEFINE k == d - 1
  <1>5. k \in Nat /\ d = k + 1 /\ ~(d <= k)  BY <1>3, <1>4
  <1>6. ~Near(net, k, a, b)  BY <1>2, <1>5
  <1> HIDE DEF k, T
  <1>7. Near(net, k + 1, a, b)  BY <1>3, <1>5
  <1>8. PICK c : <<a, c>> \in net /\ Near(net, k, c, b)  BY <1>5, <1>6, <1>7, FirstHop
  <1>9. PICK e : Near(net, k, a, e) /\ <<e, b>> \in net  BY <1>5, <1>6, <1>7, NearSteps
  <1> QED  BY <1>5, <1>8, <1>9 DEF Leads

(* The nodes that a cycle can have.                                        *)
Inner(net) == {e[1] : e \in net} \intersect {e[2] : e \in net}

LEMMA InInner ==
    ASSUME NEW net, Pairs(net), NEW a
    PROVE  a \in Inner(net) <=> (\E b : <<a, b>> \in net) /\ (\E b : <<b, a>> \in net)
  <1>1. \A e \in net : e = <<e[1], e[2]>>  BY DEF Pairs
  <1>2. ASSUME NEW e \in net PROVE <<e[1], e[2]>> \in net  BY <1>1
  <1>3. ASSUME a \in {e[1] : e \in net} PROVE \E b : <<a, b>> \in net  BY <1>2, <1>3
  <1>4. ASSUME a \in {e[2] : e \in net} PROVE \E b : <<b, a>> \in net  BY <1>2, <1>4
  <1>5. ASSUME NEW b, <<a, b>> \in net PROVE a \in {e[1] : e \in net}  BY <1>5
  <1>6. ASSUME NEW b, <<b, a>> \in net PROVE a \in {e[2] : e \in net}  BY <1>6
  <1> QED  BY <1>3, <1>4, <1>5, <1>6 DEF Inner

(* Where paths from a node only go by way of a set of nodes, they need     *)
(* have no more hops than there are nodes in the set.                      *)
LEMMA NearEnough ==
    ASSUME NEW net, Pairs(net), NEW S, IsFiniteSet(S), NEW a \in S, NEW b \in S, Leads(net, a, b),
           \A c : Leads(net, a, c) /\ (\E x : <<c, x>> \in net) => c \in S
    PROVE  Near(net, Cardinality(S), a, b)
  <1> DEFINE n == Cardinality(S)
             F == [T \in SUBSET S |-> {x \in T : \A c \in S \ T : <<c, x>> \notin net}]
             A == [k \in Nat |-> {x \in S : ~Near(net, k, a, x)}]
  <1>1. n \in Nat  BY FS_CardinalityType
  <1>2. F \in [SUBSET S -> SUBSET S] /\ \A T \in SUBSET S : F[T] \subseteq T  OBVIOUS
  <1>3. \A k \in Nat : A[k] \in SUBSET S  OBVIOUS
  <1>4. \A c : Leads(net, a, c) /\ (\E x : <<c, x>> \in net) => c \in S  OBVIOUS
  <1>5. ASSUME NEW k \in Nat, NEW x \in S
        PROVE  Near(net, k + 1, a, x) <=> Near(net, k, a, x) \/ \E c \in S : Near(net, k, a, c) /\ <<c, x>> \in net
    <2>1. Near(net, k + 1, a, x) <=> Near(net, k, a, x) \/ \E c : Near(net, k, a, c) /\ <<c, x>> \in net
      <3> HIDE DEF n, F, A
      <3>1. \A j \in Nat : \A y : Near(net, j + 1, a, y) <=>
                Near(net, j, a, y) \/ \E c : Near(net, j, a, c) /\ <<c, y>> \in net
        BY NearSteps
      <3> QED  BY <3>1
    <2>2. ASSUME NEW c, Near(net, k, a, c), <<c, x>> \in net PROVE c \in S  BY <1>4, <2>2 DEF Leads
    <2> QED  BY <2>1, <2>2
  <1>6. ASSUME NEW k \in Nat PROVE A[k + 1] = F[A[k]]
    <2>1. k + 1 \in Nat /\ A[k] \in SUBSET S  BY <1>3
    <2>2. A[k + 1] = {x \in S : ~Near(net, k + 1, a, x)} /\ A[k] = {x \in S : ~Near(net, k, a, x)}
      BY <2>1
    <2> HIDE DEF A
    <2>3. F[A[k]] = {x \in A[k] : \A c \in S \ A[k] : <<c, x>> \notin net}  BY <2>1
    <2> HIDE DEF F
    <2> QED  BY <1>5, <2>2, <2>3
  <1>7. F[A[n]] = A[n]
    <2>1. IsFiniteSet(S) /\ A[0] \in SUBSET S /\ \A k \in 0..(Cardinality(S) - 1) : A[k + 1] = F[A[k]]
      <3>1. 0 \in Nat /\ \A k \in 0..(Cardinality(S) - 1) : k \in Nat  BY <1>1
      <3> HIDE DEF A, F
      <3> QED  BY <1>3, <1>6, <3>1
    <2> HIDE DEF A, F
    <2> QED  BY <1>2, <2>1, Settles
  <1> DEFINE good == {k \in Nat : \A x \in S : Near(net, k, a, x) => Near(net, n, a, x)}
  <1>8. A[n] = {x \in S : ~Near(net, n, a, x)}  BY <1>1
  <1>9. ASSUME NEW x \in S, NEW c \in S, Near(net, n, a, c), <<c, x>> \in net PROVE Near(net, n, a, x)
    <2>1. A[n] \in SUBSET S  BY <1>1, <1>3
    <2> HIDE DEF A
    <2>2. F[A[n]] = {y \in A[n] : \A d \in S \ A[n] : <<d, y>> \notin net}  BY <2>1
    <2> HIDE DEF F, n
    <2>3. c \in S \ A[n]  BY <1>8, <1>9
    <2>4. x \notin A[n]  BY <1>7, <1>9, <2>2, <2>3
    <2> QED  BY <1>8, <1>9, <2>4
  <1>10. 0 \in good
    <2>1. Near(net, n, a, a)
      <3>1. Near(net, 0, a, a) /\ 0 \in Nat /\ 0 <= n  BY <1>1, NearSteps
      <3> HIDE DEF n
      <3> QED  BY <1>1, <3>1, NearMore
    <2>2. \A x : Near(net, 0, a, x) => x = a  BY NearSteps
    <2> QED  BY <2>1, <2>2
  <1>11. ASSUME NEW k \in Nat, k \in good PROVE k + 1 \in good
    <2> SUFFICES ASSUME NEW x \in S, Near(net, k + 1, a, x) PROVE Near(net, n, a, x)  OBVIOUS
    <2> HIDE DEF n
    <2> QED  BY <1>5, <1>9, <1>11
  <1>12. Nat \subseteq good
    <2> HIDE DEF good
    <2> QED  BY <1>10, <1>11, Induction
  <1>13. PICK k \in Nat : Near(net, k, a, b)  BY DEF Leads
  <1>14. k \in good
    <2> HIDE DEF good
    <2> QED  BY <1>12
  <1> QED  BY <1>13, <1>14

(* Between the nodes of cycles, no more than there are of these.           *)
LEMMA InnerNear ==
    ASSUME NEW net, Pairs(net), IsFiniteSet(Inner(net)), NEW a \in Inner(net), NEW b \in Inner(net), Leads(net, a, b)
    PROVE  Near(net, Cardinality(Inner(net)), a, b)
  <1>1. ASSUME NEW c, Leads(net, a, c), \E x : <<c, x>> \in net PROVE c \in Inner(net)
    <2>1. c = a \/ \E e : <<e, c>> \in net  BY <1>1, LeadsFar
    <2> QED  BY <1>1, <2>1, InInner
  <1> QED  BY <1>1, NearEnough

(* The nodes on cycles with a node.                                        *)
Mates(net, a) == {b \in Inner(net) : Leads(net, a, b) /\ Leads(net, b, a)}

OnCycle(net) == {a \in Inner(net) : Cardinality(Mates(net, a)) > 1 \/ <<a, a>> \in net}

LEMMA ComponentsAre ==
    ASSUME NEW net, Pairs(net), IsFiniteSet(Inner(net))
    PROVE  CyclicComponents(net) = {Mates(net, a) : a \in OnCycle(net)}
  <1> DEFINE inner == {e[1] : e \in net} \intersect {e[2] : e \in net}
             n == Cardinality(inner)
             after == [id \in inner |-> Within(net, id, n)[n]]
             component(a) == {b \in inner : b \in after[a] /\ a \in after[b]}
             cyclic == {b \in inner : Cardinality(component(b)) > 1 \/ <<b, b>> \in net}
  <1>1. CyclicComponents(net) = {component(a) : a \in cyclic}  BY DEF CyclicComponents
  <1>2. inner = Inner(net) /\ n = Cardinality(Inner(net))  BY DEF Inner
  <1>3. n \in Nat  BY <1>2, FS_CardinalityType
  <1> HIDE DEF inner, n
  <1>4. \A a \in inner : \A b : b \in after[a] <=> Near(net, n, a, b)  BY DEF Near
  <1> HIDE DEF after
  <1>5. ASSUME NEW a \in inner, NEW b \in inner PROVE b \in after[a] <=> Leads(net, a, b)
    <2>1. Near(net, n, a, b) => Leads(net, a, b)  BY <1>3 DEF Leads
    <2>2. Leads(net, a, b) => Near(net, n, a, b)  BY <1>2, InnerNear
    <2> QED  BY <1>4, <2>1, <2>2
  <1>6. ASSUME NEW a \in inner PROVE component(a) = Mates(net, a)  BY <1>2, <1>5 DEF Mates
  <1> HIDE DEF component
  <1>7. \A a : a \in cyclic <=> a \in OnCycle(net)  BY <1>2, <1>6 DEF OnCycle
  <1>8. cyclic \subseteq inner  OBVIOUS
  <1> HIDE DEF cyclic
  <1>9. \A a \in cyclic : component(a) = Mates(net, a)  BY <1>6, <1>8
  <1>10. cyclic = OnCycle(net)  BY <1>7, SameSet
  <1> QED  BY <1>1, <1>9, <1>10

LEMMA ComponentsFinite ==
    ASSUME NEW net, Pairs(net), IsFiniteSet(Inner(net))
    PROVE  IsFiniteSet(CyclicComponents(net))
  <1> DEFINE h == [a \in Inner(net) |-> Mates(net, a)]
             S == Inner(net)
  <1>1. OnCycle(net) \subseteq S  BY DEF OnCycle
  <1>2. \A x \in CyclicComponents(net) : \E a \in S : x = h[a]  BY <1>1, ComponentsAre
  <1>3. S \subseteq DOMAIN h  OBVIOUS
  <1> HIDE DEF h, S
  <1>4. IsFiniteSet(S)  BY DEF S
  <1> QED  BY <1>2, <1>3, <1>4, FiniteBy

(* Each node of a component has an edge to one of it.                      *)
LEMMA ComponentFollowed ==
    ASSUME NEW net, Pairs(net), IsFiniteSet(Inner(net)), NEW c \in CyclicComponents(net)
    PROVE  /\ c # {} /\ c \subseteq Inner(net)
           /\ \A x \in c : \E y \in c : <<x, y>> \in net
  <1>1. PICK a \in OnCycle(net) : c = Mates(net, a)  BY ComponentsAre
  <1>2. a \in Inner(net)  BY DEF OnCycle
  <1>3. Leads(net, a, a)  BY LeadsSteps
  <1>4. a \in c /\ c \subseteq Inner(net)  BY <1>1, <1>2, <1>3 DEF Mates
  <1>5. ASSUME NEW x \in c, NEW y \in c, x # y PROVE \E z \in c : <<x, z>> \in net
    <2>1. Leads(net, a, x) /\ Leads(net, y, a) /\ Leads(net, x, a) /\ Leads(net, a, y) /\ y \in Inner(net)
      BY <1>1 DEF Mates
    <2>2. Leads(net, x, y)  BY <2>1, LeadsSteps
    <2>3. PICK z : <<x, z>> \in net /\ Leads(net, z, y)  BY <1>5, <2>2, LeadsFar
    <2>4. Leads(net, x, z)  BY <2>3, LeadsSteps
    <2>5. Leads(net, a, z) /\ Leads(net, z, a)  BY <2>1, <2>3, <2>4, LeadsSteps
    <2>6. z = y \/ \E e : <<z, e>> \in net  BY <2>3, LeadsFar
    <2>7. z \in Inner(net)  BY <2>1, <2>3, <2>6, InInner
    <2> QED  BY <1>1, <2>3, <2>5, <2>7 DEF Mates
  <1>6. ASSUME NEW x \in c PROVE \E y \in c : <<x, y>> \in net
    <2>1. CASE \E y \in c : x # y  BY <1>5, <2>1
    <2>2. CASE \A y \in c : x = y
      <3>1. c = {x} /\ x = a  BY <1>4, <2>2
      <3>2. Cardinality(c) = 1  BY <3>1, FS_Singleton
      <3>3. <<a, a>> \in net  BY <1>1, <3>2 DEF OnCycle
      <3> QED  BY <3>1, <3>3
    <2> QED  BY <2>1, <2>2
  <1> QED  BY <1>4, <1>6

(* Where each has an edge to another, some are on a cycle: the one that    *)
(* leads to fewest others is.                                              *)
LEMMA CycleFound ==
    ASSUME NEW net, Pairs(net), NEW V, IsFiniteSet(V), \A a, b : <<a, b>> \in net => a \in V /\ b \in V,
           NEW C, C \subseteq V, C # {}, \A a \in C : \E b \in C : <<a, b>> \in net
    PROVE  CyclicComponents(net) # {}
  <1> DEFINE from == [a \in V |-> {b \in V : Leads(net, a, b)}]
             T == {Cardinality(from[a]) : a \in C}
  <1>1. \A a \in V : from[a] \subseteq V /\ \A b : b \in from[a] <=> b \in V /\ Leads(net, a, b)
    OBVIOUS
  <1> HIDE DEF from
  <1>2. \A a \in V : IsFiniteSet(from[a]) /\ Cardinality(from[a]) \in Nat
    BY <1>1, FS_Subset, FS_CardinalityType
  <1>3. T \subseteq Nat /\ T # {}  BY <1>2
  <1>4. PICK least \in T : \A x \in T : least <= x
    <2> HIDE DEF T
    <2> QED  BY <1>3, LeastElement
  <1>5. PICK a \in C : least = Cardinality(from[a])  OBVIOUS
  <1>6. PICK b \in C : <<a, b>> \in net  OBVIOUS
  <1>7. a \in V /\ b \in V  OBVIOUS
  <1>8. from[b] \subseteq from[a]
    <2> SUFFICES ASSUME NEW x \in from[b] PROVE x \in from[a]  OBVIOUS
    <2>1. x \in V /\ Leads(net, b, x)  BY <1>1, <1>7
    <2>2. Leads(net, a, b)  BY <1>6, LeadsSteps
    <2>3. Leads(net, a, x)  BY <2>1, <2>2, LeadsSteps
    <2> QED  BY <1>1, <1>7, <2>1, <2>3
  <1>9. Cardinality(from[a]) <= Cardinality(from[b])  BY <1>4, <1>5
  <1>10. from[b] = from[a]
    <2> DEFINE p == from[a]
               q == from[b]
    <2>1. IsFiniteSet(p) /\ q \in SUBSET p /\ Cardinality(p) \in Nat /\ Cardinality(q) \in Nat
      BY <1>2, <1>7, <1>8
    <2>2. Cardinality(p) <= Cardinality(q)  BY <1>9
    <2> HIDE DEF p, q
    <2>3. Cardinality(q) <= Cardinality(p) /\ (Cardinality(p) = Cardinality(q) => p = q)
      BY <2>1, FS_Subset
    <2>4. p = q  BY <2>1, <2>2, <2>3
    <2> QED  BY <2>4 DEF p, q
  <1>11. Leads(net, b, a) /\ Leads(net, a, b)
    <2>1. Leads(net, a, a)  BY LeadsSteps
    <2>2. a \in from[b]  BY <1>1, <1>7, <1>10, <2>1
    <2> QED  BY <1>1, <1>6, <1>7, <2>2, LeadsSteps
  <1>12. \E x : <<x, a>> \in net
    <2>1. CASE a = b  BY <1>6, <2>1
    <2>2. CASE a # b  BY <1>11, <2>2, LeadsFar
    <2> QED  BY <2>1, <2>2
  <1>13. a \in Inner(net) /\ b \in Inner(net)
    <2>1. \E x : <<b, x>> \in net  OBVIOUS
    <2> QED  BY <1>6, <1>12, <2>1, InInner
  <1>14. Inner(net) \subseteq V  BY InInner
  <1>15. IsFiniteSet(Inner(net))  BY <1>14, FS_Subset
  <1>16. a \in OnCycle(net)
    <2>1. CASE a = b  BY <1>6, <1>13, <2>1 DEF OnCycle
    <2>2. CASE a # b
      <3> DEFINE mates == Mates(net, a)
      <3>1. Leads(net, a, a)  BY LeadsSteps
      <3>2. {a, b} \subseteq mates /\ mates \subseteq Inner(net)  BY <1>11, <1>13, <3>1 DEF Mates
      <3> HIDE DEF mates
      <3>3. IsFiniteSet(mates)  BY <1>15, <3>2, FS_Subset
      <3>4. Cardinality(mates) \in Nat /\ Cardinality(mates) # 0 /\ Cardinality(mates) # 1
        <4>1. mates # {} /\ ~\E x : mates = {x}  BY <2>2, <3>2
        <4> QED  BY <3>3, <4>1, FS_CardinalityType, FS_EmptySet, FS_Singleton
      <3>5. Cardinality(mates) > 1  BY <3>4
      <3> QED  BY <1>13, <3>5 DEF OnCycle, mates
    <2> QED  BY <2>1, <2>2
  <1> QED  BY <1>15, <1>16, ComponentsAre

-----------------------------------------------------------------------------
(* What a policy decides.                                                  *)

NetFinite(g) == Pairs(Net(g)) /\ IsFiniteSet(Inner(Net(g)))

LEMMA InnerFinite ==
    ASSUME NEW g, Whole(g)
    PROVE  NetFinite(g) /\ Inner(Net(g)) \subseteq Ids(g)
  <1>1. Pairs(Net(g)) /\ \A a, b : <<a, b>> \in Net(g) => a \in Ids(g) /\ b \in Ids(g)  BY NetKnown
  <1>2. Inner(Net(g)) \subseteq Ids(g)  BY <1>1, InInner
  <1>3. IsFiniteSet(Ids(g))  BY CountIds DEF Whole
  <1> QED  BY <1>1, <1>2, <1>3, FS_Subset DEF NetFinite

(* The nodes without what is not followed by one of them, again and again. *)
Cyclic(g) ==
    LET n == Cardinality(g.nodes)
        net == Net(g)
        followed(ids) == {id \in ids : Successors(net, {id}) \intersect ids # {}}
        core[k \in 0..n] == IF k = 0 THEN Ids(g) ELSE followed(core[k - 1])
    IN  core[n] # {}

LEMMA InFollowed ==
    ASSUME NEW net, Pairs(net), NEW ids, NEW a
    PROVE  a \in {id \in ids : Successors(net, {id}) \intersect ids # {}}
                <=> a \in ids /\ \E b \in ids : <<a, b>> \in net
  <1> DEFINE T == {a}
  <1>1. \A b : b \in Successors(net, T) <=> \E x \in T : <<x, b>> \in net
    <2> HIDE DEF T
    <2> QED  BY InSuccessors
  <1>2. \A b : b \in Successors(net, {a}) <=> <<a, b>> \in net  BY <1>1
  <1> QED  BY <1>2

LEMMA CyclicIff ==
    ASSUME NEW g, Whole(g)
    PROVE  Cyclic(g) <=> CyclicComponents(Net(g)) # {}
  <1> DEFINE n == Cardinality(g.nodes)
             net == Net(g)
             ids == Ids(g)
             S == SUBSET ids
             Step(T) == {id \in T : Successors(net, {id}) \intersect T # {}}
             step == [p \in (1..n) \X S |-> Step(p[2])]
             F == [T \in S |-> Step(T)]
             Rec(f) == f = [k \in 0..n |-> IF k = 0 THEN Ids(g) ELSE Step(f[k - 1])]
             w == CHOOSE f : Rec(f)
  <1>1. /\ Pairs(net) /\ IsFiniteSet(ids) /\ n = Cardinality(ids) /\ n \in Nat
        /\ \A a, b : <<a, b>> \in net => a \in ids /\ b \in ids
    <2>1. IsFiniteSet(Ids(g)) /\ Cardinality(g.nodes) = Cardinality(Ids(g))  BY CountIds DEF Whole
    <2> QED  BY <2>1, NetKnown, FS_CardinalityType
  <1>2. Cyclic(g) <=> w[n] # {}  BY DEF Cyclic
  <1>3. \A T \in S : Step(T) \in S /\ Step(T) \subseteq T  OBVIOUS
  <1>4. ids \in S  OBVIOUS
  <1> HIDE DEF n
  <1>5. step \in [(1..n) \X S -> S]
    <2> HIDE DEF Step, S
    <2> QED  BY <1>3
  <1>6. PICK f : Recursive(f, S, ids, n, step)
    <2> HIDE DEF step, S, ids
    <2> QED  BY <1>1, <1>4, <1>5, Recursion
  <1>7. Rec(f)
    <2>1. \A k \in 0..n : k # 0 => f[k - 1] \in S /\ k \in 1..n
      <3> HIDE DEF S
      <3> QED  BY <1>1, <1>6 DEF Recursive
    <2> HIDE DEF Step, S
    <2>2. \A k \in 0..n : k # 0 => step[<<k, f[k - 1]>>] = Step(f[k - 1])  BY <2>1
    <2>3. \A k \in 0..n : f[k] = IF k = 0 THEN ids ELSE Step(f[k - 1])  BY <1>6, <2>2 DEF Recursive
    <2> QED  BY <1>6, <2>3 DEF Recursive
  <1>8. Rec(w)
    <2> HIDE DEF Rec
    <2> QED  BY <1>7
  <1>9. w[0] = ids /\ \A k \in 1..n : w[k] = Step(w[k - 1])
    <2> HIDE DEF w, Step
    <2>1. 0 \in 0..n /\ \A k \in 1..n : k \in 0..n /\ k # 0  BY <1>1
    <2>2. w[0] = ids  BY <1>8, <2>1
    <2>3. \A k \in 1..n : w[k] = Step(w[k - 1])  BY <1>8, <2>1
    <2> QED  BY <2>2, <2>3
  <1>10. w \in [0..n -> S]
    <2> HIDE DEF w, Step, S, ids
    <2>1. DOMAIN w = 0..n /\ w = [k \in 0..n |-> w[k]]  BY <1>8 DEF ids
    <2>2. w[0] \in S /\ \A k \in 1..n : w[k - 1] \in S => w[k] \in S  BY <1>3, <1>4, <1>9
    <2> QED  BY <1>1, <2>1, <2>2, Stays
  <1> HIDE DEF w
  <1>11. F \in [S -> S] /\ \A T \in S : F[T] \subseteq T /\ F[T] = Step(T)
    <2> HIDE DEF Step, S
    <2> QED  BY <1>3
  <1>12. \A k \in 0..(n - 1) : w[k + 1] = F[w[k]]
    <2> SUFFICES ASSUME NEW k \in 0..(n - 1) PROVE w[k + 1] = F[w[k]]  OBVIOUS
    <2>1. k \in 0..n /\ k + 1 \in 1..n /\ k + 1 - 1 = k  BY <1>1
    <2> HIDE DEF Step, S, F
    <2>2. w[k + 1] = Step(w[k + 1 - 1])  BY <1>9, <2>1
    <2>3. w[k + 1] = Step(w[k])  BY <2>1, <2>2
    <2> QED  BY <1>10, <1>11, <2>1, <2>3
  <1> DEFINE C == w[n]
  <1>13. C \in S /\ F[C] = C
    <2> HIDE DEF Step, F, ids
    <2>1. w[0] \in SUBSET ids /\ \A k \in 0..(Cardinality(ids) - 1) : w[k + 1] = F[w[k]]
      BY <1>1, <1>9, <1>12
    <2>2. F[w[Cardinality(ids)]] = w[Cardinality(ids)]  BY <1>1, <1>11, <2>1, Settles
    <2>3. n \in 0..n  BY <1>1
    <2> QED  BY <1>1, <1>10, <2>2, <2>3
  <1>14. \A T \in S : \A a : a \in Step(T) <=> a \in T /\ \E b \in T : <<a, b>> \in net
    <2> HIDE DEF net, S
    <2> QED  BY <1>1, InFollowed
  <1> HIDE DEF F, Step
  <1>15. ASSUME C # {} PROVE CyclicComponents(net) # {}
    <2>1. C \subseteq ids /\ \A a \in C : \E b \in C : <<a, b>> \in net  BY <1>11, <1>13, <1>14
    <2> HIDE DEF C, net, ids
    <2> QED  BY <1>1, <1>15, <2>1, CycleFound
  <1>16. ASSUME NEW c \in CyclicComponents(net) PROVE C # {}
    <2>1. /\ c # {} /\ c \subseteq ids
          /\ \A x \in c : \E y \in c : <<x, y>> \in net
      BY InnerFinite, ComponentFollowed DEF NetFinite
    <2> DEFINE good == {k \in Nat : k <= n => c \subseteq w[k]}
    <2>2. 0 \in good  BY <1>9, <2>1
    <2>3. ASSUME NEW k \in Nat, k \in good PROVE k + 1 \in good
      <3> SUFFICES ASSUME k + 1 <= n PROVE c \subseteq w[k + 1]  OBVIOUS
      <3>1. k \in 0..n /\ k <= n /\ k + 1 \in 1..n /\ k + 1 - 1 = k  BY <1>1
      <3>2. c \subseteq w[k] /\ w[k] \in S
        <4> HIDE DEF S
        <4> QED  BY <1>10, <2>3, <3>1
      <3> HIDE DEF S
      <3>3. w[k + 1] = Step(w[k + 1 - 1])  BY <1>9, <3>1
      <3>4. w[k + 1] = Step(w[k])  BY <3>1, <3>3
      <3> DEFINE wk == w[k]
      <3> HIDE DEF net, wk
      <3>5. wk \in S /\ c \subseteq wk  BY <3>2 DEF wk
      <3>6. \A a : a \in Step(wk) <=> a \in wk /\ \E b \in wk : <<a, b>> \in net  BY <1>14, <3>5
      <3>7. \A x \in c : \E y \in c : <<x, y>> \in net  BY <2>1
      <3>8. c \subseteq Step(wk)  BY <3>5, <3>6, <3>7
      <3> QED  BY <3>4, <3>8 DEF wk
    <2>4. Nat \subseteq good
      <3> HIDE DEF good
      <3> QED  BY <2>2, <2>3, Induction
    <2>5. c \subseteq C  BY <1>1, <2>4
    <2> QED  BY <2>1, <2>5
  <1> QED  BY <1>2, <1>15, <1>16

Broken(g, rule) == IF rule.type = "no_cycles" THEN Cyclic(g) ELSE Forbidden(g, rule) # {}

(* The packages that have another name.                                    *)
Renamed(b, g) == {id \in CompareGraphs(b, g).nodes.modified : NodeOf(g, id).file = None}

LEMMA SameLocation ==
    ASSUME NEW g, Whole(g), NEW b, Whole(b), NEW id \in Ids(g), id \in Ids(b), id \notin Renamed(b, g)
    PROVE  Location(NodeOf(g, id)) = Location(NodeOf(b, id))
  <1>1. PICK m \in g.nodes : m.id = id  BY DEF Ids
  <1>2. PICK n \in b.nodes : n.id = id  BY DEF Ids
  <1>3. NodeOf(g, id) = m /\ NodeOf(b, id) = n  BY <1>1, <1>2, NodeOfId DEF Whole
  <1>4. Told(m) /\ Told(n)  BY DEF Whole
  <1>5. m.file = n.file  BY <1>1, <1>2, <1>4 DEF Told
  <1>6. m.file = None => m = n  BY <1>3 DEF Renamed, CompareGraphs, NodeChanges, Changes
  <1> QED  BY <1>3, <1>4, <1>5, <1>6 DEF Location

(* A dependency is new, or an end of it has another name.                  *)
Changed(b, g, e) == EdgeId(e) \in EdgeIds(g) \ EdgeIds(b) \/ {e.source, e.target} \intersect Renamed(b, g) # {}

(* Where a dependency is, and what it is, its id tells.                    *)
LEMMA SameForbidden ==
    ASSUME NEW g, Whole(g), NEW b, Whole(b), NEW rule, NEW e \in Forbidden(g, rule), ~Changed(b, g, e)
    PROVE  e \in Forbidden(b, rule)
  <1>1. e \in g.edges /\ Linked(g, e)  BY DEF Forbidden, Dependencies, Whole
  <1>2. PICK d \in b.edges : EdgeId(d) = EdgeId(e)  BY <1>1 DEF EdgeIds, Changed
  <1>3. Linked(b, d)  BY DEF Whole
  <1>4. d = e  BY <1>1, <1>2, <1>3 DEF Linked, EdgeId
  <1>5. {e.source, e.target} \subseteq Ids(g) /\ {e.source, e.target} \subseteq Ids(b)
    BY <1>1, <1>3, <1>4 DEF Linked, Firm
  <1>6. \A id \in {e.source, e.target} : Location(NodeOf(g, id)) = Location(NodeOf(b, id))
    BY <1>5, SameLocation DEF Changed
  <1> QED  BY <1>4, <1>6 DEF Forbidden, Dependencies

LEMMA ForbiddenFinite ==
    ASSUME NEW g, Whole(g), NEW rule
    PROVE  IsFiniteSet(Forbidden(g, rule)) /\ Forbidden(g, rule) \subseteq Dependencies(g)
  <1>1. Forbidden(g, rule) \subseteq g.edges /\ IsFiniteSet(g.edges)
    BY DEF Forbidden, Dependencies, Whole, Graph
  <1> QED  BY <1>1, FS_Subset DEF Forbidden

(* The first of what there is: something if there is something.            *)
LEMMA FirstSorted ==
    ASSUME NEW T, IsFiniteSet(T), NEW n \in Nat \ {0}
    PROVE  /\ ToSet(First(n, Sorted(T))) \subseteq T
           /\ T # {} => ToSet(First(n, Sorted(T))) # {}
  <1> DEFINE list == Sorted(T)
             first == First(n, list)
  <1>1. list \in Seq(T) /\ ToSet(list) = T  BY InSorted
  <1> HIDE DEF list
  <1>2. first \in Seq(T) /\ ToSet(first) \subseteq T /\ (first = <<>> <=> list = <<>>)
    BY <1>1, InFirst
  <1> HIDE DEF first
  <1>3. ASSUME T # {} PROVE ToSet(first) # {}
    <2>1. list # <<>>  BY <1>1, <1>3, InNoList
    <2>2. first # <<>> /\ first \in Seq(T)  BY <1>2, <2>1
    <2>3. 1 \in 1..Len(first)  BY <2>2
    <2>4. first[1] \in ToSet(first)  BY <2>2, <2>3, InList
    <2> QED  BY <2>4
  <1> QED  BY <1>2, <1>3 DEF first, list

(* A rule finds something if and only if it is broken: dependencies.       *)
LEMMA FoundWhenBroken ==
    ASSUME NEW g, Whole(g), NEW rule, ValidRule(rule)
    PROVE  /\ Found(g, rule) # {} <=> Broken(g, rule)
           /\ IsFiniteSet(Found(g, rule))
           /\ \A evidence \in Found(g, rule) : evidence # {} /\ evidence \subseteq Dependencies(g)
  <1>1. CASE rule.type = "forbid_dependency"
    <2> DEFINE T == Forbidden(g, rule)
               first == ToSet(First(MaxFound, Sorted(T)))
    <2>1. Found(g, rule) = {{e} : e \in first} /\ (Broken(g, rule) <=> T # {})
      BY <1>1 DEF Found, Broken
    <2>2. IsFiniteSet(T) /\ T \subseteq Dependencies(g) /\ MaxFound \in Nat \ {0}
      BY ForbiddenFinite, PolicyBounds
    <2> HIDE DEF T
    <2>3. first \subseteq T /\ (T # {} => first # {})  BY <2>2, FirstSorted
    <2> HIDE DEF first
    <2>4. IsFiniteSet(Found(g, rule))
      <3> DEFINE evidence == [e \in first |-> {e}]
      <3>1. IsFiniteSet(first)  BY <2>2, <2>3, FS_Subset
      <3>2. first \subseteq DOMAIN evidence /\ \A x \in Found(g, rule) : \E e \in first : x = evidence[e]
        BY <2>1
      <3> HIDE DEF evidence
      <3> QED  BY <3>1, <3>2, FiniteBy
    <2> QED  BY <2>1, <2>2, <2>3, <2>4
  <1>2. CASE rule.type = "no_cycles"
    <2> DEFINE net == Net(g)
               T == CyclicComponents(net)
               first == ToSet(First(MaxCycles, Sorted(T)))
    <2>1. Found(g, rule) = {Inside(g, c) : c \in first}  BY <1>2 DEF Found, Cycles
    <2>2. Broken(g, rule) <=> T # {}  BY <1>2, CyclicIff DEF Broken
    <2>3. Pairs(net) /\ IsFiniteSet(Inner(net)) /\ MaxCycles \in Nat \ {0}
      BY InnerFinite, IntelligenceBounds DEF NetFinite
    <2>4. IsFiniteSet(T)
      <3> HIDE DEF net
      <3> QED  BY <2>3, ComponentsFinite
    <2>5. ASSUME NEW c \in T PROVE Inside(g, c) # {} /\ Inside(g, c) \subseteq Dependencies(g)
      <3>1. c # {} /\ \A x \in c : \E y \in c : <<x, y>> \in net
        <4> HIDE DEF net
        <4> QED  BY <2>3, ComponentFollowed
      <3> HIDE DEF T
      <3>2. PICK x \in c, y \in c : <<x, y>> \in net  BY <3>1
      <3>3. PICK e \in Dependencies(g) : e.source = x /\ e.target = y  BY <3>2, NetKnown
      <3> QED  BY <3>2, <3>3 DEF Inside
    <2> HIDE DEF T
    <2>6. first \subseteq T /\ (T # {} => first # {})  BY <2>3, <2>4, FirstSorted
    <2> HIDE DEF first
    <2>7. Found(g, rule) # {} <=> Broken(g, rule)  BY <2>1, <2>2, <2>6
    <2>8. IsFiniteSet(Found(g, rule))
      <3> DEFINE evidence == [c \in first |-> Inside(g, c)]
      <3>1. IsFiniteSet(first)  BY <2>4, <2>6, FS_Subset
      <3>2. first \subseteq DOMAIN evidence /\ \A x \in Found(g, rule) : \E c \in first : x = evidence[c]
        BY <2>1
      <3> HIDE DEF evidence
      <3> QED  BY <3>1, <3>2, FiniteBy
    <2> QED  BY <2>1, <2>5, <2>6, <2>7, <2>8
  <1> QED  BY <1>1, <1>2 DEF ValidRule, RuleTypes

(* A rule that found nothing finds something new in a later graph.         *)
LEMMA NewIsFound ==
    ASSUME NEW g, Whole(g), NEW b, Whole(b), NEW rule, ValidRule(rule),
           Found(b, rule) = {}, NEW evidence \in Found(g, rule)
    PROVE  \E e \in evidence : Changed(b, g, e)
  <1> SUFFICES ASSUME \A e \in evidence : ~Changed(b, g, e)
               PROVE  FALSE  OBVIOUS
  <1>1. ~Broken(b, rule)  BY FoundWhenBroken
  <1>2. CASE rule.type = "forbid_dependency"
    <2> DEFINE T == Forbidden(g, rule)
               first == ToSet(First(MaxFound, Sorted(T)))
    <2>1. Found(g, rule) = {{e} : e \in first}  BY <1>2 DEF Found
    <2>2. IsFiniteSet(T) /\ MaxFound \in Nat \ {0}  BY ForbiddenFinite, PolicyBounds
    <2> HIDE DEF T
    <2>3. first \subseteq T  BY <2>2, FirstSorted
    <2> HIDE DEF first
    <2>4. PICK e \in first : evidence = {e}  BY <2>1
    <2>5. e \in Forbidden(g, rule) /\ ~Changed(b, g, e)  BY <2>3, <2>4 DEF T
    <2>6. e \in Forbidden(b, rule)  BY <2>5, SameForbidden
    <2> QED  BY <1>1, <1>2, <2>6 DEF Broken
  <1>3. CASE rule.type = "no_cycles"
    <2> DEFINE net == Net(g)
               T == CyclicComponents(net)
               first == ToSet(First(MaxCycles, Sorted(T)))
    <2>1. Found(g, rule) = {Inside(g, c) : c \in first}  BY <1>3 DEF Found, Cycles
    <2>2. Pairs(net) /\ IsFiniteSet(Inner(net)) /\ MaxCycles \in Nat \ {0}
      BY InnerFinite, IntelligenceBounds DEF NetFinite
    <2>3. IsFiniteSet(T)
      <3> HIDE DEF net
      <3> QED  BY <2>2, ComponentsFinite
    <2>4. \A c \in T : c # {} /\ \A x \in c : \E y \in c : <<x, y>> \in net
      <3> HIDE DEF net
      <3> QED  BY <2>2, ComponentFollowed
    <2> HIDE DEF T
    <2>5. first \subseteq T  BY <2>2, <2>3, FirstSorted
    <2> HIDE DEF first
    <2>6. PICK c \in first : evidence = Inside(g, c)  BY <2>1
    <2>7. c # {} /\ \A x \in c : \E y \in c : <<x, y>> \in net  BY <2>4, <2>5
    <2>8. ASSUME NEW x \in c, NEW y \in c, <<x, y>> \in net PROVE <<x, y>> \in Net(b)
      <3>1. PICK e \in Dependencies(g) : e.source = x /\ e.target = y  BY <2>8, NetKnown
      <3>2. e \in evidence  BY <2>6, <3>1 DEF Inside
      <3>3. PICK d \in b.edges : EdgeId(d) = EdgeId(e)
        BY <3>1, <3>2 DEF EdgeIds, Changed, Dependencies
      <3>4. Linked(b, d) /\ Linked(g, e)  BY <3>1 DEF Whole, Dependencies
      <3>5. d = e  BY <3>3, <3>4 DEF Linked, EdgeId
      <3>6. e \in Dependencies(b)  BY <3>1, <3>3, <3>5 DEF Dependencies
      <3> QED  BY <3>1, <3>6, NetKnown
    <2>9. \A x \in c : \E y \in c : <<x, y>> \in Net(b)  BY <2>7, <2>8
    <2> DEFINE old == Net(b)
               V == Ids(b)
    <2>10. Pairs(old) /\ \A x, y : <<x, y>> \in old => x \in V /\ y \in V  BY NetKnown
    <2>11. IsFiniteSet(V)  BY CountIds DEF Whole
    <2> HIDE DEF old, V
    <2>12. c \subseteq V /\ c # {} /\ \A x \in c : \E y \in c : <<x, y>> \in old
      BY <2>7, <2>9, <2>10 DEF old
    <2>13. CyclicComponents(old) # {}  BY <2>10, <2>11, <2>12, CycleFound
    <2> QED  BY <1>1, <1>3, <2>13, CyclicIff DEF Broken, old
  <1> QED  BY <1>2, <1>3 DEF ValidRule, RuleTypes

Blamed(rules, g, severity) == \E i \in DOMAIN rules : rules[i].severity = severity /\ Found(g, rules[i]) # {}

LEMMA ViolationsAre ==
    ASSUME NEW rules, NEW g, NEW severity
    PROVE  /\ ViolationsOf(rules, g, severity) # {} <=> Blamed(rules, g, severity)
           /\ \A v : v \in ViolationsOf(rules, g, severity) <=>
                \E i \in DOMAIN rules : rules[i].severity = severity /\ \E evidence \in Found(g, rules[i]) : v = <<i, evidence>>
  <1> DEFINE part == [i \in DOMAIN rules |-> {<<i, evidence>> : evidence \in Found(g, rules[i])}]
             I == {j \in DOMAIN rules : rules[j].severity = severity}
  <1>1. ViolationsOf(rules, g, severity) = UNION {part[i] : i \in I}  BY DEF ViolationsOf
  <1>2. \A i \in DOMAIN rules : \A v : v \in part[i] <=> \E evidence \in Found(g, rules[i]) : v = <<i, evidence>>
    OBVIOUS
  <1> HIDE DEF part
  <1>3. \A v : v \in ViolationsOf(rules, g, severity) <=> \E i \in I : v \in part[i]  BY <1>1
  <1>4. \A v : v \in ViolationsOf(rules, g, severity) <=>
            \E i \in DOMAIN rules : rules[i].severity = severity /\ \E evidence \in Found(g, rules[i]) : v = <<i, evidence>>
    BY <1>2, <1>3
  <1> QED  BY <1>4 DEF Blamed

Verdict(rules, g) ==
    IF Blamed(rules, g, "error") THEN "FAIL" ELSE IF Blamed(rules, g, "warning") THEN "WARN" ELSE "PASS"

(* A list in the place of a word is not valid.                             *)
LEMMA RaisingIsInvalid ==
    ASSUME NEW rules, Raises(rules)
    PROVE  /\ ~ValidPolicy(rules)
           /\ \E i \in DOMAIN rules :
                \/ Unhashable \in {rules[i].type, rules[i].severity}
                \/ rules[i].type = "forbid_dependency" /\ Unhashable \in ToSet(rules[i].relationships)
  <1>1. PICK i \in DOMAIN rules : RaisingRule(rules[i])  BY DEF Raises
  <1> DEFINE rule == rules[i]
             list == rule.relationships
  <1>2. Unhashable \notin RuleTypes /\ Unhashable \notin Severities /\ Unhashable \notin DependencyTypes
    BY PolicyBounds
  <1>3. \/ rule.type = Unhashable
        \/ rule.severity = Unhashable
        \/ rule.type = "forbid_dependency" /\ Unhashable \in ToSet(list)
    BY <1>1 DEF RaisingRule, ToSet
  <1>4. ~ValidRule(rule)  BY <1>2, <1>3 DEF ValidRule
  <1> QED  BY <1>3, <1>4 DEF ValidPolicy, ValidRules

Readable(document) == document # Absent /\ document # Unreadable /\ ValidPolicy(document)

LEMMA PolicyIs ==
    ASSUME NEW document, NEW g
    PROVE  LET policy == LoadArchitecturePolicy(document, g)
           IN  /\ policy.status \in {"INVALID", "RAISED"} <=>
                    document # Absent /\ (document = Unreadable \/ ~ValidPolicy(document))
               /\ policy.status = "RAISED" => document # Absent /\ document # Unreadable /\ Raises(document)
               /\ policy.status \in {"FAIL", "WARN", "PASS"} => Readable(document)
               /\ Readable(document) => policy = EvaluatePolicy(document, g) /\ policy.status = Verdict(document, g)
               /\ policy.violations # {} => Readable(document)
  <1> DEFINE policy == LoadArchitecturePolicy(document, g)
  <1>1. Absent # Unreadable  BY PolicyBounds
  <1>2. ASSUME NEW status PROVE NoFindings(status).status = status /\ NoFindings(status).violations = {}
    BY DEF NoFindings
  <1>3. CASE document = Absent
    <2>1. policy = NoFindings("NOT_CONFIGURED")  BY <1>1, <1>3 DEF LoadArchitecturePolicy
    <2> HIDE DEF policy
    <2> QED  BY <1>2, <1>3, <2>1 DEF Readable, policy
  <1>4. CASE document = Unreadable
    <2>1. policy = NoFindings("INVALID")  BY <1>1, <1>4 DEF LoadArchitecturePolicy
    <2> HIDE DEF policy
    <2> QED  BY <1>1, <1>2, <1>4, <2>1 DEF Readable, policy
  <1>5. CASE document # Absent /\ document # Unreadable /\ Raises(document)
    <2>1. policy = NoFindings("RAISED") /\ ~ValidPolicy(document)
      BY <1>5, RaisingIsInvalid DEF LoadArchitecturePolicy
    <2> HIDE DEF policy
    <2> QED  BY <1>2, <1>5, <2>1 DEF Readable, policy
  <1>6. CASE document # Absent /\ document # Unreadable /\ ~Raises(document) /\ ~ValidPolicy(document)
    <2>1. policy = NoFindings("INVALID")  BY <1>6 DEF LoadArchitecturePolicy
    <2> HIDE DEF policy
    <2> QED  BY <1>2, <1>6, <2>1 DEF Readable, policy
  <1>7. CASE document # Absent /\ document # Unreadable /\ ValidPolicy(document)
    <2> DEFINE errors == ViolationsOf(document, g, "error")
               warnings == ViolationsOf(document, g, "warning")
    <2>1. policy = EvaluatePolicy(document, g)  BY <1>7, RaisingIsInvalid DEF LoadArchitecturePolicy
    <2>2. EvaluatePolicy(document, g).status =
                IF errors # {} THEN "FAIL" ELSE IF warnings # {} THEN "WARN" ELSE "PASS"
      BY DEF EvaluatePolicy
    <2> HIDE DEF policy
    <2>3. policy.status = Verdict(document, g)  BY <2>1, <2>2, ViolationsAre DEF Verdict
    <2>4. policy.status \in {"FAIL", "WARN", "PASS"} /\ policy.status \notin {"INVALID", "RAISED"}
      BY <2>3 DEF Verdict
    <2> QED  BY <1>7, <2>1, <2>3, <2>4 DEF Readable, policy
  <1> QED  BY <1>3, <1>4, <1>5, <1>6, <1>7

LEMMA ViolationsFinite ==
    ASSUME NEW g, Whole(g), NEW rules, ValidPolicy(rules), IsFiniteSet(DOMAIN rules), NEW severity
    PROVE  IsFiniteSet(ViolationsOf(rules, g, severity))
  <1> DEFINE I == {j \in DOMAIN rules : rules[j].severity = severity}
             part == [i \in DOMAIN rules |-> {<<i, evidence>> : evidence \in Found(g, rules[i])}]
  <1>1. IsFiniteSet(I)  BY FS_Subset
  <1>2. ASSUME NEW i \in I PROVE IsFiniteSet(part[i])
    <2> DEFINE found == Found(g, rules[i])
               pair == [evidence \in found |-> <<i, evidence>>]
    <2>1. ValidRule(rules[i])  BY DEF ValidPolicy, ValidRules
    <2>2. IsFiniteSet(found)  BY <2>1, FoundWhenBroken
    <2> HIDE DEF found
    <2>3. found \subseteq DOMAIN pair /\ \A x \in part[i] : \E evidence \in found : x = pair[evidence]
      BY DEF found
    <2> HIDE DEF pair, part
    <2> QED  BY <2>2, <2>3, FiniteBy
  <1>3. ViolationsOf(rules, g, severity) = All(part, I)  BY DEF ViolationsOf, All
  <1> HIDE DEF part, I
  <1> QED  BY <1>1, <1>2, <1>3, FiniteUnion

(* What is shown is of rules, and something if there is something.         *)
LEMMA ShownViolations ==
    ASSUME NEW g, Whole(g), NEW rules, ValidPolicy(rules), IsFiniteSet(DOMAIN rules)
    PROVE  LET shown == EvaluatePolicy(rules, g).violations
           IN  /\ \A evidence \in shown : \E i \in DOMAIN rules :
                    rules[i].severity \in {"error", "warning"} /\ evidence \in Found(g, rules[i])
               /\ Blamed(rules, g, "error") => shown # {}
  <1> DEFINE errors == ViolationsOf(rules, g, "error")
             warnings == ViolationsOf(rules, g, "warning")
             all == errors \union warnings
             first == ToSet(First(MaxViolations, Sorted(all)))
             shown == EvaluatePolicy(rules, g).violations
  <1>1. shown = {v[2] : v \in first}  BY DEF EvaluatePolicy
  <1>2. IsFiniteSet(all)  BY ViolationsFinite, FS_Union
  <1>3. \A v \in all : \E i \in DOMAIN rules :
            rules[i].severity \in {"error", "warning"} /\ \E e \in Found(g, rules[i]) : v = <<i, e>>
    <2>1. \A v : v \in errors <=>
            \E i \in DOMAIN rules : rules[i].severity = "error" /\ \E e \in Found(g, rules[i]) : v = <<i, e>>
      BY ViolationsAre
    <2>2. \A v : v \in warnings <=>
            \E i \in DOMAIN rules : rules[i].severity = "warning" /\ \E e \in Found(g, rules[i]) : v = <<i, e>>
      BY ViolationsAre
    <2> HIDE DEF errors, warnings
    <2> QED  BY <2>1, <2>2
  <1>4. Blamed(rules, g, "error") => all # {}  BY ViolationsAre
  <1> HIDE DEF all, shown
  <1>5. first \subseteq all /\ (all # {} => first # {})  BY <1>2, FirstSorted, PolicyBounds
  <1> HIDE DEF first
  <1>6. ASSUME NEW evidence \in shown
        PROVE  \E i \in DOMAIN rules :
                    rules[i].severity \in {"error", "warning"} /\ evidence \in Found(g, rules[i])
    <2>1. PICK v \in first : evidence = v[2]  BY <1>1
    <2>2. PICK i \in DOMAIN rules :
            rules[i].severity \in {"error", "warning"} /\ \E e \in Found(g, rules[i]) : v = <<i, e>>
      BY <1>3, <1>5, <2>1
    <2>3. PICK e \in Found(g, rules[i]) : v = <<i, e>>  BY <2>2
    <2> QED  BY <2>1, <2>2, <2>3
  <1>7. Blamed(rules, g, "error") => shown # {}  BY <1>1, <1>4, <1>5
  <1> QED  BY <1>6, <1>7 DEF shown

(* The worst of the rules that are broken.                                 *)
LEMMA VerdictIs ==
    ASSUME NEW g, Whole(g), NEW rules, ValidPolicy(rules)
    PROVE  LET worst == {rules[i].severity : i \in {j \in DOMAIN rules : Broken(g, rules[j])}}
           IN  Verdict(rules, g) = IF "error" \in worst THEN "FAIL"
                                   ELSE IF "warning" \in worst THEN "WARN" ELSE "PASS"
  <1> DEFINE worst == {rules[i].severity : i \in {j \in DOMAIN rules : Broken(g, rules[j])}}
  <1>1. \A i \in DOMAIN rules : Found(g, rules[i]) # {} <=> Broken(g, rules[i])
    BY FoundWhenBroken DEF ValidPolicy, ValidRules
  <1>2. \A severity : severity \in worst <=> \E i \in DOMAIN rules : Broken(g, rules[i]) /\ severity = rules[i].severity
    OBVIOUS
  <1> HIDE DEF worst
  <1>3. \A severity : severity \in worst <=> Blamed(rules, g, severity)  BY <1>1, <1>2 DEF Blamed
  <1>4. Verdict(rules, g) = IF "error" \in worst THEN "FAIL"
                            ELSE IF "warning" \in worst THEN "WARN" ELSE "PASS"
    BY <1>3 DEF Verdict
  <1> QED  BY <1>4 DEF worst

(* A policy that passed and fails shows a dependency that changed.         *)
LEMMA FailureIsNew ==
    ASSUME NEW g, Whole(g), NEW b, Whole(b), NEW document, Readable(document) => IsFiniteSet(DOMAIN document),
           LoadArchitecturePolicy(document, b).status = "PASS",
           LoadArchitecturePolicy(document, g).status = "FAIL"
    PROVE  \E evidence \in LoadArchitecturePolicy(document, g).violations : \E e \in evidence : Changed(b, g, e)
  <1>1. Readable(document) /\ ValidPolicy(document) /\ IsFiniteSet(DOMAIN document)
    BY PolicyIs DEF Readable
  <1>2. Verdict(document, b) = "PASS" /\ Verdict(document, g) = "FAIL"  BY <1>1, PolicyIs
  <1>3. ~Blamed(document, b, "error") /\ ~Blamed(document, b, "warning") /\ Blamed(document, g, "error")
    BY <1>2 DEF Verdict
  <1>4. PICK evidence \in EvaluatePolicy(document, g).violations : TRUE
    BY <1>1, <1>3, ShownViolations
  <1>5. PICK i \in DOMAIN document :
            document[i].severity \in {"error", "warning"} /\ evidence \in Found(g, document[i])
    BY <1>1, <1>4, ShownViolations
  <1>6. Found(b, document[i]) = {} /\ ValidRule(document[i])
    BY <1>1, <1>3, <1>5 DEF Blamed, ValidPolicy, ValidRules
  <1>7. \E e \in evidence : Changed(b, g, e)  BY <1>5, <1>6, NewIsFound
  <1>8. evidence \in LoadArchitecturePolicy(document, g).violations  BY <1>1, <1>4, PolicyIs
  <1> QED  BY <1>7, <1>8

(* The policy decides by the code: it fails if and only if a rule against  *)
(* which there is an error is broken, whatever the limits on what is found *)
(* and shown, and never passes when it cannot be read, where a list in the *)
(* place of a word is the one thing that can make it raise; what it        *)
(* reports are dependencies of the graph.  When a policy that passed fails *)
(* after a commit, it shows a relationship that the comparison lists as    *)
(* added, or one of a package that it lists as modified.                   *)
THEOREM PolicyDecidesHolds == Spec => []PolicyDecides
  <1>1. ASSUME Versions PROVE PolicyDecides
    <2> DEFINE g == head.graph
               diff == CompareGraphs(base.graph, g)
               renamed == {id \in diff.nodes.modified : NodeOf(g, id).file = None}
               policy(document) == LoadArchitecturePolicy(document, g)
               before(document) == LoadArchitecturePolicy(document, base.graph)
               worst(document) == {document[i].severity : i \in {j \in DOMAIN document : Broken(g, document[j])}}
               listed(rule) == \/ Unhashable \in {rule.type, rule.severity}
                               \/ rule.type = "forbid_dependency" /\ Unhashable \in ToSet(rule.relationships)
               changed(e) == EdgeId(e) \in diff.edges.added \/ {e.source, e.target} \intersect renamed # {}
               decided(document) ==
                   /\ policy(document).status \in {"FAIL", "WARN", "PASS"} =>
                        policy(document).status = IF "error" \in worst(document) THEN "FAIL"
                                        ELSE IF "warning" \in worst(document) THEN "WARN" ELSE "PASS"
                   /\ policy(document).status \in {"INVALID", "RAISED"} <=>
                        document # Absent /\ (document = Unreadable \/ ~ValidPolicy(document))
                   /\ policy(document).status = "RAISED" =>
                        document # Unreadable /\ \E i \in DOMAIN document : listed(document[i])
                   /\ \A evidence \in policy(document).violations : evidence # {} /\ evidence \subseteq Dependencies(g)
                   /\ before(document).status = "PASS" /\ policy(document).status = "FAIL" =>
                        \E evidence \in policy(document).violations : \E e \in evidence : changed(e)
    <2>1. Whole(g) /\ Whole(base.graph)  BY <1>1, VersionWhole DEF Versions
    <2>2. \A e : Changed(base.graph, g, e) <=> changed(e)
      <3>1. diff.edges.added = EdgeIds(g) \ EdgeIds(base.graph)
        BY DEF CompareGraphs, EdgeChanges, Changes
      <3>2. Renamed(base.graph, g) = renamed  BY DEF Renamed
      <3> HIDE DEF diff, renamed, g
      <3> QED  BY <3>1, <3>2 DEF Changed
    <2> HIDE DEF g, changed
    <2>3. ASSUME NEW document \in Documents PROVE decided(document)
      <3>1. ASSUME policy(document).status \in {"FAIL", "WARN", "PASS"}
            PROVE  policy(document).status = IF "error" \in worst(document) THEN "FAIL"
                                             ELSE IF "warning" \in worst(document) THEN "WARN" ELSE "PASS"
        <4>1. ValidPolicy(document) /\ policy(document).status = Verdict(document, g)
          BY <3>1, PolicyIs DEF Readable
        <4> HIDE DEF policy
        <4> QED  BY <2>1, <4>1, VerdictIs
      <3>2. policy(document).status \in {"INVALID", "RAISED"} <=>
                document # Absent /\ (document = Unreadable \/ ~ValidPolicy(document))
        BY PolicyIs
      <3>3. policy(document).status = "RAISED" =>
                document # Unreadable /\ \E i \in DOMAIN document : listed(document[i])
        BY PolicyIs, RaisingIsInvalid
      <3>4. Readable(document) => IsFiniteSet(DOMAIN document)  BY PolicyDocuments DEF Readable
      <3>5. ASSUME NEW evidence \in policy(document).violations
            PROVE  evidence # {} /\ evidence \subseteq Dependencies(g)
        <4>1. Readable(document) /\ evidence \in EvaluatePolicy(document, g).violations  BY PolicyIs
        <4>2. PICK i \in DOMAIN document : evidence \in Found(g, document[i])
          BY <2>1, <3>4, <4>1, ShownViolations DEF Readable
        <4>3. ValidRule(document[i])  BY <4>1 DEF Readable, ValidPolicy, ValidRules
        <4> QED  BY <2>1, <4>2, <4>3, FoundWhenBroken
      <3>6. ASSUME before(document).status = "PASS", policy(document).status = "FAIL"
            PROVE  \E evidence \in policy(document).violations : \E e \in evidence : changed(e)
        BY <2>1, <2>2, <3>4, <3>6, FailureIsNew
      <3> HIDE DEF policy, before, worst, listed
      <3> QED  BY <3>1, <3>2, <3>3, <3>5, <3>6
    <2> HIDE DEF decided
    <2>4. \A document \in Documents : decided(document)  BY <2>3
    <2> QED  BY <2>4 DEF PolicyDecides, Broken, Cyclic, decided, policy, before, worst, listed, changed, renamed, diff, g
  <1> QED  BY <1>1, VersionsHold, PTL
-----------------------------------------------------------------------------
(* A part of a repository that imports nothing from the rest of it.        *)

Part(c, files) ==
    /\ DOMAIN c \subseteq DOMAIN files
    /\ \A f \in DOMAIN c :
        /\ c[f] = files[f]
        /\ \A alias \in DOMAIN c[f].imports :
            Imported(files, f, c[f].imports[alias]).path \in (DOMAIN c) \union {None}

LEMMA SameModulePath ==
    ASSUME NEW c, NEW files, DOMAIN c \subseteq DOMAIN files, NEW f, NEW module,
           ModulePath(files, f, module) \in (DOMAIN c) \union {None}
    PROVE  ModulePath(c, f, module) = ModulePath(files, f, module)
  <1> DEFINE candidates == CandidatesAt(Place(f, module))
             known(a) == {i \in DOMAIN candidates : candidates[i] \in DOMAIN a}
  <1>1. \A a : ModulePath(a, f, module) = IF known(a) = {} THEN None ELSE candidates[Min(known(a))]
    BY DEF ModulePath
  <1>2. candidates \in Seq(Paths)  BY CandidatePaths
  <1>3. DOMAIN candidates \subseteq Nat /\ \A i \in DOMAIN candidates : candidates[i] \in Paths
    <2> HIDE DEF candidates
    <2> QED  BY <1>2, FiniteDomain
  <1>4. \A a : known(a) \subseteq Nat  BY <1>3
  <1>5. \A a : known(a) # {} => Min(known(a)) \in known(a) /\ \A i \in known(a) : Min(known(a)) <= i
    <2> HIDE DEF known
    <2> QED  BY <1>4, MinIsLeast
  <1>6. known(c) \subseteq known(files)  OBVIOUS
  <1>7. CASE known(files) = {}  BY <1>1, <1>6, <1>7
  <1>8. CASE known(files) # {}
    <2> DEFINE i == Min(known(files))
    <2>1. i \in known(files) /\ \A j \in known(files) : i <= j  BY <1>5, <1>8
    <2>2. ModulePath(files, f, module) = candidates[i]  BY <1>1, <1>8
    <2>3. candidates[i] # None  BY <1>3, <2>1, RepositoryContents
    <2>4. i \in known(c)  BY <2>1, <2>2, <2>3
    <2> DEFINE j == Min(known(c))
    <2>5. j \in known(c) /\ j <= i  BY <1>5, <2>4
    <2>6. i <= j /\ i \in Nat /\ j \in Nat  BY <1>4, <1>6, <2>1, <2>5
    <2>7. ModulePath(c, f, module) = candidates[j]  BY <1>1, <2>4
    <2> HIDE DEF i, j
    <2>8. i = j  BY <2>5, <2>6
    <2> QED  BY <2>2, <2>7, <2>8
  <1> QED  BY <1>7, <1>8

LEMMA SameImported ==
    ASSUME NEW c, NEW files, DOMAIN c \subseteq DOMAIN files, NEW f, NEW import,
           Imported(files, f, import).path \in (DOMAIN c) \union {None}
    PROVE  Imported(c, f, import) = Imported(files, f, import)
  <1> DEFINE path(a) == ModulePath(a, f, import.module)
             asModule(a) == ModulePath(a, f, Submodule(import.module, import.name))
             found(a) == [path |-> path(a), name |-> import.name]
             foundModule(a) == [path |-> asModule(a), name |-> "*"]
  <1>1. \A a : Imported(a, f, import) = IF path(a) # None \/ import.name = "*" THEN found(a) ELSE foundModule(a)
    BY DEF Imported
  <1>2. \A a : found(a).path = path(a) /\ foundModule(a).path = asModule(a)  OBVIOUS
  <1>3. path(files) \in (DOMAIN c) \union {None} => path(c) = path(files)  BY SameModulePath
  <1>4. asModule(files) \in (DOMAIN c) \union {None} => asModule(c) = asModule(files)
    BY SameModulePath
  <1> HIDE DEF path, asModule
  <1>5. CASE path(files) # None \/ import.name = "*"
    <2>1. path(files) \in (DOMAIN c) \union {None}  BY <1>1, <1>2, <1>5
    <2>2. path(c) = path(files)  BY <1>3, <2>1
    <2> QED  BY <1>1, <1>5, <2>2
  <1>6. CASE ~(path(files) # None \/ import.name = "*")
    <2>1. path(c) = path(files)  BY <1>3, <1>6
    <2>2. asModule(files) \in (DOMAIN c) \union {None}  BY <1>1, <1>2, <1>6
    <2>3. asModule(c) = asModule(files)  BY <1>4, <2>2
    <2> QED  BY <1>1, <1>6, <2>1, <2>3
  <1> QED  BY <1>5, <1>6

LEMMA SameDefined ==
    ASSUME NEW c, NEW files, NEW f, c[f] = files[f]
    PROVE  \A name : Defined(c, f, name) = Defined(files, f, name)
  BY DEF Defined

LEMMA SameNames ==
    ASSUME NEW c, NEW files, NEW f, c[f] = files[f], NEW target, NEW scope
    PROVE  /\ Lexical(c, f, target, scope) = Lexical(files, f, target, scope)
           /\ OfSelf(c, f, target, scope) = OfSelf(files, f, target, scope)
           /\ Unbound(c, f, target, scope) <=> Unbound(files, f, target, scope)
           /\ Shadowed(c, f, Head(target), scope) <=> Shadowed(files, f, Head(target), scope)
           /\ \A n : Bound(c, f, target, scope, n) = Bound(files, f, target, scope, n)
  <1>1. \A name : Defined(c, f, name) = Defined(files, f, name)  BY SameDefined
  <1>2. Lexical(c, f, target, scope) = Lexical(files, f, target, scope)
    <2> DEFINE at(a) == [i \in 1..(Len(scope) + 1) |-> Defined(a, f, Enclosing(scope)[i] \o target)]
    <2>1. at(c) = at(files)  BY <1>1
    <2> HIDE DEF at
    <2>2. \A a : Lexical(a, f, target, scope) = FirstOf(at(a))  BY DEF Lexical, at
    <2> QED  BY <2>1, <2>2
  <1>3. OwnerClass(c, f, scope) = OwnerClass(files, f, scope)
    <2> DEFINE names(a, i) == {s.name : s \in {d \in Defined(a, f, Enclosing(scope)[i]) : d.kind = "Class"}}
               at(a) == [i \in 1..Len(scope) |-> names(a, i)]
    <2>1. \A i : names(c, i) = names(files, i)  BY <1>1
    <2>2. at(c) = at(files)
      <3> HIDE DEF names
      <3> QED  BY <2>1
    <2> HIDE DEF at
    <2>3. \A a : OwnerClass(a, f, scope) = FirstOf(at(a))  BY DEF OwnerClass, at
    <2> QED  BY <2>2, <2>3
  <1>4. OfSelf(c, f, target, scope) = OfSelf(files, f, target, scope)
    <2> DEFINE members(a) == [class \in OwnerClass(a, f, scope) |-> Defined(a, f, class \o Tail(target))]
               all(a) == All(members(a), OwnerClass(a, f, scope))
    <2>1. members(c) = members(files) /\ OwnerClass(c, f, scope) = OwnerClass(files, f, scope)
      BY <1>1, <1>3
    <2>2. \A a : OfSelf(a, f, target, scope) = IF Head(target) # "self" \/ Len(target) = 1 THEN {} ELSE all(a)
      BY DEF OfSelf, All
    <2> HIDE DEF members
    <2> QED  BY <2>1, <2>2
  <1>5. /\ Unbound(c, f, target, scope) <=> Unbound(files, f, target, scope)
        /\ Shadowed(c, f, Head(target), scope) <=> Shadowed(files, f, Head(target), scope)
        /\ \A n : Bound(c, f, target, scope, n) = Bound(files, f, target, scope, n)
    BY DEF Unbound, Shadowed, Bound
  <1> QED  BY <1>1, <1>2, <1>4, <1>5
(* Meanings agree on what is asked of a part.                              *)
LEMMA SameMembers ==
    ASSUME NEW c, NEW files, Part(c, files), Repository(c), NEW f \in DOMAIN c, NEW target,
           NEW scope \in Seq(STRING), NEW n, NEW m \in [Questions(c) -> Meanings(c)], NEW meaning,
           \A question \in Questions(c) : meaning[question] = m[question]
    PROVE  Members(files, f, target, scope, n, meaning) = Members(c, f, target, scope, n, m)
  <1> DEFINE names == Bound(c, f, target, scope, n)
             rest == SubSeq(target, n + 1, Len(target))
             classes(v) == {v[<<f, name, scope>>] : name \in names}
             members(a, class) == {<<class[2], s>> : s \in Defined(a, class[2], class[3] \o rest)}
             symbols(v) == {class \in classes(v) : class # None /\ class[1] = "symbol"}
             all(a, v) == UNION {members(a, class) : class \in symbols(v)}
  <1>1. c[f] = files[f]  BY DEF Part
  <1>2. Bound(files, f, target, scope, n) = names
    <2>1. \A k : Bound(c, f, target, scope, k) = Bound(files, f, target, scope, k)
      <3> HIDE DEF names, rest, classes, members, symbols, all
      <3> QED  BY <1>1 DEF Bound
    <2> QED  BY <2>1
  <1>3. Members(c, f, target, scope, n, m) = all(c, m)  BY DEF Members
  <1>4. Members(files, f, target, scope, n, meaning) = all(files, meaning)  BY <1>2 DEF Members
  <1>5. \A name \in names : <<f, name, scope>> \in Questions(c)
    <2>1. names \subseteq Names  BY DEF Bound, Repository, Extracted
    <2> QED  BY <2>1 DEF Questions
  <1> HIDE DEF names
  <1>6. classes(meaning) = classes(m)  BY <1>5
  <1>7. ASSUME NEW class \in symbols(m) PROVE members(files, class) = members(c, class)
    <2>1. class \in Meanings(c)  BY <1>5
    <2>2. \E g \in DOMAIN c : \E d \in c[g].symbols : class = SymbolId(g, d)
      BY <1>7, <2>1, MeansSomething DEF FileId
    <2>3. class[2] \in DOMAIN c  BY <2>2 DEF SymbolId
    <2>4. c[class[2]] = files[class[2]]  BY <2>3 DEF Part
    <2>5. \A name : Defined(c, class[2], name) = Defined(files, class[2], name)
      <3> HIDE DEF names, rest, classes, members, symbols, all
      <3> QED  BY <2>4, SameDefined
    <2> QED  BY <2>5
  <1> HIDE DEF members
  <1>8. symbols(meaning) = symbols(m)  BY <1>6
  <1> HIDE DEF symbols
  <1>9. all(files, meaning) = all(c, m)
    <2>1. \A x : x \in all(files, meaning) <=> x \in all(c, m)  BY <1>7, <1>8
    <2> HIDE DEF all
    <2> QED  BY <2>1, SameSet
  <1> QED  BY <1>3, <1>4, <1>9

LEMMA SameInstance ==
    ASSUME NEW c, NEW files, Part(c, files), Repository(c), NEW f \in DOMAIN c, NEW target \in Names,
           NEW scope \in Seq(STRING), NEW m \in [Questions(c) -> Meanings(c)], NEW meaning,
           \A question \in Questions(c) : meaning[question] = m[question]
    PROVE  OfInstance(files, f, target, scope, meaning) = OfInstance(c, f, target, scope, m)
  <1> DEFINE members(a, v, i, j) == Members(a, f, target, Enclosing(scope)[i], Len(target) - j, v)
             inner(a, v, i) == [j \in 1..(Len(target) - 1) |-> members(a, v, i, j)]
             outer(a, v) == [i \in 1..(Len(scope) + 1) |-> FirstOf(inner(a, v, i))]
  <1>1. \A a, v : OfInstance(a, f, target, scope, v) = FirstOf(outer(a, v))  BY DEF OfInstance
  <1>2. ASSUME NEW i \in 1..(Len(scope) + 1) PROVE inner(files, meaning, i) = inner(c, m, i)
    <2>1. Enclosing(scope)[i] \in Seq(STRING)  BY EnclosingScopes
    <2>2. \A j : members(files, meaning, i, j) = members(c, m, i, j)  BY <2>1, SameMembers
    <2> HIDE DEF members
    <2> QED  BY <2>2
  <1> HIDE DEF inner
  <1>3. outer(files, meaning) = outer(c, m)  BY <1>2
  <1> HIDE DEF outer
  <1> QED  BY <1>1, <1>3

LEMMA SameResolution ==
    ASSUME NEW c, NEW files, Part(c, files), Repository(c), NEW f \in DOMAIN c, NEW target \in Names,
           NEW scope \in Seq(STRING), NEW m \in [Questions(c) -> Meanings(c)], NEW meaning,
           \A question \in Questions(c) : meaning[question] = m[question]
    PROVE  Resolve(files, f, target, scope, meaning) = Resolve(c, f, target, scope, m)
  <1> DEFINE symbol(a) == FirstOf(<<Lexical(a, f, target, scope), OfSelf(a, f, target, scope)>>)
             imports == c[f].imports
             import(a) == Imported(a, f, imports[Head(target)])
             name(i) == (IF i.name = "*" THEN <<>> ELSE <<i.name>>) \o Tail(target)
             through(path, rest, v) == IF path = None THEN None
                                       ELSE IF rest = <<>> THEN FileId(path)
                                       ELSE v[<<path, rest, <<>>>>]
             follow(a, v) == through(import(a).path, name(import(a)), v)
             silent(a) == Shadowed(a, f, Head(target), scope) \/ Head(target) \notin DOMAIN imports
             owned(s) == SymbolId(f, CHOOSE x \in s : TRUE)
             member(s) == LET x == CHOOSE x \in s : TRUE IN SymbolId(x[1], x[2])
             result(a, v) == IF Unbound(a, f, target, scope) THEN None
                             ELSE IF symbol(a) # {} THEN owned(symbol(a))
                             ELSE IF OfInstance(a, f, target, scope, v) # {} THEN member(OfInstance(a, f, target, scope, v))
                             ELSE IF silent(a) THEN None
                             ELSE follow(a, v)
  <1>1. c[f] = files[f]  BY DEF Part
  <1>2. Resolve(c, f, target, scope, m) = result(c, m)  BY DEF Resolve
  <1>3. Resolve(files, f, target, scope, meaning) = result(files, meaning)  BY <1>1 DEF Resolve
  <1>4. symbol(files) = symbol(c) /\ (Unbound(files, f, target, scope) <=> Unbound(c, f, target, scope))
        /\ (Shadowed(files, f, Head(target), scope) <=> Shadowed(c, f, Head(target), scope))
    BY <1>1, SameNames
  <1>5. OfInstance(files, f, target, scope, meaning) = OfInstance(c, f, target, scope, m)
    BY SameInstance
  <1>6. ASSUME Head(target) \in DOMAIN imports
        PROVE  import(files) = import(c)
    <2>1. Imported(files, f, imports[Head(target)]).path \in (DOMAIN c) \union {None}
      BY <1>6 DEF Part
    <2>2. DOMAIN c \subseteq DOMAIN files  BY DEF Part
    <2> QED  BY <2>1, <2>2, SameImported
  <1>7. ASSUME ~silent(c) PROVE follow(files, meaning) = follow(c, m)
    <2> DEFINE i == import(c)
    <2>1. Head(target) \in DOMAIN imports /\ import(files) = i  BY <1>6, <1>7
    <2>2. imports[Head(target)].name \in STRING  BY <2>1 DEF Repository, Extracted, ImportsOf
    <2>3. i.path \in (DOMAIN c) \union {None} /\ i.name \in STRING \union {"*"}
      BY <2>1, <2>2, ImportedKnown
    <2>4. target \in Seq(STRING) /\ target # <<>>  BY DEF Names
    <2>5. Tail(target) \in Seq(STRING)  BY <2>4, HeadTailProperties
    <2>6. (IF i.name = "*" THEN <<>> ELSE <<i.name>>) \in Seq(STRING)
      BY <2>3, InNoList, InShortList
    <2>7. name(i) \in Seq(STRING)  BY <2>5, <2>6, ConcatProperties
    <2> HIDE DEF name, import, imports
    <2>8. i.path # None /\ name(i) # <<>> => <<i.path, name(i), <<>>>> \in Questions(c)
      BY <2>3, <2>7, InNoList DEF Questions, Names
    <2> HIDE DEF i
    <2>9. through(i.path, name(i), meaning) = through(i.path, name(i), m)  BY <2>8
    <2> QED  BY <2>1, <2>9 DEF i
  <1>8. silent(files) <=> silent(c)  BY <1>4, <1>6
  <1> HIDE DEF symbol, silent, owned, member, follow
  <1>9. result(files, meaning) = result(c, m)  BY <1>4, <1>5, <1>7, <1>8
  <1> QED  BY <1>2, <1>3, <1>9

Agree(c, meaning, m) == \A question \in Questions(c) : \A seen \in SUBSET Questions(c) :
    meaning[question][seen] = m[question][seen]

LEMMA SameHop ==
    ASSUME NEW c, NEW files, Part(c, files), Repository(c), NEW m \in Meant(c), NEW meaning, Agree(c, meaning, m)
    PROVE  Agree(c, Hop(files, meaning), Hop(c, m))
  <1> DEFINE asked(a, v, question, seen) == [k \in Questions(a) |-> v[k][seen \union {question}]]
             answer(a, v, question, seen) ==
                IF question \in seen THEN None
                ELSE Resolve(a, question[1], question[2], question[3], asked(a, v, question, seen))
  <1>1. Questions(c) \subseteq Questions(files)  BY DEF Part, Questions
  <1>2. \A a, v : Hop(a, v) = [question \in Questions(a) |-> [seen \in SUBSET Questions(a) |-> answer(a, v, question, seen)]]
    BY DEF Hop
  <1>3. ASSUME NEW question \in Questions(c), NEW seen \in SUBSET Questions(c)
        PROVE  answer(files, meaning, question, seen) = answer(c, m, question, seen)
    <2>1. question[1] \in DOMAIN c /\ question[2] \in Names /\ question[3] \in Seq(STRING)
      BY DEF Questions
    <2>2. seen \union {question} \in SUBSET Questions(c)  OBVIOUS
    <2>3. asked(c, m, question, seen) \in [Questions(c) -> Meanings(c)]  BY <2>2 DEF Meant
    <2>4. \A k \in Questions(c) : asked(files, meaning, question, seen)[k] = asked(c, m, question, seen)[k]
      BY <1>1, <2>2 DEF Agree
    <2> HIDE DEF asked
    <2>5. Resolve(files, question[1], question[2], question[3], asked(files, meaning, question, seen))
            = Resolve(c, question[1], question[2], question[3], asked(c, m, question, seen))
      BY <2>1, <2>3, <2>4, SameResolution
    <2> QED  BY <2>5
  <1> HIDE DEF answer
  <1>4. \A question \in Questions(c) : \A seen \in SUBSET Questions(c) :
            seen \in SUBSET Questions(files) /\ question \in Questions(files)
    BY <1>1
  <1> QED  BY <1>2, <1>3, <1>4 DEF Agree

(* What a name means in a part of a repository is what it means in it.     *)
LEMMA SameMeaning ==
    ASSUME NEW c, NEW files, Part(c, files), Repository(c), Repository(files),
           NEW f \in DOMAIN c, NEW target \in Names, NEW scope \in Seq(STRING)
    PROVE  Meaning(files, f, target, scope) = Meaning(c, f, target, scope)
  <1> DEFINE n == MaxHops + 1
  <1>1. PICK v : Hopping(v, files) /\ Meaning(files, f, target, scope) = v[n][<<f, target, scope>>][{}]
    BY MeaningSteps
  <1>2. PICK m : Hopping(m, c) /\ Meaning(c, f, target, scope) = m[n][<<f, target, scope>>][{}]
    BY MeaningSteps
  <1>3. n \in Nat  BY ResolverBounds
  <1>4. /\ \A k \in 0..n : m[k] \in Meant(c)
        /\ v[0] = [question \in Questions(files) |-> [seen \in SUBSET Questions(files) |-> None]]
        /\ m[0] = [question \in Questions(c) |-> [seen \in SUBSET Questions(c) |-> None]]
        /\ \A k \in 1..n : v[k] = Hop(files, v[k - 1]) /\ m[k] = Hop(c, m[k - 1])
    BY <1>1, <1>2 DEF Hopping
  <1> HIDE DEF n
  <1> DEFINE good == {k \in Nat : k <= n => Agree(c, v[k], m[k])}
  <1>5. 0 \in good
    <2>1. Questions(c) \subseteq Questions(files)  BY DEF Part, Questions
    <2>2. \A question \in Questions(c) : \A seen \in SUBSET Questions(c) :
            seen \in SUBSET Questions(files) /\ question \in Questions(files)
      BY <2>1
    <2> QED  BY <1>4, <2>2 DEF Agree
  <1>6. ASSUME NEW k \in Nat, k \in good PROVE k + 1 \in good
    <2> SUFFICES ASSUME k + 1 <= n PROVE Agree(c, v[k + 1], m[k + 1])  OBVIOUS
    <2>1. k \in 0..n /\ k + 1 \in 1..n /\ k + 1 - 1 = k  BY <1>3
    <2>2. Agree(c, v[k], m[k])  BY <1>6, <2>1
    <2>3. v[k + 1] = Hop(files, v[k]) /\ m[k + 1] = Hop(c, m[k])
      <3>1. v[k + 1] = Hop(files, v[k + 1 - 1]) /\ m[k + 1] = Hop(c, m[k + 1 - 1])  BY <1>4, <2>1
      <3> QED  BY <2>1, <3>1
    <2>4. m[k] \in Meant(c)  BY <1>4, <2>1
    <2> QED  BY <2>2, <2>3, <2>4, SameHop
  <1>7. Nat \subseteq good
    <2> HIDE DEF good
    <2> QED  BY <1>5, <1>6, Induction
  <1>8. Agree(c, v[n], m[n])  BY <1>3, <1>7
  <1>9. <<f, target, scope>> \in Questions(c)  BY DEF Questions
  <1> QED  BY <1>1, <1>2, <1>8, <1>9 DEF Agree, n
(* What a part says is what the whole repository says of its files.        *)
LEMMA SameFile ==
    ASSUME NEW c, NEW files, Part(c, files), Repository(c), NEW f \in DOMAIN c
    PROVE  /\ f \in DOMAIN files /\ files[f] = c[f]
           /\ \A alias \in DOMAIN c[f].imports :
                ImportPath(files, f, c[f].imports[alias]) = ImportPath(c, f, c[f].imports[alias])
           /\ Outside(files, f) = Outside(c, f)
           /\ Models(files, f) = Models(c, f)
           /\ \A name : OwnerId(files, f, name) = OwnerId(c, f, name)
  <1>1. DOMAIN c \subseteq DOMAIN files /\ files[f] = c[f]  BY DEF Part
  <1>2. ASSUME NEW alias \in DOMAIN c[f].imports
        PROVE  ImportPath(files, f, c[f].imports[alias]) = ImportPath(c, f, c[f].imports[alias])
    <2>1. Imported(files, f, c[f].imports[alias]).path \in (DOMAIN c) \union {None}  BY DEF Part
    <2> QED  BY <1>1, <2>1, SameImported DEF ImportPath
  <1>3. Outside(files, f) = Outside(c, f)
    <2> DEFINE imports == {c[f].imports[alias] : alias \in DOMAIN c[f].imports}
    <2>1. \A i \in imports : ImportPath(files, f, i) = ImportPath(c, f, i)  BY <1>2
    <2> HIDE DEF imports
    <2>2. {i \in imports : ImportPath(files, f, i) = None} = {i \in imports : ImportPath(c, f, i) = None}
      BY <2>1
    <2> QED  BY <1>1, <2>2 DEF Outside, imports
  <1>4. Models(files, f) = Models(c, f)  BY <1>1 DEF Models
  <1>5. \A name : OwnerId(files, f, name) = OwnerId(c, f, name)  BY <1>1 DEF OwnerId
  <1> QED  BY <1>1, <1>2, <1>3, <1>4, <1>5

LEMMA SameContains ==
    ASSUME NEW c, NEW files, Part(c, files), Repository(c), NEW f \in DOMAIN c
    PROVE  ContainsEdges(files, f) = ContainsEdges(c, f)
  <1> DEFINE chain == Chain(f)
             down == {Edge(chain[i], chain[i + 1], "CONTAINS", f, 1, "resolved") : i \in 1..(Len(chain) - 1)}
             endpoints(a) == {Edge(FileId(f), EndpointId(f, d), "DEFINES", f, d.line, "resolved") : d \in a[f].endpoints}
             symbols(a) == {Edge(OwnerId(a, f, s.owner), SymbolId(f, s), "DEFINES", f, s.start, "resolved") :
                                s \in a[f].symbols}
  <1>1. \A a : ContainsEdges(a, f) = down \union endpoints(a) \union symbols(a)
    BY DEF ContainsEdges, Chain
  <1>2. files[f] = c[f] /\ \A name : OwnerId(files, f, name) = OwnerId(c, f, name)  BY SameFile
  <1>3. endpoints(files) = endpoints(c)  BY <1>2
  <1>4. symbols(files) = symbols(c)  BY <1>2
  <1> HIDE DEF down, endpoints, symbols
  <1> QED  BY <1>1, <1>3, <1>4

LEMMA SameImports ==
    ASSUME NEW c, NEW files, Part(c, files), Repository(c), Repository(files), NEW f \in DOMAIN c
    PROVE  ImportEdges(files, f) = ImportEdges(c, f)
  <1> DEFINE imports == c[f].imports
             path(a, alias) == ImportPath(a, f, imports[alias])
             inside(a) == {alias \in DOMAIN imports : path(a, alias) # None}
             meaning(a, alias) == Meaning(a, f, <<alias>>, <<>>)
             modules(a) == {Edge(FileId(f), FileId(path(a, alias)), "IMPORTS", f, imports[alias].line, "resolved") :
                                alias \in inside(a)}
             said(a) == {alias \in inside(a) : meaning(a, alias) \notin {None, FileId(path(a, alias))}}
             names(a) == {Edge(FileId(f), meaning(a, alias), "REFERENCES", f, imports[alias].line, "resolved") :
                                alias \in said(a)}
             outside(o) == {IF IsLocal(i.module)
                            THEN Edge(FileId(f), PackageId(i.module), "IMPORTS", f, i.line, "unresolved")
                            ELSE Edge(FileId(f), PackageId(i.module), "USES_PACKAGE", f, i.line, "resolved") :
                            i \in o}
  <1>1. files[f] = c[f] /\ Outside(files, f) = Outside(c, f)
        /\ \A alias \in DOMAIN imports : path(files, alias) = path(c, alias)  BY SameFile
  <1>2. ImportEdges(c, f) = modules(c) \union names(c) \union outside(Outside(c, f))
    BY DEF ImportEdges
  <1>3. ImportEdges(files, f) = modules(files) \union names(files) \union outside(Outside(files, f))
    BY <1>1 DEF ImportEdges
  <1>4. \A alias \in DOMAIN imports : meaning(files, alias) = meaning(c, alias)
    <2> TAKE alias \in DOMAIN imports
    <2>1. alias \in STRING  BY DEF Repository, Extracted, ImportsOf
    <2>2. <<alias>> \in Seq(STRING) /\ <<>> \in Seq(STRING) /\ <<alias>> # <<>>
      BY <2>1, InShortList, InNoList
    <2>3. <<alias>> \in Names  BY <2>2 DEF Names
    <2> QED  BY <2>2, <2>3, SameMeaning
  <1> HIDE DEF imports, path, meaning
  <1>5. inside(files) = inside(c)  BY <1>1
  <1>6. modules(files) = modules(c)
    <2>1. \A alias \in inside(c) : path(files, alias) = path(c, alias)  BY <1>1
    <2> HIDE DEF inside
    <2> QED  BY <1>5, <2>1
  <1>7. said(files) = said(c)
    <2>1. \A alias \in inside(c) : path(files, alias) = path(c, alias) /\ meaning(files, alias) = meaning(c, alias)
      BY <1>1, <1>4
    <2> HIDE DEF inside
    <2> QED  BY <1>5, <2>1
  <1>8. names(files) = names(c)
    <2>1. \A alias \in said(c) : meaning(files, alias) = meaning(c, alias)  BY <1>4
    <2> HIDE DEF said
    <2> QED  BY <1>7, <2>1
  <1> HIDE DEF modules, names, outside
  <1> QED  BY <1>1, <1>2, <1>3, <1>6, <1>8

LEMMA SameReferences ==
    ASSUME NEW c, NEW files, Part(c, files), Repository(c), Repository(files), NEW f \in DOMAIN c
    PROVE  /\ Unresolved(files, f) = Unresolved(c, f)
           /\ ReferenceEdges(files, f) = ReferenceEdges(c, f)
  <1> DEFINE references == c[f].references
             meaning(a, r) == Meaning(a, f, r.target, r.scope)
             edge(a, r) == Edge(OwnerId(a, f, r.owner), ReferenceTarget(a, f, r), r.kind, f, r.line,
                                IF r \in Unresolved(a, f) THEN "unresolved" ELSE "resolved")
  <1>1. files[f] = c[f] /\ \A name : OwnerId(files, f, name) = OwnerId(c, f, name)  BY SameFile
  <1>2. \A r \in references : meaning(files, r) = meaning(c, r)
    <2>1. \A r \in references : r.target \in Names /\ r.scope \in Seq(STRING)
      BY DEF Repository, Extracted, ReferencesOf
    <2> QED  BY <2>1, SameMeaning
  <1>3. Unresolved(files, f) = Unresolved(c, f)
    <2>1. \A a : Unresolved(a, f) = {r \in a[f].references : meaning(a, r) = None}
      BY DEF Unresolved
    <2> HIDE DEF meaning
    <2> QED  BY <1>1, <1>2, <2>1
  <1>4. \A r \in references : ReferenceTarget(files, f, r) = ReferenceTarget(c, f, r)
    BY <1>2 DEF ReferenceTarget
  <1>5. \A r \in references : edge(files, r) = edge(c, r)  BY <1>1, <1>3, <1>4
  <1>6. \A a : ReferenceEdges(a, f) = {edge(a, r) : r \in a[f].references}  BY DEF ReferenceEdges
  <1> HIDE DEF edge, meaning
  <1>7. ReferenceEdges(files, f) = ReferenceEdges(c, f)  BY <1>1, <1>5, <1>6
  <1> QED  BY <1>3, <1>7

LEMMA SameHandlers ==
    ASSUME NEW c, NEW files, Part(c, files), Repository(c), Repository(files), NEW f \in DOMAIN c
    PROVE  /\ \A e \in c[f].endpoints : Meaning(files, f, e.handler, <<>>) = Meaning(c, f, e.handler, <<>>)
           /\ HandlerEdges(files, f) = HandlerEdges(c, f)
  <1> DEFINE endpoints == c[f].endpoints
             meaning(a, e) == Meaning(a, f, e.handler, <<>>)
             edge(a, e) == IF meaning(a, e) = None
                           THEN Edge(EndpointId(f, e), HandlerId(f, e.handler), "HANDLES", f, e.line, "unresolved")
                           ELSE Edge(EndpointId(f, e), meaning(a, e), "HANDLES", f, e.line, "resolved")
  <1>1. files[f] = c[f]  BY SameFile
  <1>2. \A e \in endpoints : meaning(files, e) = meaning(c, e)
    <2>1. \A e \in endpoints : e.handler \in Names /\ <<>> \in Seq(STRING)
      BY InNoList DEF Repository, Extracted, EndpointsOf
    <2> QED  BY <2>1, SameMeaning
  <1>3. \A a : HandlerEdges(a, f) = {edge(a, e) : e \in a[f].endpoints}  BY DEF HandlerEdges
  <1>4. \A e \in endpoints : edge(files, e) = edge(c, e)
    <2> HIDE DEF meaning
    <2> QED  BY <1>2
  <1> HIDE DEF edge
  <1> QED  BY <1>1, <1>2, <1>3, <1>4

LEMMA SameEntities ==
    ASSUME NEW c, NEW files, Part(c, files), Repository(c), NEW f \in DOMAIN c
    PROVE  EntityEdges(files, f) = EntityEdges(c, f)
  BY SameFile DEF EntityEdges

(* The models of a part are those that are symbols of it.                  *)
LEMMA SameModels ==
    ASSUME NEW c, NEW files, Part(c, files), Repository(c), NEW f, NEW id \in Meanings(c), id # None
    PROVE  id \in KnownModels(files, <<>>, f) <=> id \in KnownModels(c, <<>>, f)
  <1> DEFINE of(a, h) == {SymbolId(h, s) : s \in Models(a, h)}
             models(a) == UNION {of(a, h) : h \in DOMAIN a}
  <1>1. \A a : KnownModels(a, <<>>, f) = models(a)  BY DEF KnownModels
  <1>2. DOMAIN c \subseteq DOMAIN files /\ \A h \in DOMAIN c : Models(files, h) = Models(c, h)
    BY SameFile DEF Part
  <1>3. ASSUME NEW h \in DOMAIN c, id \in of(c, h) PROVE id \in models(files)
    <2>1. h \in DOMAIN files /\ of(files, h) = of(c, h)  BY <1>2
    <2> HIDE DEF of
    <2> QED  BY <1>3, <2>1
  <1>4. ASSUME NEW h \in DOMAIN files, id \in of(files, h) PROVE id \in models(c)
    <2>1. PICK s \in Models(files, h) : id = SymbolId(h, s)  BY <1>4
    <2>2. \E g \in DOMAIN c : id[2] = g /\ id[1] \in {"file", "symbol"}
      BY MeansSomething DEF FileId, SymbolId
    <2>3. id[2] = h  BY <2>1 DEF SymbolId
    <2>4. h \in DOMAIN c  BY <2>2, <2>3
    <2>5. id \in of(c, h)  BY <1>2, <1>4, <2>4
    <2> HIDE DEF of
    <2> QED  BY <2>4, <2>5
  <1>5. ASSUME id \in models(c) PROVE \E h \in DOMAIN c : id \in of(c, h)  BY <1>5
  <1>6. ASSUME id \in models(files) PROVE \E h \in DOMAIN files : id \in of(files, h)  BY <1>6
  <1> HIDE DEF of, models
  <1> QED  BY <1>1, <1>3, <1>4, <1>5, <1>6

LEMMA SameOperations ==
    ASSUME NEW c, NEW files, Part(c, files), Repository(c), Repository(files), NEW f \in DOMAIN c
    PROVE  OperationEdges(files, f, KnownModels(files, <<>>, f)) = OperationEdges(c, f, KnownModels(c, <<>>, f))
  <1> DEFINE asked(r) == {Head(r.target)} \union r.models
             meanings(a, r) == {Meaning(a, f, <<m>>, r.scope) : m \in asked(r)} \ {None}
             models(a) == KnownModels(a, <<>>, f)
             type(r) == IF Last(r.target) \in Writes THEN "WRITES_TO" ELSE "READS_FROM"
             edge(a, r, id) == Edge(OwnerId(a, f, r.owner), EntityId(id), type(r), f, r.line, "probable")
             edges(a, r) == {edge(a, r, id) : id \in meanings(a, r) \intersect models(a)}
             all(a) == UNION {edges(a, r) : r \in OperationsOf(a, f)}
  <1>1. \A a : OperationEdges(a, f, KnownModels(a, <<>>, f)) = all(a)
    BY DEF OperationEdges, OperationsOf
  <1>2. files[f] = c[f] /\ \A name : OwnerId(files, f, name) = OwnerId(c, f, name)  BY SameFile
  <1>3. OperationsOf(files, f) = OperationsOf(c, f)  BY <1>2 DEF OperationsOf
  <1>4. ASSUME NEW r \in OperationsOf(c, f) PROVE edges(files, r) = edges(c, r)
    <2>1. r.target \in Names /\ r.scope \in Seq(STRING) /\ r.models \subseteq STRING
      BY DEF OperationsOf, Repository, Extracted, ReferencesOf
    <2>2. Head(r.target) \in STRING  BY <2>1, HeadTailProperties DEF Names
    <2>3. \A m \in asked(r) : <<m>> \in Names
      <3>1. \A m \in asked(r) : m \in STRING  BY <2>1, <2>2
      <3>2. \A m \in asked(r) : <<m>> \in Seq(STRING) /\ <<m>> # <<>>  BY <3>1, InShortList
      <3> QED  BY <3>2 DEF Names
    <2>4. \A m \in asked(r) : /\ Meaning(files, f, <<m>>, r.scope) = Meaning(c, f, <<m>>, r.scope)
                              /\ Meaning(c, f, <<m>>, r.scope) \in Meanings(c)
      BY <2>1, <2>3, SameMeaning, MeaningKnown
    <2> HIDE DEF asked
    <2>5. meanings(files, r) = meanings(c, r) /\ meanings(c, r) \subseteq Meanings(c) \ {None}
      BY <2>4
    <2>6. \A id \in meanings(c, r) : id \in models(files) <=> id \in models(c)  BY <2>5, SameModels
    <2> HIDE DEF meanings, models
    <2>7. meanings(files, r) \intersect models(files) = meanings(c, r) \intersect models(c)
      BY <2>5, <2>6
    <2>8. \A id : edge(files, r, id) = edge(c, r, id)  BY <1>2
    <2> HIDE DEF edge
    <2> QED  BY <2>7, <2>8
  <1> HIDE DEF edges
  <1>5. all(files) = all(c)
    <2>1. \A x : x \in all(files) <=> x \in all(c)  BY <1>3, <1>4
    <2> HIDE DEF all
    <2> QED  BY <2>1, SameSet
  <1> HIDE DEF all
  <1> QED  BY <1>1, <1>5

LEMMA SameEdges ==
    ASSUME NEW c, NEW files, Part(c, files), Repository(c), Repository(files), NEW f \in DOMAIN c
    PROVE  EdgesSaid(files, f) = EdgesSaid(c, f)
  BY SameContains, SameImports, SameReferences, SameHandlers, SameEntities, SameOperations DEF EdgesSaid

LEMMA PackageOfNoFile ==
    ASSUME NEW files, NEW order, NEW f, NEW n, IsPackage(files, order, f, n)
    PROVE  n.file = None
  <1>1. PICK i \in Outside(files, f) : n = PackageNode(files, order, i)  BY DEF IsPackage
  <1> QED  BY <1>1, NodeFields DEF PackageNode

LEMMA SameNodes ==
    ASSUME NEW c, NEW files, Part(c, files), Repository(c), Repository(files), NEW f \in DOMAIN c, NEW n, n.file # None,
           NEW order, NEW other
    PROVE  NodeOfFile(files, order, f, n) <=> NodeOfFile(c, other, f, n)
  <1>1. files[f] = c[f] /\ Outside(files, f) = Outside(c, f) /\ Models(files, f) = Models(c, f)
    BY SameFile
  <1>2. LastUnresolved(files, f) = LastUnresolved(c, f)  BY SameReferences DEF LastUnresolved
  <1>3. LastUnhandled(files, f) = LastUnhandled(c, f)
    <2>1. \A e \in c[f].endpoints : Meaning(files, f, e.handler, <<>>) = Meaning(c, f, e.handler, <<>>)
      BY SameHandlers
    <2> QED  BY <1>1, <2>1 DEF LastUnhandled
  <1>4. /\ IsFile(files, f, n) <=> IsFile(c, f, n)
        /\ IsSymbol(files, f, n) <=> IsSymbol(c, f, n)
        /\ IsEndpoint(files, f, n) <=> IsEndpoint(c, f, n)
        /\ IsUnresolved(files, f, n) <=> IsUnresolved(c, f, n)
        /\ IsHandler(files, f, n) <=> IsHandler(c, f, n)
        /\ IsEntity(files, f, n) <=> IsEntity(c, f, n)
    BY <1>1, <1>2, <1>3 DEF IsFile, FileNode, IsSymbol, IsEndpoint, IsUnresolved, IsHandler, IsEntity
  <1>5. ~IsPackage(files, order, f, n) /\ ~IsPackage(c, other, f, n)  BY PackageOfNoFile
  <1> QED  BY <1>4, <1>5 DEF NodeOfFile
-----------------------------------------------------------------------------
(* What a change concerns.                                                 *)

LEMMA EdgesOfFile ==
    ASSUME NEW files, Repository(files), NEW f \in DOMAIN files, NEW sofar, NEW e,
           e \in EdgesSaid(files, f) \/ e \in PackageEdges(files, f, sofar)
    PROVE  /\ e.file = f
           /\ e.type = "IMPORTS" => e.source = FileId(f)
           /\ e.type \in {"CONTAINS", "DEFINES"} => e \in ContainsEdges(files, f)
           /\ e \in PackageEdges(files, f, sofar) =>
                /\ e.type = "USES_PACKAGE"
                /\ \E r \in files[f].references : e.line = r.line
  <1> DEFINE Goal == /\ e.file = f
                     /\ e.type = "IMPORTS" => e.source = FileId(f)
                     /\ e.type \in {"CONTAINS", "DEFINES"} => e \in ContainsEdges(files, f)
  <1>1. ASSUME NEW source, NEW target, NEW type, NEW line, NEW resolution, e = Edge(source, target, type, f, line, resolution)
        PROVE  e.source = source /\ e.type = type /\ e.file = f /\ e.line = line
    BY <1>1, EdgeFields
  <1>2. ASSUME e \in ContainsEdges(files, f) PROVE Goal
    <2>1. \E source, target, type, line, resolution :
            e = Edge(source, target, type, f, line, resolution) /\ type \in {"CONTAINS", "DEFINES"}
      BY <1>2 DEF ContainsEdges
    <2> QED  BY <1>1, <1>2, <2>1
  <1>3. ASSUME e \in ImportEdges(files, f) PROVE Goal
    <2>1. \E target, type, line, resolution :
            /\ e = Edge(FileId(f), target, type, f, line, resolution)
            /\ type \in {"IMPORTS", "REFERENCES", "USES_PACKAGE"}  BY <1>3 DEF ImportEdges
    <2> QED  BY <1>1, <2>1
  <1>4. ASSUME e \in ReferenceEdges(files, f) PROVE Goal
    <2>1. PICK r \in files[f].references : \E source, target, resolution :
            e = Edge(source, target, r.kind, f, r.line, resolution)
      BY <1>4 DEF ReferenceEdges
    <2>2. r.kind \in {"CALLS", "EXTENDS"}  BY DEF Repository, Extracted, ReferencesOf
    <2>3. e.file = f /\ e.type = r.kind  BY <1>1, <2>1
    <2> QED  BY <2>2, <2>3
  <1>5. ASSUME e \in HandlerEdges(files, f) PROVE Goal
    <2>1. \E source, target, line, resolution : e = Edge(source, target, "HANDLES", f, line, resolution)
      BY <1>5 DEF HandlerEdges
    <2> QED  BY <1>1, <2>1
  <1>6. ASSUME e \in EntityEdges(files, f) PROVE Goal
    <2>1. \E source, target, line, resolution : e = Edge(source, target, "BELONGS_TO", f, line, resolution)
      BY <1>6 DEF EntityEdges
    <2> QED  BY <1>1, <2>1
  <1>7. ASSUME e \in OperationEdges(files, f, KnownModels(files, <<>>, f)) PROVE Goal
    <2>1. PICK r \in OperationsOf(files, f) : \E id \in KnownModels(files, <<>>, f) : EdgeOfOperation(files, f, r, id, e)
      BY <1>7, EdgesOfOperations
    <2>2. PICK id \in KnownModels(files, <<>>, f) : EdgeOfOperation(files, f, r, id, e)  BY <2>1
    <2>3. e.file = f /\ e.type \in {"WRITES_TO", "READS_FROM"}
      BY <2>2, EdgeFields DEF EdgeOfOperation
    <2> QED  BY <2>3
  <1>8. ASSUME e \in PackageEdges(files, f, sofar)
        PROVE  /\ e.file = f /\ e.type = "USES_PACKAGE"
               /\ \E r \in files[f].references : e.line = r.line
    <2>1. PICK r : EdgeOfCall(files, f, r, e)  BY <1>8, EdgesOfPackages
    <2>2. r \in files[f].references /\ e.file = f /\ e.type = "USES_PACKAGE" /\ e.line = r.line
      BY <2>1 DEF EdgeOfCall, Edge
    <2> QED  BY <2>2
  <1>9. CASE e \in EdgesSaid(files, f)
    <2>1. Goal  BY <1>2, <1>3, <1>4, <1>5, <1>6, <1>7, <1>9 DEF EdgesSaid
    <2> QED  BY <1>8, <2>1
  <1> QED  BY <1>8, <1>9

(* Imports are of files that are there.                                    *)
LEMMA ImportOfFile ==
    ASSUME NEW v, Indexed(v), NEW e \in v.graph.edges, e.type = "IMPORTS"
    PROVE  \E f \in Paths : e.source = FileId(f)
  <1> DEFINE files == Analyzed(v)
             order == ScanFiles(v.sources)
  <1>1. Repository(files) /\ v.graph = ResolveGraph(files, order)  BY VersionBuilt
  <1> HIDE DEF files, order
  <1>2. PICK f \in DOMAIN files : e \in EdgesSaid(files, f) \/ e \in PackageEdges(files, f, UpTo(order, f))
    BY <1>1, GraphEdges
  <1>3. e.source = FileId(f)  BY <1>1, <1>2, EdgesOfFile
  <1>4. f \in Paths  BY <1>1, <1>2 DEF Repository
  <1> QED  BY <1>3, <1>4

LEMMA ImportIsEdge ==
    ASSUME NEW v, Indexed(v), NEW f \in DOMAIN Analyzed(v), NEW alias \in DOMAIN Analyzed(v)[f].imports,
           ImportPath(Analyzed(v), f, Analyzed(v)[f].imports[alias]) # None
    PROVE  \E e \in v.graph.edges :
            /\ e.type = "IMPORTS" /\ e.source = FileId(f)
            /\ e.target = FileId(ImportPath(Analyzed(v), f, Analyzed(v)[f].imports[alias]))
  <1> DEFINE files == Analyzed(v)
             order == ScanFiles(v.sources)
             path == ImportPath(files, f, files[f].imports[alias])
             e == Edge(FileId(f), FileId(path), "IMPORTS", f, files[f].imports[alias].line, "resolved")
  <1>1. v.graph = ResolveGraph(files, order)  BY VersionBuilt
  <1>2. e \in ImportEdges(files, f)  BY DEF ImportEdges
  <1>3. e \in EdgesSaid(files, f)  BY <1>2 DEF EdgesSaid
  <1>4. e.type = "IMPORTS" /\ e.source = FileId(f) /\ e.target = FileId(path)  BY EdgeFields
  <1> HIDE DEF e
  <1>5. e \in v.graph.edges  BY <1>1, <1>3, GraphEdges
  <1> QED  BY <1>4, <1>5

ImportNet(g) == Ends({e \in g.edges : e.type = "IMPORTS"})

LEMMA InReaches ==
    ASSUME NEW g, NEW F, NEW p
    PROVE  p \in Reaches(g, F) <=>
            p \in Paths /\ \E f \in F : Near(Reversed(ImportNet(g)), Cardinality(Paths), FileId(f), FileId(p))
  <1> DEFINE n == Cardinality(Paths)
             of == [f \in F |-> Within(Reversed(ImportNet(g)), FileId(f), n)[n]]
  <1>1. Reaches(g, F) = {f \in Paths : FileId(f) \in All(of, F)}  BY DEF Reaches, All, ImportNet
  <1>2. \A id : id \in All(of, F) <=> \E f \in F : id \in of[f]
    <2> HIDE DEF of
    <2> QED  BY InUnion
  <1>3. \A f \in F : \A id : id \in of[f] <=> Near(Reversed(ImportNet(g)), n, FileId(f), id)
    BY DEF Near
  <1> HIDE DEF of
  <1> QED  BY <1>1, <1>2, <1>3

(* What imports a file that is concerned is concerned.                     *)
LEMMA ImportersReached ==
    ASSUME NEW v, Indexed(v), NEW F \in SUBSET Paths, NEW f \in Paths, NEW p \in F \union Reaches(v.graph, F),
           NEW e \in v.graph.edges, e.type = "IMPORTS", e.source = FileId(f), e.target = FileId(p)
    PROVE  f \in Reaches(v.graph, F)
  <1> DEFINE net == ImportNet(v.graph)
             back == Reversed(net)
             S == {FileId(q) : q \in Paths}
             n == Cardinality(Paths)
  <1>1. IsFiniteSet(S) /\ Cardinality(S) <= n /\ Cardinality(S) \in Nat /\ n \in Nat
    <2>1. IsFiniteSet(Paths)  BY RepositoryContents
    <2>2. [q \in Paths |-> FileId(q)] \in Surjection(Paths, S)  BY DEF Surjection
    <2> HIDE DEF S
    <2> QED  BY <2>1, <2>2, FS_Surjection, FS_CardinalityType
  <1>2. Pairs(net)  BY DEF Pairs, ImportNet, Ends
  <1>3. Pairs(back)  BY <1>2, NearReversed
  <1>4. <<FileId(p), FileId(f)>> \in back
    <2>1. <<FileId(f), FileId(p)>> \in net  BY DEF ImportNet, Ends
    <2> HIDE DEF net
    <2> QED  BY <2>1 DEF Reversed
  <1>5. \A a, c : <<a, c>> \in back => c \in S
    <2>1. \A a, c : <<a, c>> \in back => \E d \in v.graph.edges : d.type = "IMPORTS" /\ d.source = c
      BY DEF Reversed, ImportNet, Ends
    <2> QED  BY <2>1, ImportOfFile
  <1> HIDE DEF net, back
  <1>6. PICK q \in F : Leads(back, FileId(q), FileId(p))
    <2>1. CASE p \in F  BY <1>3, <2>1, LeadsSteps
    <2>2. CASE p \in Reaches(v.graph, F)  BY <1>1, <2>2, InReaches DEF Leads, back, net
    <2> QED  BY <2>1, <2>2
  <1>7. Leads(back, FileId(p), FileId(f))  BY <1>3, <1>4, LeadsSteps
  <1>8. Leads(back, FileId(q), FileId(f))  BY <1>3, <1>6, <1>7, LeadsSteps
  <1>9. FileId(q) \in S /\ FileId(f) \in S  OBVIOUS
  <1>10. \A c : Leads(back, FileId(q), c) => c \in S
    <2> SUFFICES ASSUME NEW c, Leads(back, FileId(q), c), c # FileId(q) PROVE c \in S  BY <1>9
    <2>1. \E d : <<d, c>> \in back  BY <1>3, LeadsFar
    <2> HIDE DEF S
    <2> QED  BY <1>5, <2>1
  <1>11. Near(back, Cardinality(S), FileId(q), FileId(f))
    <2> HIDE DEF S
    <2> QED  BY <1>1, <1>3, <1>8, <1>9, <1>10, NearEnough
  <1>12. Near(back, n, FileId(q), FileId(f))
    <2> HIDE DEF S, n
    <2> QED  BY <1>1, <1>3, <1>11, NearMore
  <1> QED  BY <1>12, InReaches DEF back, net
(* What is edited between two versions, what that concerns, and the rest   *)
(* of a version.                                                           *)
EditedIn(u, v) == {f \in Paths : u.sources[f] # v.sources[f]}

Concerned(u, v) == Reaches(u.graph, EditedIn(u, v)) \union Reaches(v.graph, EditedIn(u, v)) \union EditedIn(u, v)

Rest(u, v) == [f \in (DOMAIN Analyzed(u)) \ Concerned(u, v) |-> Analyzed(u)[f]]

LEMMA Unedited ==
    ASSUME NEW u, NEW v, Indexed(u), Indexed(v), NEW f \in Paths, f \notin EditedIn(u, v)
    PROVE  /\ f \in DOMAIN Analyzed(u) <=> f \in DOMAIN Analyzed(v)
           /\ f \in DOMAIN Analyzed(u) => Analyzed(u)[f] = Analyzed(v)[f]
  <1>1. u.sources[f] = v.sources[f]  BY DEF EditedIn
  <1>2. \A w : f \in ToSet(ScanFiles(w.sources)) <=> f \in ToSet(ScanOrder) /\ w.sources[f] \notin {Absent, Skipped}
    BY ScannedFiles
  <1>3. \A w : /\ DOMAIN Analyzed(w) = ToSet(ScanFiles(w.sources))
               /\ f \in DOMAIN Analyzed(w) => Analyzed(w)[f] = Analyze(w.sources[f])
    BY DEF Analyzed
  <1> QED  BY <1>1, <1>2, <1>3

LEMMA SameConcerned ==
    ASSUME NEW u, NEW v
    PROVE  EditedIn(u, v) = EditedIn(v, u) /\ Concerned(u, v) = Concerned(v, u)
  <1>1. EditedIn(u, v) = EditedIn(v, u)  BY DEF EditedIn
  <1> QED  BY <1>1 DEF Concerned

LEMMA SameRest ==
    ASSUME NEW u, NEW v, Indexed(u), Indexed(v)
    PROVE  Rest(u, v) = Rest(v, u)
  <1> DEFINE of(w) == (DOMAIN Analyzed(w)) \ Concerned(u, v)
             rest(w) == [f \in of(w) |-> Analyzed(w)[f]]
  <1>1. Rest(u, v) = rest(u) /\ Rest(v, u) = rest(v)  BY SameConcerned DEF Rest
  <1>2. DOMAIN Analyzed(u) \subseteq Paths /\ DOMAIN Analyzed(v) \subseteq Paths
    BY VersionBuilt DEF Repository
  <1>3. \A f \in Paths \ Concerned(u, v) :
            /\ f \in DOMAIN Analyzed(u) <=> f \in DOMAIN Analyzed(v)
            /\ f \in DOMAIN Analyzed(u) => Analyzed(u)[f] = Analyzed(v)[f]
    BY Unedited DEF Concerned
  <1>4. of(u) = of(v)  BY <1>2, <1>3
  <1>5. \A f \in of(u) : Analyzed(u)[f] = Analyzed(v)[f]  BY <1>2, <1>3
  <1> HIDE DEF of
  <1>6. rest(u) = rest(v)  BY <1>4, <1>5
  <1> QED  BY <1>1, <1>6

(* A module is found at another path only by way of one that was edited.   *)
LEMMA ModulePathEdited ==
    ASSUME NEW a, NEW b, NEW E, \A p \in Paths \ E : p \in DOMAIN a <=> p \in DOMAIN b,
           NEW f, NEW module, ModulePath(a, f, module) \notin E
    PROVE  ModulePath(b, f, module) \in E \union {ModulePath(a, f, module)}
  <1> DEFINE candidates == CandidatesAt(Place(f, module))
             known(c) == {i \in DOMAIN candidates : candidates[i] \in DOMAIN c}
             least(c) == Min(known(c))
  <1>1. \A c : ModulePath(c, f, module) = IF known(c) = {} THEN None ELSE candidates[least(c)]
    BY DEF ModulePath
  <1>2. candidates \in Seq(Paths)  BY CandidatePaths
  <1>3. DOMAIN candidates \subseteq Nat /\ \A i \in DOMAIN candidates : candidates[i] \in Paths
    <2> HIDE DEF candidates
    <2> QED  BY <1>2, FiniteDomain
  <1>4. \A c : known(c) \subseteq Nat  BY <1>3
  <1>5. \A c : known(c) # {} => least(c) \in known(c) /\ \A i \in known(c) : least(c) <= i
    <2> HIDE DEF known
    <2> QED  BY <1>4, MinIsLeast
  <1>6. \A i \in DOMAIN candidates : candidates[i] \notin E => (i \in known(a) <=> i \in known(b))
    BY <1>3
  <1> HIDE DEF candidates, known, least
  <1>7. CASE known(b) = {}
    <2>1. ASSUME known(a) # {} PROVE FALSE
      <3>1. least(a) \in known(a) /\ candidates[least(a)] \notin E  BY <1>1, <1>5, <2>1
      <3>2. least(a) \in DOMAIN candidates  BY <3>1 DEF known
      <3> QED  BY <1>6, <1>7, <3>1, <3>2
    <2> QED  BY <1>1, <1>7, <2>1
  <1>8. CASE known(b) # {} /\ candidates[least(b)] \notin E
    <2>1. least(b) \in known(b) /\ least(b) \in DOMAIN candidates  BY <1>5, <1>8 DEF known
    <2>2. least(b) \in known(a)  BY <1>6, <1>8, <2>1
    <2>3. least(a) \in known(a) /\ least(a) <= least(b) /\ least(a) \in DOMAIN candidates
      BY <1>5, <2>2 DEF known
    <2>4. candidates[least(a)] \notin E  BY <1>1, <2>2
    <2>5. least(a) \in known(b)  BY <1>6, <2>3, <2>4
    <2>6. least(b) <= least(a) /\ least(a) \in Nat /\ least(b) \in Nat
      BY <1>4, <1>5, <2>2, <2>5, <2>1, <2>3
    <2>7. least(a) = least(b)  BY <2>3, <2>6
    <2> QED  BY <1>1, <1>8, <2>2, <2>7
  <1>9. CASE known(b) # {} /\ candidates[least(b)] \in E  BY <1>1, <1>9
  <1> QED  BY <1>7, <1>8, <1>9

LEMMA ImportedEdited ==
    ASSUME NEW a, NEW b, NEW E \in SUBSET Paths, \A p \in Paths \ E : p \in DOMAIN a <=> p \in DOMAIN b,
           NEW f, NEW import, ImportPath(a, f, import) \notin E
    PROVE  ImportPath(b, f, import) \in E \union {ImportPath(a, f, import)}
  <1> DEFINE path(c) == ModulePath(c, f, import.module)
             asModule(c) == ModulePath(c, f, Submodule(import.module, import.name))
  <1>1. \A c : ImportPath(c, f, import) = IF path(c) # None \/ import.name = "*" THEN path(c) ELSE asModule(c)
    BY DEF ImportPath, Imported
  <1>2. path(a) \notin E => path(b) \in E \union {path(a)}  BY ModulePathEdited
  <1>3. asModule(a) \notin E => asModule(b) \in E \union {asModule(a)}  BY ModulePathEdited
  <1>4. None \notin E  BY RepositoryContents
  <1> HIDE DEF path, asModule
  <1> QED  BY <1>1, <1>2, <1>3, <1>4

(* What a file imports that is not concerned is not concerned.             *)
LEMMA RestClosed ==
    ASSUME NEW u, NEW v, Indexed(u), Indexed(v), NEW f \in DOMAIN Analyzed(u), f \notin Concerned(u, v),
           NEW alias \in DOMAIN Analyzed(u)[f].imports
    PROVE  ImportPath(Analyzed(u), f, Analyzed(u)[f].imports[alias]) \in (DOMAIN Rest(u, v)) \union {None}
  <1> DEFINE a == Analyzed(u)
             b == Analyzed(v)
             E == EditedIn(u, v)
             import == a[f].imports[alias]
             p == ImportPath(a, f, import)
             q == ImportPath(b, f, import)
  <1>1. Repository(a) /\ Repository(b)  BY VersionBuilt
  <1>2. f \in Paths /\ import.name \in STRING  BY <1>1 DEF Repository, Extracted, ImportsOf
  <1>3. p \in (DOMAIN a) \union {None}
    <2> HIDE DEF a, import
    <2> QED  BY <1>2, ImportedKnown DEF ImportPath
  <1>4. E \in SUBSET Paths /\ None \notin Paths  BY RepositoryContents DEF EditedIn
  <1>5. \A g \in Paths \ E : g \in DOMAIN a <=> g \in DOMAIN b  BY Unedited
  <1> SUFFICES ASSUME p # None PROVE p \notin Concerned(u, v)  BY <1>3 DEF Rest
  <1>6. p \in DOMAIN a /\ p \in Paths  BY <1>1, <1>3 DEF Repository
  <1>7. PICK e \in u.graph.edges : e.type = "IMPORTS" /\ e.source = FileId(f) /\ e.target = FileId(p)
    BY ImportIsEdge
  <1> HIDE DEF p, E
  <1>8. ASSUME p \in E \union Reaches(u.graph, E) PROVE FALSE
    <2>1. f \in Reaches(u.graph, E)  BY <1>2, <1>4, <1>7, <1>8, ImportersReached
    <2> QED  BY <2>1 DEF Concerned, E
  <1>9. ASSUME p \notin E, p \in Reaches(v.graph, E) PROVE FALSE
    <2>1. f \notin E  BY DEF Concerned, E
    <2>2. f \in DOMAIN b /\ a[f] = b[f]  BY <1>2, <2>1, Unedited DEF E
    <2>3. q \in E \union {p}
      <3> HIDE DEF a, b, q, import
      <3>1. ImportPath(a, f, import) \notin E  BY <1>9 DEF p
      <3>2. ImportPath(b, f, import) \in E \union {ImportPath(a, f, import)}
        BY <1>4, <1>5, <3>1, ImportedEdited
      <3> QED  BY <3>2 DEF p, q
    <2>4. q # None  BY <1>4, <1>6, <2>3
    <2>5. alias \in DOMAIN b[f].imports /\ import = b[f].imports[alias]  BY <2>2
    <2>6. PICK d \in v.graph.edges : d.type = "IMPORTS" /\ d.source = FileId(f) /\ d.target = FileId(q)
      BY <2>2, <2>4, <2>5, ImportIsEdge
    <2> HIDE DEF q
    <2>7. q \in E \union Reaches(v.graph, E)  BY <1>9, <2>3
    <2>8. f \in Reaches(v.graph, E)  BY <1>2, <1>4, <2>6, <2>7, ImportersReached
    <2> QED  BY <2>8 DEF Concerned, E
  <1> QED  BY <1>8, <1>9 DEF Concerned, E

LEMMA RestIsPart ==
    ASSUME NEW u, NEW v, Indexed(u), Indexed(v)
    PROVE  Part(Rest(u, v), Analyzed(u)) /\ Repository(Rest(u, v))
  <1> DEFINE a == Analyzed(u)
             c == Rest(u, v)
  <1>1. DOMAIN c = (DOMAIN a) \ Concerned(u, v) /\ \A f \in DOMAIN c : c[f] = a[f]  BY DEF Rest
  <1>2. Repository(a)  BY VersionBuilt
  <1>3. ASSUME NEW f \in DOMAIN c, NEW alias \in DOMAIN c[f].imports
        PROVE  Imported(a, f, c[f].imports[alias]).path \in (DOMAIN c) \union {None}
    <2>1. f \in DOMAIN a /\ f \notin Concerned(u, v) /\ c[f] = a[f]  BY <1>1
    <2>2. ImportPath(a, f, a[f].imports[alias]) \in (DOMAIN c) \union {None}  BY <2>1, RestClosed
    <2> QED  BY <2>1, <2>2 DEF ImportPath
  <1>4. IsFiniteSet(DOMAIN c)  BY <1>1, <1>2, FS_Subset DEF Repository
  <1> HIDE DEF a, c
  <1>5. Part(c, a)  BY <1>1, <1>3 DEF Part
  <1>6. Repository(c)  BY <1>1, <1>2, <1>4 DEF Repository
  <1> QED  BY <1>5, <1>6 DEF a, c
(* An edge of a file that is not concerned is in both graphs, unless it is *)
(* of a call of a package.                                                 *)
LEMMA EdgeKept ==
    ASSUME NEW u, NEW v, Indexed(u), Indexed(v), NEW e \in u.graph.edges, e.file \notin Concerned(u, v),
           e.type = "USES_PACKAGE" => OfImport(u, EdgeId(e)) \/ OfImport(v, EdgeId(e))
    PROVE  e \in v.graph.edges
  <1> DEFINE a == Analyzed(u)
             b == Analyzed(v)
             order == ScanFiles(u.sources)
             other == ScanFiles(v.sources)
  <1>1. /\ Repository(a) /\ u.graph = ResolveGraph(a, order)
        /\ Repository(b) /\ v.graph = ResolveGraph(b, other)  BY VersionBuilt
  <1>2. PICK f \in DOMAIN a : e \in EdgesSaid(a, f) \/ e \in PackageEdges(a, f, UpTo(order, f))
    BY <1>1, GraphEdges
  <1>3. e.file = f
    <2> HIDE DEF a, order
    <2> QED  BY <1>1, <1>2, EdgesOfFile
  <1>4. f \in Paths /\ f \notin EditedIn(u, v)  BY <1>1, <1>3 DEF Repository, Concerned
  <1>5. f \in DOMAIN b /\ a[f] = b[f]  BY <1>4, Unedited
  <1>6. ASSUME e \in PackageEdges(a, f, UpTo(order, f)) PROVE FALSE
    <2>1. e.type = "USES_PACKAGE" /\ \E r \in a[f].references : e.line = r.line
      <3> HIDE DEF a, order
      <3> QED  BY <1>1, <1>6, EdgesOfFile
    <2>2. PICK r \in a[f].references : e.line = r.line  BY <2>1
    <2>3. EdgeId(e)[4] = f /\ EdgeId(e)[5] = r.line  BY <1>3, <2>2 DEF EdgeId
    <2>4. \E alias \in DOMAIN a[f].imports : a[f].imports[alias].line = r.line
      <3>1. CASE OfImport(u, EdgeId(e))  BY <2>3, <3>1 DEF OfImport
      <3>2. CASE OfImport(v, EdgeId(e))  BY <1>5, <2>3, <3>2 DEF OfImport
      <3> QED  BY <2>1, <3>1, <3>2
    <2>5. ReferencesOf(a[f])  BY <1>1 DEF Repository, Extracted
    <2> HIDE DEF a
    <2> QED  BY <2>4, <2>5 DEF ReferencesOf
  <1> DEFINE c == Rest(u, v)
  <1>7. Part(c, a) /\ Part(c, b) /\ Repository(c)  BY RestIsPart, SameRest
  <1>8. f \in DOMAIN c  BY <1>3 DEF Rest
  <1> HIDE DEF a, b, c, order, other
  <1>9. EdgesSaid(a, f) = EdgesSaid(c, f) /\ EdgesSaid(b, f) = EdgesSaid(c, f)
    BY <1>1, <1>7, <1>8, SameEdges
  <1>10. e \in EdgesSaid(b, f)  BY <1>2, <1>6, <1>9
  <1> QED  BY <1>1, <1>5, <1>10, GraphEdges

(* A node that is of a file, of none, or of a directory.                   *)
LEMMA NodesOfFile ==
    ASSUME NEW files, NEW order, NEW f, NEW n, NodeOfFile(files, order, f, n), n.type # "Directory", n.file # None
    PROVE  n.file = f
  <1>1. n # RepositoryNode  BY NodeFields DEF RepositoryNode
  <1>2. ASSUME IsDirectory(f, n)
        PROVE  FALSE
    <2>1. PICK a \in Parents(f) : n = DirectoryNode(a)  BY <1>2 DEF IsDirectory
    <2>2. n.type = "Directory"  BY <2>1, NodeFields DEF DirectoryNode
    <2> QED  BY <2>2
  <1>3. ~IsPackage(files, order, f, n)  BY PackageOfNoFile
  <1>4. CASE IsFile(files, f, n)  BY <1>4, NodeFields DEF IsFile, FileNode
  <1>5. CASE IsSymbol(files, f, n)  BY <1>5, NodeFields DEF IsSymbol, SymbolNode
  <1>6. CASE IsEndpoint(files, f, n)  BY <1>6, NodeFields DEF IsEndpoint, EndpointNode
  <1>7. CASE IsUnresolved(files, f, n)  BY <1>7, NodeFields DEF IsUnresolved, UnresolvedNode
  <1>8. CASE IsHandler(files, f, n)  BY <1>8, NodeFields DEF IsHandler, HandlerNode
  <1>9. CASE IsEntity(files, f, n)  BY <1>9, NodeFields DEF IsEntity, EntityNode
  <1> QED  BY <1>1, <1>2, <1>3, <1>4, <1>5, <1>6, <1>7, <1>8, <1>9 DEF NodeOfFile

LEMMA NodeKept ==
    ASSUME NEW u, NEW v, Indexed(u), Indexed(v), NEW n \in u.graph.nodes, n.file \notin Concerned(u, v),
           n.type # "Directory", n.file # None
    PROVE  n \in v.graph.nodes
  <1> DEFINE a == Analyzed(u)
             b == Analyzed(v)
             c == Rest(u, v)
             order == ScanFiles(u.sources)
             other == ScanFiles(v.sources)
  <1>1. /\ Repository(a) /\ u.graph = ResolveGraph(a, order)
        /\ Repository(b) /\ v.graph = ResolveGraph(b, other)  BY VersionBuilt
  <1>2. PICK f \in DOMAIN a : NodeOfFile(a, order, f, n)  BY <1>1, GraphNodes
  <1>3. n.file = f  BY <1>2, NodesOfFile
  <1>4. f \in Paths /\ f \notin EditedIn(u, v)  BY <1>1, <1>3 DEF Repository, Concerned
  <1>5. f \in DOMAIN b  BY <1>4, Unedited
  <1>6. Part(c, a) /\ Part(c, b) /\ Repository(c)  BY RestIsPart, SameRest
  <1>7. f \in DOMAIN c  BY <1>3 DEF Rest
  <1> HIDE DEF a, b, c, order, other
  <1>8. NodeOfFile(c, order, f, n)  BY <1>1, <1>2, <1>6, <1>7, SameNodes
  <1>9. NodeOfFile(b, other, f, n)  BY <1>1, <1>6, <1>7, <1>8, SameNodes
  <1> QED  BY <1>1, <1>5, <1>9, GraphNodes

LEMMA EdgeUnchanged ==
    ASSUME NEW u, NEW v, Indexed(u), Indexed(v), NEW id \in EdgeIds(u.graph), id[4] \notin Concerned(u, v),
           id[3] = "USES_PACKAGE" => OfImport(u, id) \/ OfImport(v, id)
    PROVE  id \in EdgeIds(v.graph) /\ EdgeOf(u.graph, id) = EdgeOf(v.graph, id)
  <1>1. PICK e \in u.graph.edges : id = EdgeId(e)  BY DEF EdgeIds
  <1>2. id[4] = e.file /\ id[3] = e.type  BY <1>1 DEF EdgeId
  <1>3. e \in v.graph.edges  BY <1>1, <1>2, EdgeKept
  <1>4. EdgeOf(u.graph, id) = e /\ EdgeOf(v.graph, id) = e  BY <1>1, <1>3, VersionGraph, EdgeOfId
  <1> QED  BY <1>1, <1>3, <1>4 DEF EdgeIds

LEMMA NodeUnchanged ==
    ASSUME NEW u, NEW v, Indexed(u), Indexed(v), NEW id \in Ids(u.graph),
           NodeOf(u.graph, id).file \notin Concerned(u, v), NodeOf(u.graph, id).file # None,
           TypeOf(u.graph, id) # "Directory"
    PROVE  id \in Ids(v.graph) /\ NodeOf(u.graph, id) = NodeOf(v.graph, id)
  <1>1. PICK n \in u.graph.nodes : id = n.id  BY DEF Ids
  <1>2. NodeOf(u.graph, id) = n  BY <1>1, VersionGraph, NodeOfId
  <1>3. n \in v.graph.nodes  BY <1>2, NodeKept DEF TypeOf
  <1>4. NodeOf(v.graph, id) = n  BY <1>1, <1>3, VersionGraph, NodeOfId
  <1> QED  BY <1>1, <1>2, <1>3, <1>4 DEF Ids

(* A comparison blames no file for what others did, and scores no change   *)
(* only if there is none (see ChangesExplained).                           *)
THEOREM ChangesExplainedHolds == Spec => []ChangesExplained
  <1>1. ASSUME Versions PROVE ChangesExplained
    <2> DEFINE diff == CompareGraphs(base.graph, head.graph)
               edges == EdgeChanges(base.graph, head.graph)
               nodes == NodeChanges(base.graph, head.graph)
               edited == {f \in Paths : base.sources[f] # head.sources[f]}
               concerned == Reaches(base.graph, edited) \union Reaches(head.graph, edited) \union edited
               changed == edges.added \union edges.removed \union edges.modified
               ofPackages == {id \in changed : id[3] = "USES_PACKAGE" /\ ~OfImport(base, id) /\ ~OfImport(head, id)}
               filesOf(g, ids) == {NodeOf(g, id).file : id \in {i \in ids : TypeOf(g, i) # "Directory"}} \ {None}
    <2>1. Indexed(base) /\ Indexed(head)  BY <1>1 DEF Versions
    <2>2. concerned = Concerned(base, head)  BY DEF Concerned, EditedIn
    <2>3. concerned = Concerned(head, base)
      <3>1. Concerned(base, head) = Concerned(head, base)  BY SameConcerned
      <3> HIDE DEF concerned
      <3> QED  BY <2>2, <3>1
    <2>4. diff.edges = edges /\ diff.nodes = nodes  BY DEF CompareGraphs
    <2> HIDE DEF concerned, edited
    <2>5. ASSUME NEW id \in changed \ ofPackages PROVE id[4] \in concerned
      <3>1. SUFFICES ASSUME id[4] \notin concerned PROVE FALSE  OBVIOUS
      <3>2. id[3] = "USES_PACKAGE" => OfImport(base, id) \/ OfImport(head, id)  BY <2>5
      <3>3. id \in EdgeIds(base.graph) => id \in EdgeIds(head.graph) /\ EdgeOf(base.graph, id) = EdgeOf(head.graph, id)
        BY <2>1, <2>2, <3>1, <3>2, EdgeUnchanged
      <3>4. id \in EdgeIds(head.graph) => id \in EdgeIds(base.graph)
        BY <2>1, <2>3, <3>1, <3>2, EdgeUnchanged
      <3>5. id \in changed  BY <2>5
      <3> QED  BY <3>3, <3>4, <3>5 DEF EdgeChanges, Changes
    <2>6. ASSUME NEW id \in nodes.removed \union nodes.modified, TypeOf(base.graph, id) # "Directory",
                 NodeOf(base.graph, id).file # None
          PROVE  NodeOf(base.graph, id).file \in concerned
      <3>1. SUFFICES ASSUME NodeOf(base.graph, id).file \notin concerned PROVE FALSE  OBVIOUS
      <3>2. id \in Ids(base.graph)  BY <2>6 DEF NodeChanges, Changes
      <3>3. id \in Ids(head.graph) /\ NodeOf(base.graph, id) = NodeOf(head.graph, id)
        BY <2>1, <2>2, <2>6, <3>1, <3>2, NodeUnchanged
      <3> QED  BY <2>6, <3>2, <3>3 DEF NodeChanges, Changes
    <2>7. ASSUME NEW id \in nodes.added, TypeOf(head.graph, id) # "Directory", NodeOf(head.graph, id).file # None
          PROVE  NodeOf(head.graph, id).file \in concerned
      <3>1. SUFFICES ASSUME NodeOf(head.graph, id).file \notin concerned PROVE FALSE  OBVIOUS
      <3>2. id \in Ids(head.graph) /\ id \notin Ids(base.graph)  BY <2>7 DEF NodeChanges, Changes
      <3>3. id \in Ids(base.graph)  BY <2>1, <2>3, <2>7, <3>1, <3>2, NodeUnchanged
      <3> QED  BY <3>2, <3>3
    <2>8. {id[4] : id \in changed \ ofPackages} \subseteq concerned
      <3> HIDE DEF changed, ofPackages
      <3> QED  BY <2>5
    <2>9. filesOf(base.graph, nodes.removed \union nodes.modified) \subseteq concerned
      <3> HIDE DEF nodes
      <3> QED  BY <2>6
    <2>10. filesOf(head.graph, nodes.added) \subseteq concerned
      <3> HIDE DEF nodes
      <3> QED  BY <2>7
    <2>11. diff.score = 0 <=> base.graph = head.graph
      <3>1. Graph(base.graph) /\ Graph(head.graph)  BY <2>1, VersionGraph
      <3> QED  BY <3>1, ComparisonScore
    <2> HIDE DEF diff, edges, nodes
    <2> QED  BY <2>4, <2>8, <2>9, <2>10, <2>11 DEF ChangesExplained, diff, concerned, edited
  <1> QED  BY <1>1, VersionsHold, PTL

-----------------------------------------------------------------------------
(* Pull requests: what two files have in common, and a hunk.               *)

LEMMA GreatestElement ==
    ASSUME NEW T, T \subseteq Nat, T # {}, NEW n \in Nat, \A x \in T : x <= n
    PROVE  \E x \in T : \A y \in T : y <= x
  <1> DEFINE below == {n - x : x \in T}
  <1>1. below \subseteq Nat /\ below # {}
    <2>1. \A x \in T : n - x \in Nat  OBVIOUS
    <2>2. PICK x \in T : TRUE  OBVIOUS
    <2>3. n - x \in below  BY <2>2
    <2> QED  BY <2>1, <2>3
  <1>2. PICK b \in below : \A c \in below : b <= c
    <2> HIDE DEF below
    <2> QED  BY <1>1, LeastElement
  <1>3. PICK x \in T : b = n - x  BY <1>2
  <1>4. \A y \in T : n - x <= n - y  BY <1>2, <1>3
  <1>5. \A y \in T : y <= x  BY <1>4
  <1> QED  BY <1>5

LEMMA MaxIs ==
    ASSUME NEW S, S \subseteq Int, NEW x \in S, \A y \in S : y <= x
    PROVE  Max(S) = x
  <1>1. \A y \in S : x >= y  OBVIOUS
  <1> DEFINE m == Max(S)
  <1>2. m \in S /\ \A y \in S : m >= y  BY <1>1 DEF Max
  <1> HIDE DEF m
  <1>3. m \in Int /\ x \in Int /\ m >= x /\ m <= x  BY <1>2
  <1>4. m = x  BY <1>3
  <1> QED  BY <1>4 DEF m

LEMMA MaxOfTwo ==
    ASSUME NEW a \in Int, NEW b \in Int
    PROVE  Max({a, b}) = IF a <= b THEN b ELSE a
  <1>1. CASE a <= b  BY <1>1, MaxIs
  <1>2. CASE ~(a <= b)  BY <1>2, MaxIs
  <1> QED  BY <1>1, <1>2

(* The longest common prefix of two lists is a common prefix.              *)
LEMMA CommonPrefix ==
    ASSUME NEW S, NEW x \in Seq(S), NEW y \in Seq(S)
    PROVE  LET n == Len(LongestCommonPrefix({x, y}))
           IN  n \in Nat /\ n <= Len(x) /\ n <= Len(y) /\ \A i \in 1..n : x[i] = y[i]
  <1> DEFINE both == CommonPrefixes({x, y})
             lengths == {Len(p) : p \in both}
  <1>1. ASSUME NEW p \in both
        PROVE  /\ p \in Seq(S) /\ Len(p) \in Nat /\ Len(p) <= Len(x) /\ Len(p) <= Len(y)
               /\ \A i \in 1..Len(p) : x[i] = p[i] /\ y[i] = p[i]
    <2>1. p \in Prefixes(x) \/ p \in Prefixes(y)  BY DEF CommonPrefixes
    <2>2. p \in Seq(S)  BY <2>1, SubSeqProperties DEF Prefixes
    <2>3. IsPrefix(p, x) /\ IsPrefix(p, y)  BY DEF CommonPrefixes
    <2>4. Len(p) \in Nat /\ Len(p) <= Len(x) /\ Len(p) <= Len(y)  BY <2>2, <2>3 DEF IsPrefix
    <2>5. SubSeq(p, 1, Len(p)) = SubSeq(x, 1, Len(p)) /\ SubSeq(p, 1, Len(p)) = SubSeq(y, 1, Len(p))
      BY <2>3 DEF IsPrefix
    <2>6. \A i \in 1..Len(p) : /\ SubSeq(p, 1, Len(p))[i] = p[i] /\ SubSeq(x, 1, Len(p))[i] = x[i]
                               /\ SubSeq(y, 1, Len(p))[i] = y[i]  BY <2>2, <2>4
    <2> QED  BY <2>2, <2>4, <2>5, <2>6
  <1>2. <<>> \in both
    <2>1. SubSeq(x, 1, 0) = <<>> /\ SubSeq(y, 1, 0) = <<>> /\ SubSeq(<<>>, 1, 0) = <<>> /\ 0 \in 0..Len(x)
      OBVIOUS
    <2>2. <<>> \in Prefixes(x)  BY <2>1 DEF Prefixes
    <2>3. IsPrefix(<<>>, x) /\ IsPrefix(<<>>, y)  BY <2>1 DEF IsPrefix
    <2> QED  BY <2>2, <2>3 DEF CommonPrefixes
  <1>3. lengths \subseteq Nat /\ lengths # {} /\ \A k \in lengths : k <= Len(x)  BY <1>1, <1>2
  <1>4. PICK k \in lengths : \A l \in lengths : l <= k
    <2>1. Len(x) \in Nat  OBVIOUS
    <2> HIDE DEF lengths
    <2> QED  BY <1>3, <2>1, GreatestElement
  <1>5. \E p \in both : \A other \in both : Len(other) <= Len(p)  BY <1>4
  <1>6. LongestCommonPrefix({x, y}) \in both  BY <1>5 DEF LongestCommonPrefix
  <1> QED  BY <1>1, <1>6

(* The end of a list, from its end.                                        *)
LEMMA FromTheEnd ==
    ASSUME NEW S, NEW list \in Seq(S), NEW n \in Nat, n <= Len(list)
    PROVE  LET rest == Reverse(SubSeq(list, n + 1, Len(list)))
           IN  /\ rest \in Seq(S) /\ Len(rest) = Len(list) - n
               /\ \A i \in 1..Len(rest) : rest[i] = list[Len(list) + 1 - i]
  <1> DEFINE tail == SubSeq(list, n + 1, Len(list))
             rest == Reverse(tail)
  <1>1. /\ tail \in Seq(S) /\ Len(tail) = Len(list) - n
        /\ \A i \in 1..Len(tail) : tail[i] = list[n + i]  BY SubSeqProperties
  <1> HIDE DEF tail
  <1>2. rest = [i \in 1..Len(tail) |-> tail[(Len(tail) - i) + 1]]  BY DEF Reverse
  <1>3. rest \in Seq(S) /\ Len(rest) = Len(tail)  BY <1>1, <1>2
  <1>4. ASSUME NEW i \in 1..Len(rest) PROVE rest[i] = list[Len(list) + 1 - i]
    <2>1. i \in 1..Len(tail) /\ (Len(tail) - i) + 1 \in 1..Len(tail)  BY <1>1, <1>3
    <2>2. rest[i] = list[n + ((Len(tail) - i) + 1)]  BY <1>1, <1>2, <2>1
    <2>3. n + ((Len(tail) - i) + 1) = Len(list) + 1 - i  BY <1>1, <2>1
    <2> QED  BY <2>2, <2>3
  <1> QED  BY <1>1, <1>3, <1>4 DEF tail

(* Two files are the same before line p and in their last q lines.         *)
Aligned(before, after, p, q) ==
    /\ p \in Nat /\ q \in Nat /\ p + q <= Len(before) /\ p + q <= Len(after)
    /\ \A i \in 1..p : before[i] = after[i]
    /\ \A i \in 1..Len(before) : i > Len(before) - q => before[i] = after[i + (Len(after) - Len(before))]

FirstLine(p) == Max({1, p + 1 - Context})

LineCount(list, p, q) == Len(list) - Max({0, q - Context}) - FirstLine(p) + 1

StartLine(list, p, q) == IF LineCount(list, p, q) = 0 THEN FirstLine(p) - 1 ELSE FirstLine(p)

LEMMA HunkAligned ==
    ASSUME NEW S, NEW before \in Seq(S), NEW after \in Seq(S)
    PROVE  \E p, q : /\ Aligned(before, after, p, q)
                     /\ Hunk(before, after) =
                            [oldStart |-> StartLine(before, p, q), oldCount |-> LineCount(before, p, q),
                             newStart |-> StartLine(after, p, q), newCount |-> LineCount(after, p, q)]
  <1> DEFINE p == Len(LongestCommonPrefix({before, after}))
             rest(list) == Reverse(SubSeq(list, p + 1, Len(list)))
             q == Len(LongestCommonPrefix({rest(before), rest(after)}))
  <1>1. p \in Nat /\ p <= Len(before) /\ p <= Len(after) /\ \A i \in 1..p : before[i] = after[i]
    BY CommonPrefix
  <1>2. Hunk(before, after) =
            [oldStart |-> StartLine(before, p, q), oldCount |-> LineCount(before, p, q),
             newStart |-> StartLine(after, p, q), newCount |-> LineCount(after, p, q)]
    BY DEF Hunk, StartLine, LineCount, FirstLine
  <1>3. /\ rest(before) \in Seq(S) /\ Len(rest(before)) = Len(before) - p
        /\ \A i \in 1..Len(rest(before)) : rest(before)[i] = before[Len(before) + 1 - i]
    <2> HIDE DEF p
    <2> QED  BY <1>1, FromTheEnd
  <1>4. /\ rest(after) \in Seq(S) /\ Len(rest(after)) = Len(after) - p
        /\ \A i \in 1..Len(rest(after)) : rest(after)[i] = after[Len(after) + 1 - i]
    <2> HIDE DEF p
    <2> QED  BY <1>1, FromTheEnd
  <1> DEFINE x == rest(before)
             y == rest(after)
  <1>5. q = Len(LongestCommonPrefix({x, y}))  OBVIOUS
  <1>6. x \in Seq(S) /\ y \in Seq(S)  BY <1>3, <1>4
  <1> HIDE DEF x, y, p, q, rest
  <1>7. q \in Nat /\ q <= Len(x) /\ q <= Len(y) /\ \A i \in 1..q : x[i] = y[i]
    BY <1>5, <1>6, CommonPrefix
  <1>8. ASSUME NEW i \in 1..Len(before), i > Len(before) - q
        PROVE  before[i] = after[i + (Len(after) - Len(before))]
    <2> DEFINE j == Len(before) + 1 - i
    <2>1. /\ j \in 1..q /\ j \in 1..Len(x) /\ j \in 1..Len(y)
          /\ Len(before) + 1 - j = i /\ Len(after) + 1 - j = i + (Len(after) - Len(before))
      BY <1>6, <1>7, <1>8
    <2> HIDE DEF j
    <2>2. x[j] = y[j]  BY <1>7, <2>1
    <2>3. x[j] = before[Len(before) + 1 - j] /\ y[j] = after[Len(after) + 1 - j]
      BY <1>3, <1>4, <2>1 DEF x, y
    <2> QED  BY <2>1, <2>2, <2>3
  <1>9. p + q <= Len(before) /\ p + q <= Len(after)  BY <1>1, <1>3, <1>4, <1>7 DEF x, y
  <1>10. Aligned(before, after, p, q)  BY <1>1, <1>7, <1>8, <1>9 DEF Aligned
  <1> QED  BY <1>2, <1>10

LEMMA AlignedBack ==
    ASSUME NEW S, NEW before \in Seq(S), NEW after \in Seq(S), NEW p, NEW q, Aligned(before, after, p, q)
    PROVE  Aligned(after, before, p, q)
  <1>1. /\ p \in Nat /\ q \in Nat /\ p + q <= Len(before) /\ p + q <= Len(after)
        /\ \A i \in 1..p : before[i] = after[i]
        /\ \A i \in 1..Len(before) : i > Len(before) - q => before[i] = after[i + (Len(after) - Len(before))]
    BY DEF Aligned
  <1>2. Len(before) \in Nat /\ Len(after) \in Nat  OBVIOUS
  <1>3. ASSUME NEW i \in 1..Len(after), i > Len(after) - q
        PROVE  after[i] = before[i + (Len(before) - Len(after))]
    <2> DEFINE j == i + (Len(before) - Len(after))
    <2>1. j \in 1..Len(before) /\ j > Len(before) - q /\ j + (Len(after) - Len(before)) = i
      BY <1>1, <1>2, <1>3
    <2> HIDE DEF j
    <2>2. before[j] = after[j + (Len(after) - Len(before))]  BY <1>1, <2>1
    <2> QED  BY <2>1, <2>2 DEF j
  <1>4. \A i \in 1..p : after[i] = before[i]  BY <1>1
  <1> QED  BY <1>1, <1>3, <1>4 DEF Aligned

(* The lines of a patch, and lines that are not among them.                *)
Span(start, count) == [start |-> start, end |-> start + (IF count = 0 THEN 1 ELSE count) - 1]

Missed(start, end, range) == range.end < start \/ end < range.start

(* Lines that are the same in another file, d lines further on, with the   *)
(* line after them, if there is one.                                       *)
Copied(before, after, start, end, d) ==
    /\ d \in Int /\ start + d >= 1 /\ end + d <= Len(after)
    /\ \A i \in start..end : after[i + d] = before[i]
    /\ \/ end = Len(before) /\ end + d = Len(after)
       \/ end < Len(before) /\ end + d < Len(after) /\ after[end + 1 + d] = before[end + 1]

(* With lines of context, what a patch does not touch is as it was.        *)
LEMMA MissedIsCopied ==
    ASSUME NEW S, NEW before \in Seq(S), NEW after \in Seq(S), NEW p, NEW q, Aligned(before, after, p, q),
           NEW start \in Nat, NEW end \in Nat, 1 <= start, start <= end, end <= Len(before),
           Missed(start, end, Span(StartLine(before, p, q), LineCount(before, p, q)))
    PROVE  \E d : Copied(before, after, start, end, d)
  <1> DEFINE n == Len(before)
             m == Len(after)
             first == FirstLine(p)
             last == n - (IF 0 <= q - Context THEN q - Context ELSE 0)
  <1>1. /\ p \in Nat /\ q \in Nat /\ p + q <= n /\ p + q <= m
        /\ \A i \in 1..p : before[i] = after[i]
        /\ \A i \in 1..n : i > n - q => before[i] = after[i + (m - n)]  BY DEF Aligned
  <1>2. n \in Nat /\ m \in Nat /\ Context \in Nat /\ Context >= 1  BY AnalysisBounds
  <1>3. first = IF 1 <= p + 1 - Context THEN p + 1 - Context ELSE 1
    <2>1. p + 1 - Context \in Int /\ 1 \in Int  BY <1>1, <1>2
    <2> QED  BY <2>1, MaxOfTwo DEF FirstLine
  <1>4. LineCount(before, p, q) = last - first + 1
    <2>1. q - Context \in Int /\ 0 \in Int  BY <1>1, <1>2
    <2>2. Max({0, q - Context}) = IF 0 <= q - Context THEN q - Context ELSE 0  BY <2>1, MaxOfTwo
    <2> QED  BY <2>2 DEF LineCount
  <1> DEFINE count == LineCount(before, p, q)
             from == IF count = 0 THEN first - 1 ELSE first
  <1>5. from + (IF count = 0 THEN 1 ELSE count) - 1 < start \/ end < from
    BY DEF Missed, Span, StartLine
  <1> HIDE DEF n, m, first, count
  <1>6. end < first \/ last < start
    <2>1. first \in Int /\ last \in Int /\ count = last - first + 1
      BY <1>1, <1>2, <1>3, <1>4 DEF count
    <2> HIDE DEF last
    <2>2. CASE count = 0  BY <1>5, <2>1, <2>2
    <2>3. CASE count # 0  BY <1>5, <2>1, <2>3
    <2> QED  BY <2>2, <2>3
  <1>7. CASE end < first
    <2>1. end + 1 <= p  BY <1>1, <1>2, <1>3, <1>7
    <2>2. /\ 0 \in Int /\ start + 0 >= 1 /\ end + 0 <= m /\ end < n /\ end + 0 < m
          /\ end + 1 \in 1..p /\ \A i \in start..end : i \in 1..p /\ i + 0 = i
          /\ end + 1 + 0 = end + 1  BY <1>1, <1>2, <2>1
    <2>3. /\ \A i \in start..end : after[i + 0] = before[i]
          /\ after[end + 1 + 0] = before[end + 1]  BY <1>1, <2>2
    <2>4. Copied(before, after, start, end, 0)  BY <2>2, <2>3 DEF Copied, n, m
    <2> QED  BY <2>4
  <1>8. CASE last < start
    <2> DEFINE d == m - n
    <2>1. start > n - q /\ end <= n  BY <1>1, <1>2, <1>8 DEF n
    <2>2. /\ d \in Int /\ start + d >= 1 /\ end + d <= m
          /\ \A i \in start..end : i \in 1..n /\ i > n - q
          /\ end < n => end + 1 \in 1..n /\ end + 1 > n - q /\ end + d < m
          /\ end = n => end + d = m  BY <1>1, <1>2, <2>1
    <2>3. \A i \in start..end : after[i + d] = before[i]  BY <1>1, <2>2
    <2>4. end < n => after[end + 1 + d] = before[end + 1]  BY <1>1, <2>2
    <2>5. end < n \/ end = n  BY <1>2, <2>1
    <2> HIDE DEF d
    <2>6. Copied(before, after, start, end, d)  BY <2>2, <2>3, <2>4, <2>5 DEF Copied, n, m
    <2> QED  BY <2>6
  <1> QED  BY <1>6, <1>7, <1>8

(* A patch can be read from either side.                                   *)
LEMMA PatchRanges ==
    ASSUME NEW S, NEW before \in Seq(S), NEW after \in Seq(S)
    PROVE  \E p, q :
            /\ Aligned(before, after, p, q)
            /\ ChangedLineRanges({Hunk(before, after)}) =
                    {Span(StartLine(before, p, q), LineCount(before, p, q)),
                     Span(StartLine(after, p, q), LineCount(after, p, q))}
  <1>1. PICK p, q : /\ Aligned(before, after, p, q)
                    /\ Hunk(before, after) =
                            [oldStart |-> StartLine(before, p, q), oldCount |-> LineCount(before, p, q),
                             newStart |-> StartLine(after, p, q), newCount |-> LineCount(after, p, q)]
    BY HunkAligned
  <1> DEFINE h == Hunk(before, after)
  <1>2. ChangedLineRanges({h}) = {Span(h.oldStart, h.oldCount), Span(h.newStart, h.newCount)}
    <2> HIDE DEF h
    <2> QED  BY DEF ChangedLineRanges, Span
  <1> HIDE DEF h
  <1>3. /\ h.oldStart = StartLine(before, p, q) /\ h.oldCount = LineCount(before, p, q)
        /\ h.newStart = StartLine(after, p, q) /\ h.newCount = LineCount(after, p, q)  BY <1>1 DEF h
  <1>4. ChangedLineRanges({Hunk(before, after)}) =
            {Span(StartLine(before, p, q), LineCount(before, p, q)),
             Span(StartLine(after, p, q), LineCount(after, p, q))}
    BY <1>2, <1>3 DEF h
  <1> QED  BY <1>1, <1>4

-----------------------------------------------------------------------------
(* What is defined in lines that are the same is the same.                 *)

WithinBody(source, i, j) == IsPrefix(QualifiedName(source[i]), source[j].scope)

(* A definition goes on as long as the lines are inside it.                *)
EndsAt(source, i, e) ==
    /\ e \in i..Len(source)
    /\ \A k \in (i + 1)..e : WithinBody(source, i, k)
    /\ e = Len(source) \/ ~WithinBody(source, i, e + 1)

LEMMA EndKnown ==
    ASSUME NEW source, Len(source) \in Nat, NEW i \in 1..Len(source)
    PROVE  /\ EndsAt(source, i, EndLine(source, i))
           /\ \A e : EndsAt(source, i, e) => e = EndLine(source, i)
  <1> DEFINE S == {j \in i..Len(source) : \A k \in (i + 1)..j : WithinBody(source, i, k)}
  <1>1. EndLine(source, i) = Max(S)  BY DEF EndLine, WithinBody
  <1>2. i \in S  OBVIOUS
  <1>3. S \subseteq Nat /\ S # {} /\ \A x \in S : x <= Len(source)  BY <1>2
  <1>4. PICK m \in S : \A j \in S : j <= m
    <2> HIDE DEF S
    <2> QED  BY <1>3, GreatestElement
  <1>5. Max(S) = m
    <2>1. S \subseteq Int  BY <1>3
    <2> HIDE DEF S
    <2> QED  BY <1>4, <2>1, MaxIs
  <1>6. ASSUME m # Len(source), WithinBody(source, i, m + 1) PROVE FALSE
    <2>1. m + 1 \in i..Len(source)  BY <1>4, <1>6
    <2>2. \A k \in (i + 1)..(m + 1) : k \in (i + 1)..m \/ k = m + 1  BY <1>4
    <2>3. m + 1 \in S  BY <1>4, <1>6, <2>1, <2>2
    <2>4. m + 1 <= m  BY <1>4, <2>3
    <2> QED  BY <1>4, <2>4
  <1>7. EndsAt(source, i, m)  BY <1>4, <1>6 DEF EndsAt
  <1>8. ASSUME NEW e, EndsAt(source, i, e) PROVE e = m
    <2>1. e \in S  BY <1>8 DEF EndsAt
    <2>2. e <= m  BY <1>4, <2>1
    <2>3. ASSUME e < m PROVE FALSE
      <3>1. e + 1 \in (i + 1)..m /\ e # Len(source)  BY <1>4, <2>1, <2>3
      <3>2. WithinBody(source, i, e + 1)  BY <1>4, <3>1
      <3> QED  BY <1>8, <3>1, <3>2 DEF EndsAt
    <2> QED  BY <1>4, <2>1, <2>2, <2>3
  <1> QED  BY <1>1, <1>5, <1>7, <1>8

(* Of lines that are the same, with the line after them, each definition   *)
(* has the same end and text.                                              *)
LEMMA CopiedDefinition ==
    ASSUME NEW before \in Seq(Statement), NEW after \in Seq(Statement), NEW i \in 1..Len(before), NEW d,
           Copied(before, after, i, EndLine(before, i), d)
    PROVE  /\ i + d \in 1..Len(after) /\ after[i + d] = before[i]
           /\ EndLine(after, i + d) = EndLine(before, i) + d
           /\ SubSeq(after, i + d, EndLine(before, i) + d) = SubSeq(before, i, EndLine(before, i))
  <1> DEFINE e == EndLine(before, i)
  <1>1. Len(before) \in Nat /\ Len(after) \in Nat  OBVIOUS
  <1>2. EndsAt(before, i, e)  BY <1>1, EndKnown
  <1>3. e \in i..Len(before) /\ \A k \in (i + 1)..e : WithinBody(before, i, k)  BY <1>2 DEF EndsAt
  <1> HIDE DEF e
  <1>4. /\ d \in Int /\ i + d >= 1 /\ e + d <= Len(after)
        /\ \A k \in i..e : after[k + d] = before[k]
        /\ \/ e = Len(before) /\ e + d = Len(after)
           \/ e < Len(before) /\ e + d < Len(after) /\ after[e + 1 + d] = before[e + 1]
    BY DEF Copied, e
  <1>5. i + d \in 1..Len(after) /\ after[i + d] = before[i]  BY <1>1, <1>3, <1>4
  <1>6. ASSUME NEW k \in ((i + d) + 1)..(e + d) PROVE WithinBody(after, i + d, k)
    <2> DEFINE j == k - d
    <2>1. j \in (i + 1)..e /\ j \in i..e /\ j + d = k  BY <1>3, <1>4
    <2> HIDE DEF j
    <2>2. WithinBody(before, i, j) /\ after[k] = before[j]  BY <1>3, <1>4, <2>1
    <2> QED  BY <1>5, <2>2 DEF WithinBody
  <1>7. e + d = Len(after) \/ ~WithinBody(after, i + d, (e + d) + 1)
    <2>1. CASE e < Len(before) /\ e + d < Len(after) /\ after[e + 1 + d] = before[e + 1]
      <3>1. ~WithinBody(before, i, e + 1)  BY <1>1, <1>2, <1>3, <2>1 DEF EndsAt
      <3>2. e + 1 + d = (e + d) + 1  BY <1>3, <1>4
      <3>3. after[(e + d) + 1] = before[e + 1]  BY <2>1, <3>2
      <3> QED  BY <1>5, <3>1, <3>3 DEF WithinBody
    <2> QED  BY <1>4, <2>1
  <1>8. e + d \in (i + d)..Len(after)  BY <1>1, <1>3, <1>4
  <1>9. EndsAt(after, i + d, e + d)  BY <1>6, <1>7, <1>8 DEF EndsAt
  <1>10. EndLine(after, i + d) = e + d  BY <1>1, <1>5, <1>9, EndKnown
  <1>11. SubSeq(after, i + d, e + d) = SubSeq(before, i, e)
    <2> DEFINE x == SubSeq(after, i + d, e + d)
               y == SubSeq(before, i, e)
               n == e - i + 1
    <2>1. /\ x = [k \in 1..n |-> after[(i + d) + k - 1]]
          /\ y = [k \in 1..n |-> before[i + k - 1]]
      <3>1. (e + d) - (i + d) + 1 = n  BY <1>3, <1>4
      <3> HIDE DEF n
      <3>2. x = [k \in 1..((e + d) - (i + d) + 1) |-> after[(i + d) + k - 1]]
        BY <1>4, <1>5, <1>8, <1>1
      <3>3. y = [k \in 1..(e - i + 1) |-> before[i + k - 1]]  BY <1>1, <1>3
      <3> QED  BY <3>1, <3>2, <3>3 DEF n
    <2>2. ASSUME NEW k \in 1..n PROVE after[(i + d) + k - 1] = before[i + k - 1]
      <3>1. i + k - 1 \in i..e /\ (i + k - 1) + d = (i + d) + k - 1  BY <1>3, <1>4
      <3> QED  BY <1>4, <3>1
    <2> QED  BY <2>1, <2>2
  <1> QED  BY <1>5, <1>10, <1>11 DEF e

-----------------------------------------------------------------------------
(* What a pull request changed is in the lines of its patches.             *)

(* What a node of a symbol or an endpoint stands for.                      *)
Piece(source, start, end, text) ==
    \/ /\ start \in Definitions(source) /\ end = EndLine(source, start)
       /\ text = SubSeq(source, start, end)
    \/ /\ start \in LinesOf(source, {"route"}) /\ end = start
       /\ text = <<[route |-> source[start].name]>>

LEMMA PieceLines ==
    ASSUME NEW source \in Seq(Statement), NEW start, NEW end, NEW text, Piece(source, start, end, text)
    PROVE  start \in 1..Len(source) /\ end \in start..Len(source)
  <1>1. Len(source) \in Nat /\ DOMAIN source = 1..Len(source)  OBVIOUS
  <1>2. start \in 1..Len(source)  BY <1>1 DEF Piece, Definitions, LinesOf
  <1>3. EndLine(source, start) \in start..Len(source)  BY <1>1, <1>2, EndKnown DEF EndsAt
  <1> QED  BY <1>1, <1>2, <1>3 DEF Piece

LEMMA PieceCopied ==
    ASSUME NEW before \in Seq(Statement), NEW after \in Seq(Statement), NEW start, NEW end, NEW text, NEW d,
           Piece(before, start, end, text), Copied(before, after, start, end, d)
    PROVE  \E a, b : Piece(after, a, b, text)
  <1>1. start \in 1..Len(before) /\ end \in start..Len(before)  BY PieceLines
  <1>2. DOMAIN after = 1..Len(after) /\ DOMAIN before = 1..Len(before)  OBVIOUS
  <1>3. CASE start \in Definitions(before) /\ end = EndLine(before, start) /\ text = SubSeq(before, start, end)
    <2>1. /\ start + d \in 1..Len(after) /\ after[start + d] = before[start]
          /\ EndLine(after, start + d) = end + d
          /\ SubSeq(after, start + d, end + d) = text
      <3>1. Copied(before, after, start, EndLine(before, start), d)  BY <1>3
      <3>2. /\ start + d \in 1..Len(after) /\ after[start + d] = before[start]
            /\ EndLine(after, start + d) = EndLine(before, start) + d
            /\ SubSeq(after, start + d, EndLine(before, start) + d) = SubSeq(before, start, EndLine(before, start))
        BY <1>1, <3>1, CopiedDefinition
      <3> QED  BY <1>3, <3>2
    <2>2. start + d \in Definitions(after)  BY <1>2, <1>3, <2>1 DEF Definitions, LinesOf
    <2>3. Piece(after, start + d, end + d, text)  BY <2>1, <2>2 DEF Piece
    <2> QED  BY <2>3
  <1>4. CASE start \in LinesOf(before, {"route"}) /\ end = start /\ text = <<[route |-> before[start].name]>>
    <2>1. d \in Int /\ start + d >= 1 /\ end + d <= Len(after) /\ \A i \in start..end : after[i + d] = before[i]
      BY DEF Copied
    <2>2. start + d \in 1..Len(after) /\ after[start + d] = before[start]  BY <1>1, <1>4, <2>1
    <2>3. start + d \in LinesOf(after, {"route"})  BY <1>2, <1>4, <2>2 DEF LinesOf
    <2>4. Piece(after, start + d, start + d, text)  BY <1>4, <2>2, <2>3 DEF Piece
    <2> QED  BY <2>4
  <1> QED  BY <1>3, <1>4 DEF Piece

LEMMA ScannedSource ==
    ASSUME NEW v, Indexed(v), NEW f
    PROVE  /\ f \in DOMAIN Analyzed(v) <=> f \in Paths /\ v.sources[f] \notin {Absent, Skipped}
           /\ f \in DOMAIN Analyzed(v) =>
                Analyzed(v)[f] = Analyze(v.sources[f]) /\ v.sources[f] \in Seq(Statement)
  <1>1. DOMAIN Analyzed(v) = ToSet(ScanFiles(v.sources))  BY DEF Analyzed
  <1>2. ToSet(ScanFiles(v.sources)) = Paths \intersect {a \in Paths : v.sources[a] \notin {Absent, Skipped}}
    BY ScannedFiles, RepositoryContents
  <1>3. ASSUME f \in DOMAIN Analyzed(v)
        PROVE  Analyzed(v)[f] = Analyze(v.sources[f]) /\ v.sources[f] \in Seq(Statement)
    <2>1. f \in Paths /\ v.sources[f] \in Contents[f] \ {Absent, Skipped}
      BY <1>1, <1>2, <1>3 DEF Indexed, Held
    <2>2. WellFormed(v.sources[f])  BY <2>1, RepositoryContents
    <2>3. Analyzed(v)[f] = Analyze(v.sources[f])  BY <1>3 DEF Analyzed
    <2> QED  BY <2>2, <2>3 DEF WellFormed
  <1> QED  BY <1>1, <1>2, <1>3

LEMMA SymbolPiece ==
    ASSUME NEW source, NEW s \in Analyze(source).symbols
    PROVE  Piece(source, s.start, s.end, s.text)
  <1>1. Analyze(source).symbols = {Symbol(source, i) : i \in Definitions(source)}  BY DEF Analyze
  <1>2. PICK i \in Definitions(source) : s = Symbol(source, i)  BY <1>1
  <1>3. s.start = i /\ s.end = EndLine(source, i) /\ s.text = SubSeq(source, i, EndLine(source, i))
    BY <1>2 DEF Symbol
  <1> QED  BY <1>2, <1>3 DEF Piece

LEMMA NodeLines ==
    ASSUME NEW id, NEW type, NEW f, NEW module, NEW start, NEW end, NEW text
    PROVE  LET n == Node(id, type, f, module, start, end, text)
           IN  n.start = start /\ n.end = end
  BY DEF Node

LEMMA NodeIsPiece ==
    ASSUME NEW v, Indexed(v), NEW n \in v.graph.nodes, n.type \in SymbolTypes
    PROVE  n.file \in DOMAIN Analyzed(v) /\ Piece(v.sources[n.file], n.start, n.end, n.text)
  <1> DEFINE files == Analyzed(v)
             order == ScanFiles(v.sources)
  <1>1. Repository(files) /\ v.graph = ResolveGraph(files, order)  BY VersionBuilt
  <1>2. PICK f \in DOMAIN files : NodeOfFile(files, order, f, n)  BY <1>1, GraphNodes
  <1> HIDE DEF files, order
  <1>3. files[f] = Analyze(v.sources[f])  BY <1>2, ScannedSource DEF files
  <1>4. ASSUME NEW s \in files[f].symbols, n.start = s.start, n.end = s.end, n.text = s.text
        PROVE  Piece(v.sources[f], n.start, n.end, n.text)  BY <1>3, <1>4, SymbolPiece
  <1>5. n # RepositoryNode  BY NodeFields DEF RepositoryNode, SymbolTypes
  <1>6. ASSUME IsDirectory(f, n)
        PROVE  FALSE
    <2>1. PICK a \in Parents(f) : n = DirectoryNode(a)  BY <1>6 DEF IsDirectory
    <2>2. n.type = "Directory"  BY <2>1, NodeFields DEF DirectoryNode
    <2> QED  BY <2>2 DEF SymbolTypes
  <1>7. ~IsFile(files, f, n)  BY NodeFields DEF IsFile, FileNode, SymbolTypes
  <1>8. ASSUME IsPackage(files, order, f, n)
        PROVE  FALSE
    <2>1. PICK i \in Outside(files, f) : n = PackageNode(files, order, i)  BY <1>8 DEF IsPackage
    <2>2. n.type \in {"Module", "ExternalPackage"}  BY <2>1, NodeFields DEF PackageNode
    <2> QED  BY <2>2 DEF SymbolTypes
  <1>9. ASSUME IsUnresolved(files, f, n)
        PROVE  FALSE
    <2>1. PICK r \in LastUnresolved(files, f) : n = UnresolvedNode(f, r)  BY <1>9 DEF IsUnresolved
    <2>2. n.type = "UnresolvedSymbol"  BY <2>1, NodeFields DEF UnresolvedNode
    <2> QED  BY <2>2 DEF SymbolTypes
  <1>10. ASSUME IsHandler(files, f, n)
         PROVE  FALSE
    <2>1. PICK e \in LastUnhandled(files, f) : n = HandlerNode(f, e)  BY <1>10 DEF IsHandler
    <2>2. n.type = "UnresolvedSymbol"  BY <2>1, NodeFields DEF HandlerNode
    <2> QED  BY <2>2 DEF SymbolTypes
  <1> DEFINE Goal == n.file = f /\ Piece(v.sources[f], n.start, n.end, n.text)
  <1>11. ASSUME IsSymbol(files, f, n)
         PROVE  Goal
    <2>1. PICK s \in files[f].symbols : n = SymbolNode(f, s)  BY <1>11 DEF IsSymbol
    <2>2. n.file = f /\ n.text = s.text /\ n.start = s.start /\ n.end = s.end
      BY <2>1, NodeFields, NodeLines DEF SymbolNode
    <2> QED  BY <1>4, <2>2
  <1>12. ASSUME IsEntity(files, f, n)
         PROVE  Goal
    <2>1. PICK s \in Models(files, f) : n = EntityNode(f, s)  BY <1>12 DEF IsEntity
    <2>2. n.file = f /\ n.text = s.text /\ n.start = s.start /\ n.end = s.end
      BY <2>1, NodeFields, NodeLines DEF EntityNode
    <2>3. s \in files[f].symbols  BY DEF Models
    <2> QED  BY <1>4, <2>2, <2>3
  <1>13. ASSUME IsEndpoint(files, f, n)
         PROVE  Goal
    <2>1. PICK e \in files[f].endpoints : n = EndpointNode(f, e)  BY <1>13 DEF IsEndpoint
    <2>2. n.file = f /\ n.text = <<[route |-> e.name]>> /\ n.start = e.line /\ n.end = e.line
      BY <2>1, NodeFields, NodeLines DEF EndpointNode
    <2> DEFINE source == v.sources[f]
    <2>3. files[f].endpoints = {[name |-> source[i].name, handler |-> source[i].handler, line |-> i] :
                                    i \in LinesOf(source, {"route"})}
      BY <1>3 DEF Analyze
    <2>4. PICK i \in LinesOf(source, {"route"}) :
                e = [name |-> source[i].name, handler |-> source[i].handler, line |-> i]
      BY <2>3
    <2>5. e.line = i /\ e.name = source[i].name  BY <2>4
    <2> QED  BY <2>2, <2>4, <2>5 DEF Piece
  <1>14. Goal  BY <1>2, <1>5, <1>6, <1>7, <1>8, <1>9, <1>10, <1>11, <1>12, <1>13 DEF NodeOfFile
  <1> QED  BY <1>2, <1>14 DEF files

LEMMA PieceHasNode ==
    ASSUME NEW v, Indexed(v), NEW f \in DOMAIN Analyzed(v), NEW start, NEW end, NEW text,
           Piece(v.sources[f], start, end, text)
    PROVE  \E m \in v.graph.nodes : m.file = f /\ m.text = text
  <1> DEFINE files == Analyzed(v)
             order == ScanFiles(v.sources)
             source == v.sources[f]
  <1>1. Repository(files) /\ v.graph = ResolveGraph(files, order)  BY VersionBuilt
  <1>2. files[f] = Analyze(source)  BY ScannedSource
  <1>3. \A m : NodeOfFile(files, order, f, m) => m \in v.graph.nodes  BY <1>1, GraphNodes
  <1> HIDE DEF files, order, source
  <1>4. CASE start \in Definitions(source) /\ end = EndLine(source, start) /\ text = SubSeq(source, start, end)
    <2> DEFINE s == Symbol(source, start)
               m == SymbolNode(f, s)
    <2>1. s \in files[f].symbols  BY <1>2, <1>4 DEF Analyze
    <2>2. s.text = text  BY <1>4 DEF Symbol
    <2>3. NodeOfFile(files, order, f, m)  BY <2>1 DEF NodeOfFile, IsSymbol
    <2>4. m.file = f /\ m.text = text  BY <2>2, NodeFields DEF SymbolNode
    <2> QED  BY <1>3, <2>3, <2>4
  <1>5. CASE start \in LinesOf(source, {"route"}) /\ end = start /\ text = <<[route |-> source[start].name]>>
    <2> DEFINE e == [name |-> source[start].name, handler |-> source[start].handler, line |-> start]
               m == EndpointNode(f, e)
    <2>1. e \in files[f].endpoints  BY <1>2, <1>5 DEF Analyze
    <2>2. NodeOfFile(files, order, f, m)  BY <2>1 DEF NodeOfFile, IsEndpoint
    <2>3. m.file = f /\ m.text = text  BY <1>5, NodeFields DEF EndpointNode
    <2> QED  BY <1>3, <2>2, <2>3
  <1> QED  BY <1>4, <1>5 DEF Piece, source

(* The lines of a node are among those of a patch, or there are none.      *)
Shown(n, ranges) == ranges = {} \/ \E r \in ranges : n.start <= r.end /\ n.end >= r.start

(* What is in one version and not in the other is shown in the patch.      *)
LEMMA LostIsShown ==
    ASSUME NEW u, NEW v, Indexed(u), Indexed(v), NEW n \in u.graph.nodes, n.type \in SymbolTypes,
           ~ \E m \in v.graph.nodes : m.file = n.file /\ m.text = n.text
    PROVE  /\ n.file \in DOMAIN Analyzed(u) /\ u.sources[n.file] # v.sources[n.file]
           /\ Shown(n, ChangedLineRanges(Patch(u.sources[n.file], v.sources[n.file])))
           /\ Shown(n, ChangedLineRanges(Patch(v.sources[n.file], u.sources[n.file])))
  <1> DEFINE f == n.file
             x == u.sources[f]
             y == v.sources[f]
             lines == IF y = Absent THEN <<>> ELSE y
             forth == ChangedLineRanges(Patch(x, y))
             back == ChangedLineRanges(Patch(y, x))
  <1>1. f \in DOMAIN Analyzed(u) /\ Piece(x, n.start, n.end, n.text)  BY NodeIsPiece
  <1>2. f \in Paths /\ x \notin {Absent, Skipped} /\ x \in Seq(Statement)  BY <1>1, ScannedSource
  <1>3. n.start \in 1..Len(x) /\ n.end \in n.start..Len(x)  BY <1>1, <1>2, PieceLines
  <1>4. f \in DOMAIN Analyzed(v) <=> y \notin {Absent, Skipped}  BY <1>2, ScannedSource
  <1>5. f \in DOMAIN Analyzed(v) => y \in Seq(Statement)  BY ScannedSource
  <1>6. f \in DOMAIN Analyzed(v) => ~ \E a, b : Piece(y, a, b, n.text)  BY PieceHasNode
  <1> HIDE DEF f, x, y
  <1>7. x # y  BY <1>1, <1>2, <1>4, <1>6
  <1>8. CASE y = Skipped
    <2>1. Patch(x, y) = {} /\ Patch(y, x) = {}  BY <1>8 DEF Patch
    <2>2. forth = {} /\ back = {}  BY <2>1 DEF ChangedLineRanges
    <2> QED  BY <1>1, <1>7, <2>2 DEF Shown, f, x, y
  <1>9. CASE y # Skipped
    <2>1. lines \in Seq(Statement)  BY <1>4, <1>5, <1>9
    <2>2. Patch(x, y) = {Hunk(x, lines)} /\ Patch(y, x) = {Hunk(lines, x)}  BY <1>2, <1>9 DEF Patch
    <2> HIDE DEF lines
    <2>3. ~ \E d : Copied(x, lines, n.start, n.end, d)
      <3> SUFFICES ASSUME NEW d, Copied(x, lines, n.start, n.end, d) PROVE FALSE  OBVIOUS
      <3>1. \E a, b : Piece(lines, a, b, n.text)  BY <1>1, <1>2, <2>1, PieceCopied
      <3>2. CASE y = Absent
        <4>1. lines = <<>>  BY <3>2 DEF lines
        <4>2. PICK a, b : Piece(lines, a, b, n.text)  BY <3>1
        <4>3. a \in 1..0  BY <2>1, <4>1, <4>2, PieceLines
        <4> QED  BY <4>3
      <3>3. CASE y # Absent  BY <1>4, <1>6, <1>9, <3>1, <3>3 DEF lines
      <3> QED  BY <3>2, <3>3
    <2>4. ASSUME NEW p, NEW q, Aligned(x, lines, p, q)
          PROVE  LET r == Span(StartLine(x, p, q), LineCount(x, p, q)) IN n.start <= r.end /\ n.end >= r.start
      <3> DEFINE r == Span(StartLine(x, p, q), LineCount(x, p, q))
      <3>1. ~Missed(n.start, n.end, r)
        <4>1. n.start \in Nat /\ n.end \in Nat /\ 1 <= n.start /\ n.start <= n.end /\ n.end <= Len(x)
          BY <1>2, <1>3
        <4> QED  BY <1>2, <2>1, <2>3, <2>4, <4>1, MissedIsCopied
      <3>2. r.end \in Int /\ r.start \in Int
        <4>1. Len(x) \in Nat /\ Context \in Nat /\ p \in Nat /\ q \in Nat
          BY <1>2, <2>4, AnalysisBounds DEF Aligned
        <4>2. p + 1 - Context \in Int /\ q - Context \in Int /\ 0 \in Int /\ 1 \in Int  BY <4>1
        <4>3. FirstLine(p) \in Int /\ Max({0, q - Context}) \in Int  BY <4>2, MaxOfTwo DEF FirstLine
        <4>4. LineCount(x, p, q) \in Int /\ StartLine(x, p, q) \in Int
          BY <4>1, <4>3 DEF LineCount, StartLine
        <4> QED  BY <4>4 DEF Span
      <3>3. n.start \in Int /\ n.end \in Int  BY <1>2, <1>3
      <3> HIDE DEF r
      <3>4. n.start <= r.end /\ n.end >= r.start  BY <3>1, <3>2, <3>3 DEF Missed
      <3> QED  BY <3>4 DEF r
    <2>5. Shown(n, forth)
      <3>0. forth = ChangedLineRanges({Hunk(x, lines)})  BY <2>2
      <3>1. PICK p, q : /\ Aligned(x, lines, p, q)
                        /\ forth = {Span(StartLine(x, p, q), LineCount(x, p, q)),
                                    Span(StartLine(lines, p, q), LineCount(lines, p, q))}
        BY <1>2, <2>1, <3>0, PatchRanges
      <3> HIDE DEF forth
      <3> QED  BY <2>4, <3>1 DEF Shown
    <2>6. Shown(n, back)
      <3>0. back = ChangedLineRanges({Hunk(lines, x)})  BY <2>2
      <3>1. PICK p, q : /\ Aligned(lines, x, p, q)
                        /\ back = {Span(StartLine(lines, p, q), LineCount(lines, p, q)),
                                   Span(StartLine(x, p, q), LineCount(x, p, q))}
        BY <1>2, <2>1, <3>0, PatchRanges
      <3>2. Aligned(x, lines, p, q)  BY <1>2, <2>1, <3>1, AlignedBack
      <3> HIDE DEF back
      <3> QED  BY <2>4, <3>1, <3>2 DEF Shown
    <2> QED  BY <1>1, <1>7, <2>5, <2>6 DEF f, x, y
  <1> QED  BY <1>8, <1>9

-----------------------------------------------------------------------------
(* Lists of lists, and lists in which elements are placed.                 *)

Flattening(w, S, lists) ==
    /\ w \in [1..Len(lists) -> Seq(S)]
    /\ \A k \in 1..Len(lists) : w[k] = IF k = 1 THEN lists[1] ELSE w[k - 1] \o lists[k]
    /\ FlattenSeq(lists) = w[Len(lists)]

LEMMA FlattenSteps ==
    ASSUME NEW S, NEW lists \in Seq(Seq(S)), Len(lists) # 0
    PROVE  \E w : Flattening(w, S, lists)
  <1> DEFINE n == Len(lists)
             step == [p \in (1..n) \X Seq(S) |-> p[2] \o lists[p[1]]]
             Rec(f) == f = [k \in 1..n |-> IF k = 1 THEN lists[k] ELSE f[k - 1] \o lists[k]]
             w == CHOOSE f : Rec(f)
  <1>1. n \in Nat /\ n >= 1 /\ \A k \in 1..n : lists[k] \in Seq(S)  OBVIOUS
  <1>2. \A k \in 1..n : \A a \in Seq(S) : a \o lists[k] \in Seq(S)  BY <1>1, InLists
  <1>3. FlattenSeq(lists) = w[n]  BY <1>1 DEF FlattenSeq
  <1> HIDE DEF n, w
  <1>4. step \in [(1..n) \X Seq(S) -> Seq(S)]  BY <1>2
  <1>5. PICK f : Recursive(f, Seq(S), <<>>, n, step)
    <2> DEFINE T == Seq(S)
               none == <<>>
    <2>1. none \in T  BY InNoList
    <2>2. step \in [(1..n) \X T -> T]  BY <1>4
    <2> HIDE DEF step, T, none
    <2>3. \E f : Recursive(f, T, none, n, step)  BY <1>1, <2>1, <2>2, Recursion
    <2> QED  BY <2>3 DEF T, none
  <1> DEFINE h == [k \in 1..n |-> f[k]]
  <1>6. Rec(h)
    <2>1. \A k \in 1..n : k \in 0..n /\ k # 0 /\ k - 1 \in 0..n  BY <1>1
    <2>2. \A k \in 1..n : f[k - 1] \in Seq(S) /\ f[k] = f[k - 1] \o lists[k]
      BY <1>5, <2>1 DEF Recursive
    <2>3. f[1] = lists[1]
      <3>0. 0 \in 0..n  BY <1>1
      <3>1. f[0] = <<>>
        <4> HIDE DEF step
        <4>1. f[0] = IF 0 = 0 THEN <<>> ELSE step[<<0, f[0 - 1]>>]  BY <1>5, <3>0 DEF Recursive
        <4> QED  BY <4>1
      <3>4. 1 \in 1..n /\ 1 - 1 = 0  BY <1>1
      <3>2. f[1] = <<>> \o lists[1]  BY <2>2, <3>1, <3>4
      <3>3. lists[1] \in Seq(S)  BY <1>1, <3>4
      <3> QED  BY <3>2, <3>3
    <2>4. \A k \in 1..n : k # 1 => k - 1 \in 1..n  BY <1>1
    <2>5. \A k \in 1..n : h[k] = IF k = 1 THEN lists[k] ELSE h[k - 1] \o lists[k]
      BY <2>2, <2>3, <2>4
    <2> QED  BY <2>5
  <1>7. Rec(w)
    <2> HIDE DEF Rec
    <2> QED  BY <1>6 DEF w
  <1>8. DOMAIN w = 1..n /\ w = [k \in 1..n |-> w[k]]
        /\ \A k \in 1..n : w[k] = IF k = 1 THEN lists[1] ELSE w[k - 1] \o lists[k]  BY <1>7
  <1> DEFINE good == {k \in Nat : k + 1 <= n => w[k + 1] \in Seq(S)}
  <1>9. 0 \in good
    <2>1. 1 \in 1..n /\ 0 + 1 = 1 /\ lists[1] \in Seq(S)  BY <1>1
    <2>2. w[1] = IF 1 = 1 THEN lists[1] ELSE w[1 - 1] \o lists[1]  BY <1>8, <2>1
    <2>3. w[1] \in Seq(S)  BY <2>1, <2>2
    <2> QED  BY <2>1, <2>3
  <1>10. ASSUME NEW k \in Nat, k \in good PROVE k + 1 \in good
    <2> SUFFICES ASSUME k + 1 + 1 <= n PROVE w[k + 1 + 1] \in Seq(S)  OBVIOUS
    <2>1. w[k + 1] \in Seq(S) /\ k + 1 + 1 \in 1..n /\ k + 1 + 1 # 1 /\ k + 1 + 1 - 1 = k + 1
      BY <1>1, <1>10
    <2> DEFINE m == k + 1 + 1
    <2>2. m \in 1..n /\ m # 1 /\ m - 1 = k + 1  BY <2>1
    <2> HIDE DEF m
    <2>3. w[m] = IF m = 1 THEN lists[1] ELSE w[m - 1] \o lists[m]  BY <1>8, <2>2
    <2>4. w[m] = w[k + 1] \o lists[m]  BY <2>2, <2>3
    <2>5. w[m] \in Seq(S)  BY <1>2, <2>1, <2>2, <2>4
    <2> QED  BY <2>5 DEF m
  <1>11. \A k \in 1..n : w[k] \in Seq(S)
    <2>1. Nat \subseteq good
      <3> HIDE DEF good
      <3> QED  BY <1>9, <1>10, Induction
    <2>2. \A k \in 1..n : k - 1 \in Nat /\ k - 1 + 1 = k /\ k <= n  BY <1>1
    <2> QED  BY <2>1, <2>2
  <1>12. w \in [1..n -> Seq(S)]  BY <1>8, <1>11
  <1>13. Flattening(w, S, lists)  BY <1>3, <1>8, <1>12 DEF Flattening, n
  <1> QED  BY <1>13

LEMMA InFlattened ==
    ASSUME NEW S, NEW lists \in Seq(Seq(S))
    PROVE  /\ FlattenSeq(lists) \in Seq(S)
           /\ \A x : x \in ToSet(FlattenSeq(lists)) <=> \E i \in 1..Len(lists) : x \in ToSet(lists[i])
  <1>1. CASE Len(lists) = 0
    <2>1. lists = <<>> /\ FlattenSeq(lists) = <<>>  BY <1>1 DEF FlattenSeq
    <2>2. \A x : x \notin ToSet(FlattenSeq(lists)) /\ ~ \E i \in 1..Len(lists) : x \in ToSet(lists[i])
      BY <1>1, <2>1, InNoList
    <2>3. FlattenSeq(lists) \in Seq(S)  BY <2>1, InNoList
    <2> QED  BY <2>2, <2>3
  <1>2. CASE Len(lists) # 0
    <2> DEFINE n == Len(lists)
    <2>1. n \in Nat /\ n >= 1 /\ \A k \in 1..n : lists[k] \in Seq(S)  BY <1>2
    <2>2. PICK w : Flattening(w, S, lists)  BY <1>2, FlattenSteps
    <2>3. /\ w \in [1..n -> Seq(S)] /\ FlattenSeq(lists) = w[n]
          /\ \A k \in 1..n : w[k] = IF k = 1 THEN lists[1] ELSE w[k - 1] \o lists[k]
      BY <2>2 DEF Flattening
    <2> HIDE DEF n
    <2> DEFINE good == {k \in Nat : k + 1 <= n =>
                    \A x : x \in ToSet(w[k + 1]) <=> \E i \in 1..(k + 1) : x \in ToSet(lists[i])}
    <2>4. 0 \in good
      <3>1. 1 \in 1..n /\ 0 + 1 = 1  BY <2>1
      <3>4. \A k \in 1..n : w[k] = IF k = 1 THEN lists[1] ELSE w[k - 1] \o lists[k]  BY <2>3
      <3>2. w[1] = IF 1 = 1 THEN lists[1] ELSE w[1 - 1] \o lists[1]  BY <3>1, <3>4
      <3>3. \A i \in 1..(0 + 1) : i = 1  OBVIOUS
      <3> QED  BY <3>2, <3>3
    <2>5. ASSUME NEW k \in Nat, k \in good PROVE k + 1 \in good
      <3> DEFINE m == k + 1
      <3> SUFFICES ASSUME m + 1 <= n, NEW x
                   PROVE  x \in ToSet(w[m + 1]) <=> \E i \in 1..(m + 1) : x \in ToSet(lists[i])
        OBVIOUS
      <3>1. m \in 1..n /\ m + 1 \in 1..n /\ m + 1 # 1 /\ m + 1 - 1 = m  BY <2>1
      <3>2. x \in ToSet(w[m]) <=> \E i \in 1..m : x \in ToSet(lists[i])  BY <2>1, <2>5, <3>1
      <3> HIDE DEF m
      <3> DEFINE j == m + 1
      <3>8. j \in 1..n /\ j # 1 /\ j - 1 = m  BY <3>1
      <3> HIDE DEF j
      <3>9. w[j] = IF j = 1 THEN lists[1] ELSE w[j - 1] \o lists[j]  BY <2>3, <3>8
      <3>3. w[m + 1] = w[m] \o lists[m + 1]  BY <3>8, <3>9 DEF j
      <3>4. w[m] \in Seq(S) /\ lists[m + 1] \in Seq(S)  BY <2>1, <2>3, <3>1
      <3>5. x \in ToSet(w[m + 1]) <=> x \in ToSet(w[m]) \/ x \in ToSet(lists[m + 1])
        BY <3>3, <3>4, InLists
      <3>6. \A i \in 1..(m + 1) : i \in 1..m \/ i = m + 1  BY <3>1
      <3>7. m + 1 \in 1..(m + 1) /\ \A i \in 1..m : i \in 1..(m + 1)  BY <3>1
      <3> QED  BY <3>2, <3>5, <3>6, <3>7
    <2>6. Nat \subseteq good
      <3> HIDE DEF good
      <3> QED  BY <2>4, <2>5, Induction
    <2>7. n - 1 \in Nat /\ n - 1 + 1 = n /\ n <= n  BY <2>1
    <2>8. \A x : x \in ToSet(w[n]) <=> \E i \in 1..n : x \in ToSet(lists[i])  BY <2>6, <2>7
    <2>9. w[n] \in Seq(S)  BY <2>1, <2>3
    <2> QED  BY <2>3, <2>8, <2>9 DEF n
  <1> QED  BY <1>1, <1>2

LEMMA InPlaced ==
    ASSUME NEW S, NEW list \in Seq(S), NEW e \in S, NEW ids, ids \subseteq DOMAIN list
    PROVE  LET placed == InsertAt(list, 1 + Cardinality(ids), e)
           IN  /\ placed \in Seq(S) /\ Len(placed) = Len(list) + 1
               /\ \A x : x \in ToSet(placed) <=> x \in ToSet(list) \/ x = e
  <1> DEFINE n == Len(list)
             c == Cardinality(ids)
  <1>1. n \in Nat /\ DOMAIN list = 1..n  OBVIOUS
  <1>2. IsFiniteSet(1..n) /\ Cardinality(1..n) = n
    <2>1. n \in Int /\ 1 \in Int  BY <1>1
    <2> HIDE DEF n
    <2>2. IsFiniteSet(1..n) /\ Cardinality(1..n) = IF 1 > n THEN 0 ELSE n - 1 + 1
      BY <2>1, FS_Interval
    <2> QED  BY <1>1, <2>2
  <1>3. c \in Nat /\ c <= n  BY <1>1, <1>2, FS_Subset, FS_CardinalityType
  <1> HIDE DEF c
  <1> DEFINE a == SubSeq(list, 1, c)
             b == SubSeq(list, c + 1, n)
  <1>4. InsertAt(list, 1 + c, e) = a \o <<e>> \o b
    <2> DEFINE k == 1 + c
    <2>1. k - 1 = c /\ k = c + 1  BY <1>3
    <2> HIDE DEF k
    <2>2. SubSeq(list, 1, k - 1) = a /\ SubSeq(list, k, Len(list)) = b  BY <2>1
    <2> HIDE DEF a, b, n
    <2>3. InsertAt(list, k, e) = SubSeq(list, 1, k - 1) \o <<e>> \o SubSeq(list, k, Len(list))
      BY DEF InsertAt
    <2>4. InsertAt(list, k, e) = a \o <<e>> \o b  BY <2>2, <2>3
    <2> QED  BY <2>4 DEF k
  <1>5. a \in Seq(S) /\ Len(a) = c /\ \A i \in 1..c : a[i] = list[i]  BY <1>1, <1>3
  <1>6. b \in Seq(S) /\ Len(b) = n - c /\ \A i \in 1..(n - c) : b[i] = list[c + i]
    <2> DEFINE k == c + 1
    <2>1. n \in Int /\ c \in Int /\ 0 <= c /\ c <= n /\ k = c + 1 /\ \A i \in 1..n : list[i] \in S
      BY <1>1, <1>3
    <2>2. b = SubSeq(list, k, n)  OBVIOUS
    <2> HIDE DEF b, k, n
    <2>3. k \in Int /\ (k <= n \/ n - k + 1 = 0) /\ n - k + 1 = n - c /\ \A i \in k..n : i \in 1..n
      BY <2>1
    <2>4. /\ SubSeq(list, k, n) \in Seq(S) /\ Len(SubSeq(list, k, n)) = IF k <= n THEN n - k + 1 ELSE 0
          /\ \A i \in 1..(n - k + 1) : SubSeq(list, k, n)[i] = list[k + i - 1]
      BY <2>1, <2>3, SubSeqProperties
    <2>5. \A i \in 1..(n - c) : k + i - 1 = c + i  BY <2>1
    <2>6. Len(b) = n - c  BY <2>1, <2>2, <2>3, <2>4
    <2> QED  BY <2>2, <2>3, <2>4, <2>5, <2>6
  <1> HIDE DEF a, b, n
  <1>7. <<e>> \in Seq(S) /\ Len(<<e>>) = 1 /\ ToSet(<<e>>) = {e}  BY InShortList
  <1> DEFINE one == <<e>>
  <1> HIDE DEF one
  <1>8. one \in Seq(S) /\ Len(one) = 1 /\ ToSet(one) = {e}  BY <1>7 DEF one
  <1>9. /\ a \o one \in Seq(S) /\ Len(a \o one) = c + 1
        /\ \A x : x \in ToSet(a \o one) <=> x \in ToSet(a) \/ x \in ToSet(one)
    BY <1>5, <1>8, InLists
  <1>10. /\ a \o one \o b \in Seq(S) /\ Len(a \o one \o b) = (c + 1) + (n - c)
         /\ \A x : x \in ToSet(a \o one \o b) <=> x \in ToSet(a \o one) \/ x \in ToSet(b)
    <2> DEFINE ab == a \o one
    <2>1. ab \in Seq(S) /\ Len(ab) = c + 1  BY <1>9
    <2> HIDE DEF ab
    <2>2. /\ ab \o b \in Seq(S) /\ Len(ab \o b) = Len(ab) + Len(b)
          /\ \A x : x \in ToSet(ab \o b) <=> x \in ToSet(ab) \/ x \in ToSet(b)
      BY <1>6, <2>1, InLists
    <2> QED  BY <1>6, <2>1, <2>2 DEF ab
  <1>11. \A x : x \in ToSet(list) <=> x \in ToSet(a) \/ x \in ToSet(b)
    <2>1. /\ \A x : x \in ToSet(list) <=> \E i \in 1..n : list[i] = x
          /\ \A x : x \in ToSet(a) <=> \E i \in 1..c : a[i] = x
          /\ \A x : x \in ToSet(b) <=> \E i \in 1..(n - c) : b[i] = x  BY <1>5, <1>6, InList DEF n
    <2>2. \A i \in 1..n : i \in 1..c \/ (i - c \in 1..(n - c) /\ c + (i - c) = i)  BY <1>1, <1>3
    <2>3. /\ \A i \in 1..c : i \in 1..n
          /\ \A i \in 1..(n - c) : c + i \in 1..n  BY <1>1, <1>3
    <2>4. ASSUME NEW x, x \in ToSet(list) PROVE x \in ToSet(a) \/ x \in ToSet(b)
      <3>1. PICK i \in 1..n : list[i] = x  BY <2>1, <2>4
      <3>2. CASE i \in 1..c  BY <1>5, <2>1, <3>1, <3>2
      <3>3. CASE i - c \in 1..(n - c) /\ c + (i - c) = i
        <4>1. b[i - c] = x  BY <1>6, <3>1, <3>3
        <4> QED  BY <2>1, <3>3, <4>1
      <3> QED  BY <2>2, <3>2, <3>3
    <2>5. \A x : x \in ToSet(a) => x \in ToSet(list)  BY <1>5, <2>1, <2>3
    <2>6. \A x : x \in ToSet(b) => x \in ToSet(list)  BY <1>6, <2>1, <2>3
    <2> QED  BY <2>4, <2>5, <2>6
  <1>12. (c + 1) + (n - c) = n + 1  BY <1>1, <1>3
  <1>13. InsertAt(list, 1 + c, e) = a \o one \o b  BY <1>4 DEF one
  <1>14. \A x : x \in ToSet(a \o one \o b) <=> x \in ToSet(list) \/ x = e
    BY <1>8, <1>9, <1>10, <1>11
  <1> QED  BY <1>10, <1>12, <1>13, <1>14 DEF c, n

-----------------------------------------------------------------------------
(* The symbols that a pull request changes.                                *)

LEMMA TouchedKnown ==
    ASSUME NEW g, Graph(g), NEW changed
    PROVE  /\ Touched(g, changed) \subseteq Ids(g) /\ IsFiniteSet(Touched(g, changed))
           /\ \A id \in Touched(g, changed) : NodeOf(g, id).type \in SymbolTypes \union {"File"}
  <1> DEFINE candidates == IF InFile(g, changed.filename) # {} THEN InFile(g, changed.filename)
                           ELSE InFile(g, changed.previous)
             ranges == ChangedLineRanges(changed.patch)
             symbols == {n \in candidates :
                /\ n.type \in SymbolTypes
                /\ \/ ranges = {}
                   \/ \E r \in ranges : n.start <= r.end /\ n.end >= r.start}
             nodes == IF symbols # {} THEN symbols ELSE {c \in candidates : c.type = "File"}
  <1>1. Touched(g, changed) = {n.id : n \in nodes}  BY DEF Touched
  <1>2. nodes \subseteq g.nodes /\ \A n \in nodes : n.type \in SymbolTypes \union {"File"}
    BY DEF InFile
  <1> HIDE DEF nodes
  <1>3. {n.id : n \in nodes} \subseteq Ids(g)  BY <1>2 DEF Ids
  <1>4. IsFiniteSet(nodes)  BY <1>2, FS_Subset DEF Graph
  <1>5. IsFiniteSet({n.id : n \in nodes})
    <2> DEFINE id == [n \in nodes |-> n.id]
    <2>1. IsFiniteSet({id[n] : n \in nodes})  BY <1>4, FiniteImage
    <2> QED  BY <2>1
  <1>6. \A n \in nodes : NodeOf(g, n.id).type \in SymbolTypes \union {"File"}  BY <1>2, NodeOfId
  <1> QED  BY <1>1, <1>3, <1>5, <1>6

LEMMA ChangedAre ==
    ASSUME NEW g, Graph(g), NEW S, NEW files \in Seq(S)
    PROVE  /\ ChangedIds(g, files) \in Seq(Ids(g))
           /\ \A id : id \in ToSet(ChangedIds(g, files)) <=>
                        \E i \in 1..Len(files) : id \in Touched(g, files[i])
  <1> DEFINE lists == [i \in DOMAIN files |-> Sorted(Touched(g, files[i]))]
             n == Len(files)
             T == Ids(g)
  <1>1. n \in Nat /\ DOMAIN files = 1..n  OBVIOUS
  <1>2. \A i \in 1..n : /\ Sorted(Touched(g, files[i])) \in Seq(T)
                        /\ ToSet(Sorted(Touched(g, files[i]))) = Touched(g, files[i])
    <2> SUFFICES ASSUME NEW i \in 1..n
                 PROVE  /\ Sorted(Touched(g, files[i])) \in Seq(T)
                        /\ ToSet(Sorted(Touched(g, files[i]))) = Touched(g, files[i])  OBVIOUS
    <2> DEFINE ids == Touched(g, files[i])
    <2>1. ids \subseteq T /\ IsFiniteSet(ids)  BY TouchedKnown
    <2> HIDE DEF ids, T
    <2>2. Sorted(ids) \in Seq(ids) /\ ToSet(Sorted(ids)) = ids  BY <2>1, InSorted
    <2>3. Sorted(ids) \in Seq(T)  BY <2>1, <2>2
    <2> QED  BY <2>2, <2>3 DEF ids
  <1>3. lists \in Seq(Seq(T)) /\ Len(lists) = n /\ \A i \in 1..n : ToSet(lists[i]) = Touched(g, files[i])
    <2>1. lists = [i \in 1..n |-> Sorted(Touched(g, files[i]))]  BY <1>1
    <2> HIDE DEF lists, T, n
    <2>2. lists \in [1..n -> Seq(T)] /\ \A i \in 1..n : ToSet(lists[i]) = Touched(g, files[i])
      BY <1>2, <2>1
    <2> QED  BY <1>1, <2>2
  <1>4. ChangedIds(g, files) = Unique(FlattenSeq(lists))  BY DEF ChangedIds
  <1> HIDE DEF lists, T, n
  <1>5. /\ FlattenSeq(lists) \in Seq(T)
        /\ \A x : x \in ToSet(FlattenSeq(lists)) <=> \E i \in 1..Len(lists) : x \in ToSet(lists[i])
    BY <1>3, InFlattened
  <1> DEFINE flat == FlattenSeq(lists)
  <1> HIDE DEF flat
  <1>6. Unique(flat) \in Seq(T) /\ ToSet(Unique(flat)) = ToSet(flat)  BY <1>5, InUnique DEF flat
  <1>7. \A x : x \in ToSet(Unique(flat)) <=> \E i \in 1..n : x \in Touched(g, files[i])
    BY <1>3, <1>5, <1>6 DEF flat
  <1> QED  BY <1>4, <1>6, <1>7 DEF flat, T, n

(* How a pull request lists a file that changed: by its name with the      *)
(* patch, or as renamed to what was not there.                             *)
Listed(file, f, x, y) ==
    \/ file.filename = f /\ file.patch \in {{}, Patch(x[f], y[f])}
    \/ /\ file.previous = f /\ file.patch = {} /\ y[f] = Absent
       /\ file.filename \in Paths /\ x[file.filename] = Absent

PullListed(x, y) == \A f \in Paths : x[f] # y[f] =>
    \E i \in 1..Len(PullFiles(x, y)) : Listed(PullFiles(x, y)[i], f, x, y)

LEMMA PullKnown ==
    ASSUME NEW x, NEW y
    PROVE  PullListed(x, y) /\ \E S : PullFiles(x, y) \in Seq(S)
  <1> DEFINE removed(f) == x[f] # Absent /\ y[f] = Absent
             added(f) == x[f] = Absent /\ y[f] # Absent
             origins(f) == {p \in Paths : removed(p) /\ added(f) /\ x[p] = y[f]}
             origin(f) == CHOOSE p \in origins(f) : TRUE
             moved == {origin(f) : f \in {a \in Paths : origins(a) # {}}}
             listed == {f \in Paths : x[f] # y[f]} \ moved
             changed == Among(ScanOrder, listed)
             file(f) == IF origins(f) # {}
                        THEN [filename |-> f, previous |-> origin(f), patch |-> {}]
                        ELSE [filename |-> f, previous |-> None, patch |-> Patch(x[f], y[f])]
             n == Len(changed)
  <1>1. PullFiles(x, y) = [i \in DOMAIN changed |-> file(changed[i])]  BY DEF PullFiles
  <1>2. /\ changed \in Seq(Paths)
        /\ ToSet(changed) = Paths \intersect listed
    <2>1. ScanOrder \in Seq(Paths) /\ ToSet(ScanOrder) = Paths  BY RepositoryContents
    <2> HIDE DEF listed
    <2> QED  BY <2>1, InAmong
  <1>3. \A f \in Paths : origins(f) # {} => /\ origin(f) \in Paths /\ x[origin(f)] # Absent
                                            /\ y[origin(f)] = Absent /\ x[f] = Absent /\ y[f] # Absent
    OBVIOUS
  <1>4. \A f \in Paths : origins(f) # {} => f \notin moved
    <2>1. \A p \in moved : y[p] = Absent  BY <1>3
    <2> QED  BY <1>3, <2>1
  <1> HIDE DEF changed, origin, origins
  <1>5. n \in Nat /\ DOMAIN changed = 1..n  BY <1>2
  <1>6. PullFiles(x, y) \in [1..n -> {file(changed[i]) : i \in 1..n}]  BY <1>1, <1>5
  <1>7. PullFiles(x, y) \in Seq({file(changed[i]) : i \in 1..n}) /\ Len(PullFiles(x, y)) = n
    <2> DEFINE T == {file(changed[i]) : i \in 1..n}
               pull == PullFiles(x, y)
    <2>1. pull \in [1..n -> T]  BY <1>6
    <2> HIDE DEF T, pull, n
    <2>2. pull \in Seq(T) /\ Len(pull) = n  BY <1>5, <2>1
    <2> QED  BY <2>2 DEF T, pull
  <1>8. ASSUME NEW f \in Paths, x[f] # y[f], f \notin moved
        PROVE  \E i \in 1..n : PullFiles(x, y)[i] = file(f)
    <2>1. f \in ToSet(changed)  BY <1>2, <1>8
    <2>2. PICK i \in 1..n : changed[i] = f  BY <1>2, <2>1, InList
    <2>3. PullFiles(x, y)[i] = file(f)  BY <1>1, <1>5, <2>2
    <2> QED  BY <2>3
  <1>9. ASSUME NEW f \in Paths, x[f] # y[f]
        PROVE  \E i \in 1..n : Listed(PullFiles(x, y)[i], f, x, y)
    <2>1. CASE f \notin moved
      <3>1. PICK i \in 1..n : PullFiles(x, y)[i] = file(f)  BY <1>8, <1>9, <2>1
      <3>2. file(f).filename = f /\ file(f).patch \in {{}, Patch(x[f], y[f])}  OBVIOUS
      <3> QED  BY <3>1, <3>2 DEF Listed
    <2>2. CASE f \in moved
      <3>1. PICK a \in Paths : origins(a) # {} /\ f = origin(a)  BY <2>2
      <3>2. x[a] = Absent /\ y[a] # Absent /\ y[f] = Absent /\ a \notin moved  BY <1>3, <1>4, <3>1
      <3>3. PICK i \in 1..n : PullFiles(x, y)[i] = file(a)  BY <1>8, <3>2
      <3>4. file(a).filename = a /\ file(a).previous = f /\ file(a).patch = {}  BY <3>1
      <3> QED  BY <3>2, <3>3, <3>4 DEF Listed
    <2> QED  BY <2>1, <2>2
  <1> HIDE DEF file, n
  <1>10. PullListed(x, y)  BY <1>7, <1>9 DEF PullListed
  <1> QED  BY <1>7, <1>10

LEMMA ShownIsTouched ==
    ASSUME NEW g, NEW n \in g.nodes, n.type \in SymbolTypes, n.file # None, NEW changed,
           Shown(n, ChangedLineRanges(changed.patch)),
           n.file = changed.filename \/ (n.file = changed.previous /\ InFile(g, changed.filename) = {})
    PROVE  n.id \in Touched(g, changed)
  <1> DEFINE candidates == IF InFile(g, changed.filename) # {} THEN InFile(g, changed.filename)
                           ELSE InFile(g, changed.previous)
             ranges == ChangedLineRanges(changed.patch)
             symbols == {m \in candidates :
                /\ m.type \in SymbolTypes
                /\ \/ ranges = {}
                   \/ \E r \in ranges : m.start <= r.end /\ m.end >= r.start}
  <1>1. n \in candidates  BY DEF InFile
  <1>2. n \in symbols  BY <1>1 DEF Shown
  <1>3. Touched(g, changed) = {m.id : m \in symbols}  BY <1>2 DEF Touched
  <1> QED  BY <1>2, <1>3

(* What is in one version and not in the other is changed, or its file was *)
(* renamed to what was a directory.                                        *)
Lost(n, g) == ~ \E m \in g.nodes : m.file = n.file /\ m.text = n.text

TouchedBy(n, g, files) == \E i \in 1..Len(files) :
    \/ n.id \in Touched(g, files[i])
    \/ files[i].previous = n.file /\ Touched(g, files[i]) = {}

LEMMA LostIsTouched ==
    ASSUME NEW u, NEW v, Indexed(u), Indexed(v), NEW x, NEW y,
           (x = u.sources /\ y = v.sources) \/ (x = v.sources /\ y = u.sources),
           NEW n \in u.graph.nodes, n.type \in SymbolTypes,
           Lost(n, v.graph)
    PROVE  TouchedBy(n, u.graph, PullFiles(x, y))
  <1> DEFINE f == n.file
             g == u.graph
  <1>1. /\ f \in DOMAIN Analyzed(u) /\ u.sources[f] # v.sources[f]
        /\ Shown(n, ChangedLineRanges(Patch(u.sources[f], v.sources[f])))
        /\ Shown(n, ChangedLineRanges(Patch(v.sources[f], u.sources[f])))  BY LostIsShown DEF Lost
  <1>2. f \in Paths /\ u.sources[f] # Absent /\ f # None  BY <1>1, ScannedSource, RepositoryContents
  <1>3. Shown(n, ChangedLineRanges({}))  BY DEF Shown, ChangedLineRanges
  <1>4. x[f] # y[f] /\ Shown(n, ChangedLineRanges(Patch(x[f], y[f])))  BY <1>1
  <1>5. PICK i \in 1..Len(PullFiles(x, y)) : Listed(PullFiles(x, y)[i], f, x, y)
    <2>1. PullListed(x, y)  BY PullKnown
    <2> HIDE DEF f
    <2> QED  BY <1>2, <1>4, <2>1 DEF PullListed
  <1> DEFINE file == PullFiles(x, y)[i]
  <1> HIDE DEF file, g
  <1>6. CASE file.filename = f /\ file.patch \in {{}, Patch(x[f], y[f])}
    <2>1. Shown(n, ChangedLineRanges(file.patch))  BY <1>3, <1>4, <1>6
    <2>2. n.id \in Touched(g, file)  BY <1>2, <1>6, <2>1, ShownIsTouched DEF g
    <2> QED  BY <2>2 DEF file, g, TouchedBy
  <1>7. CASE /\ file.previous = f /\ file.patch = {} /\ y[f] = Absent
             /\ file.filename \in Paths /\ x[file.filename] = Absent
    <2>1. x = u.sources  BY <1>2, <1>7
    <2>2. file.filename \notin DOMAIN Analyzed(u)  BY <1>7, <2>1, ScannedSource
    <2>3. \A m \in InFile(g, file.filename) : m.type = "Directory"
      <3> SUFFICES ASSUME NEW m \in g.nodes, m.file = file.filename, m.type # "Directory" PROVE FALSE
        BY DEF InFile
      <3>1. PICK a \in DOMAIN Analyzed(u) : NodeOfFile(Analyzed(u), ScanFiles(u.sources), a, m)
        BY VersionBuilt, GraphNodes DEF g
      <3>2. m.file # None  BY <1>7, RepositoryContents
      <3>3. m.file = a  BY <3>1, <3>2, NodesOfFile
      <3> QED  BY <2>2, <3>1, <3>3
    <2>4. CASE InFile(g, file.filename) = {}
      <3>1. Shown(n, ChangedLineRanges(file.patch))  BY <1>3, <1>7
      <3>2. n.id \in Touched(g, file)  BY <1>2, <1>7, <2>4, <3>1, ShownIsTouched DEF g
      <3> QED  BY <3>2 DEF file, g, TouchedBy
    <2>5. CASE InFile(g, file.filename) # {}
      <3>1. Touched(g, file) = {}  BY <2>3, <2>5 DEF Touched, SymbolTypes
      <3> QED  BY <1>7, <3>1 DEF file, g, TouchedBy
    <2> QED  BY <2>4, <2>5
  <1> QED  BY <1>5, <1>6, <1>7 DEF file, Listed, TouchedBy

(* What a file or symbol contains or defines is of the same file.          *)
LEMMA ContainedStays ==
    ASSUME NEW files, NEW f, NEW e \in ContainsEdges(files, f), Code(e.source), Directories[f] \in Seq(STRING)
    PROVE  Code(e.target) /\ FileOf(e.target) = FileOf(e.source)
  <1> DEFINE chain == Chain(f)
             dirs == Directories[f]
             n == Len(dirs)
  <1>1. \/ \E i \in 1..(Len(chain) - 1) : e = Edge(chain[i], chain[i + 1], "CONTAINS", f, 1, "resolved")
        \/ \E d \in files[f].endpoints : e = Edge(FileId(f), EndpointId(f, d), "DEFINES", f, d.line, "resolved")
        \/ \E s \in files[f].symbols :
            e = Edge(OwnerId(files, f, s.owner), SymbolId(f, s), "DEFINES", f, s.start, "resolved")
    BY DEF ContainsEdges, Chain
  <1>2. n \in Nat /\ DOMAIN dirs = 1..n
    <2> HIDE DEF dirs
    <2> QED  BY LenProperties DEF dirs
  <1>3. /\ Len(chain) = n + 2 /\ chain[1] = RepositoryId
        /\ \A i \in 2..(n + 1) : chain[i] = DirectoryId(f, i - 1)
    <2> DEFINE middle == [k \in DOMAIN Directories[f] |-> DirectoryId(f, k)]
               T == {RepositoryId, FileId(f)} \union {DirectoryId(f, k) : k \in 1..n}
               first == <<RepositoryId>>
               last == <<FileId(f)>>
    <2>1. middle = [k \in 1..n |-> DirectoryId(f, k)]  BY <1>2
    <2>2. \A k \in 1..n : DirectoryId(f, k) \in T  OBVIOUS
    <2>3. RepositoryId \in T /\ FileId(f) \in T  OBVIOUS
    <2> HIDE DEF middle, T, n, dirs
    <2>4. middle \in Seq(T) /\ Len(middle) = n /\ \A k \in 1..n : middle[k] = DirectoryId(f, k)
      BY <1>2, <2>1, <2>2
    <2>5. first \in Seq(T) /\ last \in Seq(T) /\ Len(first) = 1 /\ Len(last) = 1 /\ first[1] = RepositoryId
      BY <2>3
    <2>6. chain = first \o middle \o last  BY DEF Chain, middle
    <2> HIDE DEF first, last, chain
    <2>11. /\ first \o middle \in Seq(T) /\ Len(first \o middle) = Len(first) + Len(middle)
           /\ \A i \in 1..(Len(first) + Len(middle)) :
                (first \o middle)[i] = IF i <= Len(first) THEN first[i] ELSE middle[i - Len(first)]
      BY <2>4, <2>5, ConcatProperties
    <2>12. 1 \in 1..(1 + n) /\ 1 <= 1 /\ \A i \in 2..(n + 1) : i \in 1..(1 + n) /\ ~(i <= 1) /\ i - 1 \in 1..n
      BY <1>2
    <2>7. /\ first \o middle \in Seq(T) /\ Len(first \o middle) = n + 1
          /\ (first \o middle)[1] = RepositoryId
          /\ \A i \in 2..(n + 1) : (first \o middle)[i] = DirectoryId(f, i - 1)
      BY <1>2, <2>4, <2>5, <2>11, <2>12
    <2> DEFINE start == first \o middle
    <2> HIDE DEF start
    <2>8. /\ start \in Seq(T) /\ Len(start) = n + 1 /\ start[1] = RepositoryId
          /\ \A i \in 2..(n + 1) : start[i] = DirectoryId(f, i - 1)  BY <2>7 DEF start
    <2>13. /\ Len(start \o last) = Len(start) + Len(last)
           /\ \A i \in 1..(Len(start) + Len(last)) :
                (start \o last)[i] = IF i <= Len(start) THEN start[i] ELSE last[i - Len(start)]
      BY <2>5, <2>8, ConcatProperties
    <2>14. \A i \in 1..(n + 1) : i \in 1..(n + 1 + 1) /\ i <= n + 1  BY <1>2
    <2>9. Len(start \o last) = n + 2 /\ \A i \in 1..(n + 1) : (start \o last)[i] = start[i]
      BY <1>2, <2>5, <2>8, <2>13, <2>14
    <2>10. chain = start \o last  BY <2>6 DEF start
    <2> QED  BY <1>2, <2>8, <2>9, <2>10 DEF n, chain
  <1> HIDE DEF chain, n, dirs
  <1>4. ASSUME NEW i \in 1..(Len(chain) - 1), e = Edge(chain[i], chain[i + 1], "CONTAINS", f, 1, "resolved")
        PROVE  FALSE
    <2>1. e.source = chain[i]  BY <1>4, EdgeFields
    <2>2. i = 1 \/ i \in 2..(n + 1)  BY <1>2, <1>3
    <2>3. chain[i] = RepositoryId \/ \E k : chain[i] = DirectoryId(f, k)  BY <1>3, <2>2
    <2> QED  BY <2>1, <2>3 DEF Code, RepositoryId, DirectoryId
  <1>5. FileOf(FileId(f)) = f /\ (\A d : FileOf(EndpointId(f, d)) = f) /\ \A s : FileOf(SymbolId(f, s)) = f
    BY DEF FileOf, FileId, EndpointId, SymbolId
  <1>6. \A name : FileOf(OwnerId(files, f, name)) = f  BY <1>5 DEF OwnerId
  <1> QED  BY <1>1, <1>4, <1>5, <1>6, EdgeFields, CodeIds

LEMMA StructureStays ==
    ASSUME NEW v, Indexed(v), NEW a, NEW b, <<a, b>> \in Structure(v.graph), Code(a)
    PROVE  Code(b) /\ FileOf(b) = FileOf(a)
  <1> DEFINE files == Analyzed(v)
             order == ScanFiles(v.sources)
  <1>1. Repository(files) /\ v.graph = ResolveGraph(files, order)  BY VersionBuilt
  <1> HIDE DEF files, order
  <1>2. PICK e \in v.graph.edges : e.type \in {"DEFINES", "CONTAINS"} /\ a = e.source /\ b = e.target
    BY DEF Structure
  <1>3. PICK f \in DOMAIN files : e \in EdgesSaid(files, f) \/ e \in PackageEdges(files, f, UpTo(order, f))
    BY <1>1, GraphEdges
  <1>4. e \in ContainsEdges(files, f)  BY <1>1, <1>2, <1>3, EdgesOfFile
  <1>5. Directories[f] \in Seq(STRING)  BY <1>1, RepositoryContents DEF Repository
  <1> QED  BY <1>2, <1>4, <1>5, ContainedStays

LEMMA SelectedStays ==
    ASSUME NEW v, Indexed(v), NEW id \in Ids(v.graph), NEW s \in Selected(v.graph, id)
    PROVE  FileOf(s) = FileOf(id)
  <1> DEFINE g == v.graph
             same == {a \in Ids(g) : Code(a) /\ FileOf(a) = FileOf(id)}
  <1>1. Whole(g)  BY VersionWhole
  <1>2. PICK w : Deepening(w, g, id)  BY <1>1, SelectedSteps
  <1>3. CASE TypeOf(g, id) \notin {"File", "Class", "Interface"}  BY <1>2, <1>3 DEF Deepening
  <1>4. CASE TypeOf(g, id) \in {"File", "Class", "Interface"}
    <2>1. PICK n \in g.nodes : n.id = id  BY DEF Ids
    <2>2. NodeOf(g, id) = n  BY <1>1, <2>1, NodeOfId DEF Whole
    <2>3. Told(n)  BY <1>1 DEF Whole
    <2>4. Code(id)  BY <1>4, <2>1, <2>2, <2>3 DEF Told, TypeOf
    <2>5. w[0] \subseteq same  BY <1>2, <2>4 DEF Deepening
    <2>6. ASSUME NEW k \in 1..3, w[k - 1] \subseteq same PROVE w[k] \subseteq same
      <3>1. w[k] = Successors(Structure(g), w[k - 1]) /\ w[k] \subseteq Ids(g)
        BY <1>2 DEF Deepening
      <3>2. Pairs(Structure(g))  BY DEF Pairs, Structure
      <3> SUFFICES ASSUME NEW b \in w[k] PROVE b \in same  OBVIOUS
      <3>3. PICK a \in w[k - 1] : <<a, b>> \in Structure(g)  BY <3>1, <3>2, InSuccessors
      <3>4. Code(a) /\ FileOf(a) = FileOf(id)  BY <2>6, <3>3
      <3>5. Code(b) /\ FileOf(b) = FileOf(a)  BY <3>3, <3>4, StructureStays
      <3> QED  BY <3>1, <3>4, <3>5
    <2> HIDE DEF same
    <2>7. w[1] \subseteq same  BY <2>5, <2>6, 1 - 1 = 0
    <2>8. w[2] \subseteq same  BY <2>6, <2>7, 2 - 1 = 1
    <2>9. w[3] \subseteq same  BY <2>6, <2>8, 3 - 1 = 2
    <2>10. \A k \in 0..3 : k = 0 \/ k = 1 \/ k = 2 \/ k = 3  OBVIOUS
    <2>11. UNION {w[k] : k \in 0..3} \subseteq same  BY <2>5, <2>7, <2>8, <2>9, <2>10
    <2>12. s \in same  BY <1>2, <1>4, <2>11 DEF Deepening
    <2> QED  BY <2>12 DEF same
  <1> QED  BY <1>3, <1>4

(* The impacts of a list of symbols, each placed among those before it.    *)
ItemOf(g, id) ==
    LET i == Impact(g, id)
    IN  [node |-> id, score |-> i.score, risk |-> i.risk, radius |-> Cardinality(i.dependents),
         files |-> i.files, endpoints |-> i.endpoints, tests |-> RelatedTests(g, i)]

Higher(a, b) == a.score > b.score \/ (a.score = b.score /\ a.radius > b.radius)

Placed(list, i) == InsertAt(list, 1 + Cardinality({k \in DOMAIN list : ~Higher(i, list[k])}), i)

Items(g) == {ItemOf(g, id) : id \in Ids(g)}

Placing(w, g, changed, list) ==
    /\ w \in [0..Len(list) -> Seq(Items(g))]
    /\ w[0] = <<>>
    /\ \A k \in 1..Len(list) : w[k] = Placed(w[k - 1], ItemOf(g, list[k]))
    /\ Impacts(g, changed) = w[Len(list)]

LEMMA PlacedItem ==
    ASSUME NEW T, NEW list \in Seq(T), NEW i \in T
    PROVE  /\ Placed(list, i) \in Seq(T) /\ Len(Placed(list, i)) = Len(list) + 1
           /\ \A x : x \in ToSet(Placed(list, i)) <=> x \in ToSet(list) \/ x = i
  <1> DEFINE ids == {k \in DOMAIN list : ~Higher(i, list[k])}
  <1>1. ids \subseteq DOMAIN list  OBVIOUS
  <1>2. Placed(list, i) = InsertAt(list, 1 + Cardinality(ids), i)  BY DEF Placed
  <1> HIDE DEF ids
  <1> QED  BY <1>1, <1>2, InPlaced

LEMMA ImpactSteps ==
    ASSUME NEW g, NEW changed \in Seq(Ids(g))
    PROVE  \E w : Placing(w, g, changed, First(MaxChanged, changed))
  <1> DEFINE list == First(MaxChanged, changed)
             n == Len(list)
             T == Items(g)
             step == [p \in (1..n) \X Seq(T) |-> Placed(p[2], ItemOf(g, list[p[1]]))]
             Rec(f) == f = [k \in 0..n |-> IF k = 0 THEN <<>> ELSE Placed(f[k - 1], ItemOf(g, list[k]))]
             w == CHOOSE f : Rec(f)
  <1>1. n \in Nat /\ \A k \in 1..n : ItemOf(g, list[k]) \in T
    <2>1. MaxChanged \in Nat  BY PullRequestBounds
    <2>2. list \in Seq(Ids(g))  BY <2>1, InFirst
    <2> HIDE DEF list
    <2> QED  BY <2>2 DEF Items
  <1>2. Impacts(g, changed) = w[n]  BY DEF Impacts, ItemOf, Placed, Higher
  <1> HIDE DEF n, T, list
  <1>3. \A k \in 1..n : \A a \in Seq(T) : Placed(a, ItemOf(g, list[k])) \in Seq(T)
    BY <1>1, PlacedItem
  <1>4. step \in [(1..n) \X Seq(T) -> Seq(T)]  BY <1>3
  <1>5. PICK f : Recursive(f, Seq(T), <<>>, n, step)
    <2> DEFINE U == Seq(T)
               none == <<>>
    <2>1. none \in U  BY InNoList
    <2>2. step \in [(1..n) \X U -> U]  BY <1>4
    <2> HIDE DEF step, U, none
    <2>3. \E f : Recursive(f, U, none, n, step)  BY <1>1, <2>1, <2>2, Recursion
    <2> QED  BY <2>3 DEF U, none
  <1>6. Rec(f)
    <2>1. \A k \in 0..n : k # 0 => f[k - 1] \in Seq(T) /\ k \in 1..n  BY <1>1, <1>5 DEF Recursive
    <2>2. \A k \in 0..n : k # 0 => step[<<k, f[k - 1]>>] = Placed(f[k - 1], ItemOf(g, list[k]))
      BY <2>1
    <2>3. \A k \in 0..n : f[k] = IF k = 0 THEN <<>> ELSE Placed(f[k - 1], ItemOf(g, list[k]))
      BY <1>5, <2>2 DEF Recursive
    <2> QED  BY <1>5, <2>3 DEF Recursive
  <1>7. Rec(w)
    <2> HIDE DEF Rec
    <2> QED  BY <1>6
  <1>8. w[0] = <<>> /\ \A k \in 1..n : w[k] = Placed(w[k - 1], ItemOf(g, list[k]))
    <2> HIDE DEF w
    <2>1. \A k \in 1..n : k \in 0..n /\ k # 0  BY <1>1
    <2> QED  BY <1>1, <1>7, <2>1
  <1>9. w \in [0..n -> Seq(T)]
    <2> HIDE DEF w
    <2>1. DOMAIN w = 0..n /\ w = [k \in 0..n |-> w[k]]  BY <1>7
    <2>2. w[0] \in Seq(T) /\ \A k \in 1..n : w[k - 1] \in Seq(T) => w[k] \in Seq(T)
      BY <1>3, <1>8, InNoList
    <2> QED  BY <1>1, <2>1, <2>2, Stays
  <1> HIDE DEF w
  <1>10. Placing(w, g, changed, list)  BY <1>2, <1>8, <1>9 DEF n, T, Placing
  <1> QED  BY <1>10 DEF list

LEMMA ImpactsAre ==
    ASSUME NEW g, NEW changed \in Seq(Ids(g))
    PROVE  /\ Impacts(g, changed) \in Seq(Items(g))
           /\ Len(Impacts(g, changed)) = Len(First(MaxChanged, changed))
           /\ \A x : x \in ToSet(Impacts(g, changed)) <=> \E id \in ToSet(First(MaxChanged, changed)) : x = ItemOf(g, id)
  <1> DEFINE list == First(MaxChanged, changed)
             n == Len(list)
             T == Items(g)
  <1>1. PICK w : Placing(w, g, changed, list)  BY ImpactSteps
  <1>2. list \in Seq(Ids(g))  BY PullRequestBounds, InFirst
  <1> HIDE DEF list
  <1>3. /\ w \in [0..n -> Seq(T)] /\ w[0] = <<>> /\ Impacts(g, changed) = w[n]
        /\ \A k \in 1..n : w[k] = Placed(w[k - 1], ItemOf(g, list[k]))  BY <1>1 DEF Placing
  <1>4. n \in Nat /\ \A k \in 1..n : list[k] \in Ids(g) /\ ItemOf(g, list[k]) \in T
    BY <1>2 DEF Items
  <1>5. \A x : x \in ToSet(list) <=> \E i \in 1..n : list[i] = x  BY <1>2, InList
  <1> DEFINE good == {k \in Nat : k <= n =>
                        /\ Len(w[k]) = k
                        /\ \A x : x \in ToSet(w[k]) <=> \E i \in 1..k : x = ItemOf(g, list[i])}
  <1> HIDE DEF n, T
  <1>6. 0 \in good
    <2>1. Len(<<>>) = 0  OBVIOUS
    <2> QED  BY <1>3, <2>1, InNoList
  <1>7. ASSUME NEW k \in Nat, k \in good PROVE k + 1 \in good
    <2> SUFFICES ASSUME k + 1 <= n
                 PROVE  /\ Len(w[k + 1]) = k + 1
                        /\ \A x : x \in ToSet(w[k + 1]) <=> \E i \in 1..(k + 1) : x = ItemOf(g, list[i])
      OBVIOUS
    <2> DEFINE m == k + 1
    <2>1. w[k] \in Seq(T) /\ m \in 1..n /\ m - 1 = k /\ k <= n  BY <1>3, <1>4, <1>7
    <2>2. /\ Len(w[k]) = k
          /\ \A x : x \in ToSet(w[k]) <=> \E i \in 1..k : x = ItemOf(g, list[i])  BY <1>7, <2>1
    <2>3. \A i \in 1..m : i \in 1..k \/ i = m  OBVIOUS
    <2>4. m \in 1..m /\ (\A i \in 1..k : i \in 1..m) /\ Len(w[k]) + 1 = m  BY <2>2
    <2> HIDE DEF m
    <2>5. w[m] = Placed(w[k], ItemOf(g, list[m]))  BY <1>3, <2>1
    <2>6. /\ Len(w[m]) = Len(w[k]) + 1
          /\ \A x : x \in ToSet(w[m]) <=> x \in ToSet(w[k]) \/ x = ItemOf(g, list[m])
      <3> DEFINE before == w[k]
                 item == ItemOf(g, list[m])
      <3>1. before \in Seq(T) /\ item \in T /\ w[m] = Placed(before, item)  BY <1>4, <2>1, <2>5
      <3> HIDE DEF before, item
      <3>2. /\ Len(Placed(before, item)) = Len(before) + 1
            /\ \A x : x \in ToSet(Placed(before, item)) <=> x \in ToSet(before) \/ x = item
        BY <3>1, PlacedItem
      <3> QED  BY <3>1, <3>2 DEF before, item
    <2>7. \A x : x \in ToSet(w[m]) <=> \E i \in 1..m : x = ItemOf(g, list[i])
      BY <2>2, <2>3, <2>4, <2>6
    <2> QED  BY <2>4, <2>6, <2>7 DEF m
  <1>8. n \in good
    <2> HIDE DEF good
    <2>1. Nat \subseteq good  BY <1>6, <1>7, Induction
    <2> QED  BY <1>4, <2>1
  <1>9. Len(w[n]) = n /\ \A x : x \in ToSet(w[n]) <=> \E i \in 1..n : x = ItemOf(g, list[i])
    <2>1. n <= n  BY <1>4
    <2> QED  BY <1>8, <2>1
  <1>10. \A x : x \in ToSet(w[n]) <=> \E id \in ToSet(list) : x = ItemOf(g, id)  BY <1>5, <1>9
  <1>11. w[n] \in Seq(T)  BY <1>3, <1>4
  <1> QED  BY <1>3, <1>9, <1>10, <1>11 DEF n, T, list

(* When a review asks for no attention, the changed symbols are of tests,  *)
(* or something in a test is connected with them.                          *)
Depends(g, a, id) == Selected(g, id) \intersect Visited(g, a) # {}

Tested(g, id) == \E n \in g.nodes :
    /\ n.file \in TestPaths
    /\ \/ n.id \notin Selected(g, id) /\ Depends(g, n.id, id)
       \/ \E e \in g.edges :
            e.target = n.id /\ e.type \in {"READS_FROM", "WRITES_TO"} /\ Depends(g, e.source, id)

LEMMA TestsConnected ==
    ASSUME NEW v, Indexed(v), NEW id \in Ids(v.graph), RelatedTests(v.graph, Impact(v.graph, id)) # {}
    PROVE  NodeOf(v.graph, id).file \in TestPaths \/ Tested(v.graph, id)
  <1> DEFINE g == v.graph
             impact == Impact(g, id)
             selected == Selected(g, id)
             affected == impact.dependents \union selected
  <1>1. Whole(g)  BY VersionWhole
  <1>2. /\ impact.graph.nodes \subseteq affected \union impact.db
        /\ impact.graph.nodes \subseteq Ids(g)  BY <1>1, ImpactShown
  <1>3. PICK a \in impact.graph.nodes : NodeOf(g, a).file \in TestPaths  BY DEF RelatedTests
  <1>4. PICK n \in g.nodes : n.id = a  BY <1>2, <1>3 DEF Ids
  <1>5. n.file \in TestPaths  BY <1>1, <1>3, <1>4, NodeOfId DEF Whole
  <1>6. impact.dependents = DOMAIN Distances(g, selected) \ selected /\ impact.db = DataOf(g, affected)
    BY ImpactParts
  <1>7. impact.dependents = {b \in Ids(g) \ selected : selected \intersect Visited(g, b) # {}}
    BY <1>1, <1>6, AffectedKnown
  <1> HIDE DEF g, impact
  <1>8. \A b \in affected : Depends(g, b, id)
    <2>1. \A b \in impact.dependents : Depends(g, b, id)  BY <1>7 DEF Depends
    <2>2. ASSUME NEW b \in selected PROVE Depends(g, b, id)
      <3>1. Pairs(Net(g)) /\ Cutoff \in Nat /\ 0 <= Cutoff /\ 0 \in Nat
        BY <1>1, NetKnown, IntelligenceBounds
      <3>2. Near(Net(g), 0, b, b)  BY <3>1, NearSteps
      <3>3. Near(Net(g), Cutoff, b, b)  BY <3>1, <3>2, NearMore
      <3>4. b \in Visited(g, b)  BY <3>3, InVisited
      <3> QED  BY <2>2, <3>4 DEF Depends
    <2> QED  BY <2>1, <2>2
  <1>9. CASE a \in selected
    <2>1. FileOf(a) = FileOf(id)  BY <1>9, SelectedStays DEF g
    <2>2. PICK m \in g.nodes : m.id = id  BY DEF Ids, g
    <2>3. NodeOf(g, id) = m /\ m.file = FileOf(id) /\ n.file = FileOf(a)
      BY <1>1, <1>4, <2>2, NodeOfId DEF Whole, Told
    <2> QED  BY <1>5, <2>1, <2>3 DEF g
  <1>10. CASE a \in impact.dependents
    <2>1. n.id \notin selected /\ Depends(g, n.id, id)  BY <1>4, <1>7, <1>8, <1>10
    <2> QED  BY <1>5, <2>1 DEF Tested, g
  <1>11. CASE a \in impact.db
    <2>1. PICK e \in g.edges : e.source \in affected /\ e.type \in {"READS_FROM", "WRITES_TO"} /\ e.target = a
      BY <1>6, <1>11 DEF DataOf
    <2>2. Depends(g, e.source, id)  BY <1>8, <2>1
    <2> QED  BY <1>4, <1>5, <2>1, <2>2 DEF Tested, g
  <1> QED  BY <1>2, <1>3, <1>9, <1>10, <1>11

LEMMA ReviewCovers ==
    ASSUME NEW v, Indexed(v), NEW S, NEW payload, payload.files \in Seq(S),
           AnalyzePullRequest(v.graph, payload).review.status = "REVIEW",
           Len(AnalyzePullRequest(v.graph, payload).report.changed) <= MaxShown
    PROVE  \A id \in ToSet(AnalyzePullRequest(v.graph, payload).report.changed) :
                NodeOf(v.graph, id).file \in TestPaths \/ Tested(v.graph, id)
  <1> DEFINE g == v.graph
             changed == ChangedIds(g, payload.files)
             impacts == Impacts(g, changed)
             report == Report(g, payload, changed, impacts)
             review == Review(g, report)
  <1>1. /\ AnalyzePullRequest(g, payload).report = report
        /\ AnalyzePullRequest(g, payload).review = review  BY DEF AnalyzePullRequest
  <1>2. /\ report.changed = changed /\ report.impacts = First(MaxShown, impacts)
        /\ report.truncated <=> payload.truncated \/ Len(changed) > MaxChanged  BY DEF Report
  <1>3. review.status = "REVIEW" => CoverageGaps(g, report.impacts) = {} /\ ~report.truncated
    <2> HIDE DEF report, g
    <2> QED  BY DEF Review
  <1>4. Whole(g)  BY VersionWhole
  <1>5. changed \in Seq(Ids(g))  BY <1>4, ChangedAre DEF Whole
  <1> HIDE DEF changed, g, report, review
  <1>6. Len(changed) \in Nat /\ MaxChanged \in Nat /\ MaxShown \in Nat  BY <1>5, PullRequestBounds
  <1>7. CoverageGaps(g, report.impacts) = {} /\ Len(changed) <= MaxChanged /\ Len(changed) <= MaxShown
    BY <1>1, <1>2, <1>3, <1>6 DEF g
  <1>8. First(MaxChanged, changed) = changed  BY <1>5, <1>6, <1>7, InFirst
  <1>9. /\ impacts \in Seq(Items(g)) /\ Len(impacts) = Len(changed)
        /\ \A x : x \in ToSet(impacts) <=> \E id \in ToSet(changed) : x = ItemOf(g, id)
    BY <1>5, <1>8, ImpactsAre
  <1> HIDE DEF impacts
  <1>10. report.impacts = impacts  BY <1>2, <1>6, <1>7, <1>9, InFirst
  <1>11. ASSUME NEW id \in ToSet(changed) PROVE NodeOf(g, id).file \in TestPaths \/ Tested(g, id)
    <2> DEFINE item == ItemOf(g, id)
    <2>1. item \in ToSet(impacts) /\ id \in Ids(g)  BY <1>5, <1>9, InList
    <2>2. item.node = id /\ item.tests = RelatedTests(g, Impact(g, id))  BY DEF ItemOf
    <2> HIDE DEF item
    <2>3. NodeOf(g, item.node).file \in TestPaths \/ item.tests # {}
      BY <1>7, <1>10, <2>1 DEF CoverageGaps
    <2> QED  BY <2>1, <2>2, <2>3, TestsConnected DEF g
  <1> QED  BY <1>1, <1>2, <1>11 DEF g

(* The files of a pull request that are read: all or it says so.           *)
LEMMA FilesRead ==
    ASSUME NEW x, NEW y
    PROVE  LET payload == FetchPullRequest(PullFiles(x, y))
           IN  /\ \E S : payload.files \in Seq(S)
               /\ payload.truncated \/ payload.files = PullFiles(x, y)
  <1> DEFINE list == PullFiles(x, y)
             payload == FetchPullRequest(list)
  <1>1. PICK S : list \in Seq(S)  BY PullKnown
  <1>2. payload.files = First(MaxFiles, list) /\ (payload.truncated <=> Len(list) > MaxFiles)
    BY DEF FetchPullRequest
  <1> HIDE DEF list
  <1>3. /\ First(MaxFiles, list) \in Seq(S)
        /\ Len(list) <= MaxFiles => First(MaxFiles, list) = list
        /\ MaxFiles \in Nat /\ Len(list) \in Nat
    <2>1. MaxFiles \in Nat  BY PullRequestBounds
    <2>2. Len(list) \in Nat  BY <1>1, InList
    <2> QED  BY <1>1, <2>1, <2>2, InFirst
  <1>4. payload.truncated \/ payload.files = list  BY <1>2, <1>3
  <1>5. \E T : payload.files \in Seq(T)  BY <1>2, <1>3
  <1> QED  BY <1>4, <1>5 DEF list

(* Every symbol whose code changed is mapped, or its file is reported.     *)
LEMMA LostIsMapped ==
    ASSUME NEW u, NEW v, Indexed(u), Indexed(v), NEW x, NEW y,
           (x = u.sources /\ y = v.sources) \/ (x = v.sources /\ y = u.sources),
           NEW payload, payload = FetchPullRequest(PullFiles(x, y)), ~payload.truncated,
           NEW n \in u.graph.nodes, n.type \in SymbolTypes,
           Lost(n, v.graph)
    PROVE  \/ n.id \in ToSet(ChangedIds(u.graph, payload.files))
           \/ n.file \in {payload.files[i].previous : i \in
                {j \in DOMAIN payload.files : payload.files[j].filename \in Unmatched(u.graph, payload.files)}}
  <1> DEFINE g == u.graph
             files == payload.files
  <1>1. files = PullFiles(x, y) /\ \E S : files \in Seq(S)  BY FilesRead
  <1>2. PICK S : files \in Seq(S)  BY <1>1
  <1>3. PICK i \in 1..Len(PullFiles(x, y)) :
            \/ n.id \in Touched(g, PullFiles(x, y)[i])
            \/ PullFiles(x, y)[i].previous = n.file /\ Touched(g, PullFiles(x, y)[i]) = {}
    <2>1. TouchedBy(n, u.graph, PullFiles(x, y))  BY LostIsTouched
    <2> QED  BY <2>1 DEF TouchedBy
  <1>4. Graph(g)  BY VersionGraph
  <1> HIDE DEF g, files
  <1>5. i \in 1..Len(files) /\ i \in DOMAIN files  BY <1>1, <1>2, <1>3
  <1>6. CASE n.id \in Touched(g, files[i])
    <2>1. n.id \in ToSet(ChangedIds(g, files))  BY <1>2, <1>4, <1>5, <1>6, ChangedAre
    <2> QED  BY <2>1 DEF g, files
  <1>7. CASE files[i].previous = n.file /\ Touched(g, files[i]) = {}
    <2>1. files[i].filename \in Unmatched(g, files)  BY <1>5, <1>7 DEF Unmatched
    <2> QED  BY <1>5, <1>7, <2>1 DEF g, files
  <1> QED  BY <1>1, <1>3, <1>6, <1>7

(* No change escapes the analysis of a pull request and its review.        *)
THEOREM PatchFindsChangesHolds == Spec => []PatchFindsChanges
  <1>1. ASSUME Versions PROVE PatchFindsChanges
    <2> DEFINE kept(n, g) == \E m \in g.nodes : m.file = n.file /\ m.text = n.text
               affected(g, other) == {n \in g.nodes : n.type \in SymbolTypes /\ ~kept(n, other)}
               reported(payload, g) == {payload.files[i].previous : i \in
                    {j \in DOMAIN payload.files : payload.files[j].filename \in Unmatched(g, payload.files)}}
               mapped(payload, g, other) == payload.truncated \/ \A n \in affected(g, other) :
                    n.id \in ToSet(ChangedIds(g, payload.files)) \/ n.file \in reported(payload, g)
               depends(g, a, id) == Selected(g, id) \intersect Visited(g, a) # {}
               tested(g, id) == \E n \in g.nodes :
                    /\ n.file \in TestPaths
                    /\ \/ n.id \notin Selected(g, id) /\ depends(g, n.id, id)
                       \/ \E e \in g.edges :
                            e.target = n.id /\ e.type \in {"READS_FROM", "WRITES_TO"} /\ depends(g, e.source, id)
               reviewed(analysis, g) ==
                    analysis.review.status = "REVIEW" /\ Len(analysis.report.changed) <= MaxShown =>
                        \A id \in ToSet(analysis.report.changed) : NodeOf(g, id).file \in TestPaths \/ tested(g, id)
               found(payload, g, other) == mapped(payload, g, other) /\ reviewed(AnalyzePullRequest(g, payload), g)
    <2>1. Indexed(base) /\ Indexed(head)  BY <1>1 DEF Versions
    <2>2. PullRequest = FetchPullRequest(PullFiles(base.sources, head.sources))  BY DEF PullRequest
    <2>3. \A g, id : tested(g, id) <=> Tested(g, id)  BY DEF Tested, Depends
    <2>4. ASSUME NEW u, NEW v, Indexed(u), Indexed(v),
                 (base = u /\ head = v) \/ (base = v /\ head = u)
          PROVE  found(PullRequest, u.graph, v.graph)
      <3> DEFINE payload == PullRequest
      <3>1. payload = FetchPullRequest(PullFiles(base.sources, head.sources))  BY <2>2
      <3>2. PICK S : payload.files \in Seq(S)  BY <3>1, FilesRead
      <3> HIDE DEF payload
      <3>3. mapped(payload, u.graph, v.graph)
        <4> SUFFICES ASSUME ~payload.truncated, NEW n \in u.graph.nodes, n.type \in SymbolTypes, Lost(n, v.graph)
                     PROVE  n.id \in ToSet(ChangedIds(u.graph, payload.files)) \/ n.file \in reported(payload, u.graph)
          BY DEF Lost
        <4> DEFINE x == base.sources
                   y == head.sources
        <4>1. (x = u.sources /\ y = v.sources) \/ (x = v.sources /\ y = u.sources)  BY <2>4
        <4>2. payload = FetchPullRequest(PullFiles(x, y))  BY <3>1
        <4> HIDE DEF x, y
        <4> QED  BY <2>4, <4>1, <4>2, LostIsMapped
      <3>4. reviewed(AnalyzePullRequest(u.graph, payload), u.graph)
        <4> HIDE DEF tested
        <4> SUFFICES ASSUME AnalyzePullRequest(u.graph, payload).review.status = "REVIEW",
                            Len(AnalyzePullRequest(u.graph, payload).report.changed) <= MaxShown,
                            NEW id \in ToSet(AnalyzePullRequest(u.graph, payload).report.changed)
                     PROVE  NodeOf(u.graph, id).file \in TestPaths \/ Tested(u.graph, id)  BY <2>3
        <4> QED  BY <2>4, <3>2, ReviewCovers
      <3> HIDE DEF mapped, reviewed
      <3> QED  BY <3>3, <3>4 DEF payload
    <2> HIDE DEF found
    <2>5. found(PullRequest, base.graph, head.graph) /\ found(PullRequest, head.graph, base.graph)
      BY <2>1, <2>4
    <2> QED  BY <2>5 DEF PatchFindsChanges, found
  <1> QED  BY <1>1, VersionsHold, PTL
=============================================================================
