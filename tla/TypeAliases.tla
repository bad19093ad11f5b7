----------------------------- MODULE TypeAliases -----------------------------
(***************************************************************************)
(* How the lint rules of the repository see through type aliases:          *)
(* src/tools/oxlint/anti-slop/shared/type-alias-resolution.ts and          *)
(* lexical-type-parameters.ts, with the matchers of the rules that use     *)
(* them.                                                                   *)
(*                                                                         *)
(* A type is a tree of records with a kind.  A node of the syntax tree has *)
(* a parent; what the code reads of it is the way up, so a reference and a *)
(* declaration carry that way as a sequence of ancestors, nearest first.   *)
(***************************************************************************)
EXTENDS Integers, Sequences, FiniteSets, SequencesExt

Keyword(kind) == [kind |-> kind]
Wrapped(kind, type) == [kind |-> kind, type |-> type]
Parenthesized(type) == Wrapped("parenthesized", type)
ReadonlyOperator(type) == Wrapped("readonly", type)
Union(types) == [kind |-> "union", types |-> types]
Intersection(types) == [kind |-> "intersection", types |-> types]
TypeLiteral(members) == [kind |-> "literal", members |-> members]
Mapped(key, constraint, type) ==
    [kind |-> "mapped", key |-> key, constraint |-> constraint, type |-> type]
Reference(name, args, path) ==
    [kind |-> "reference", name |-> name, args |-> args, path |-> path]

NoType == Keyword("none")
IsReference(type) == type.kind = "reference"

\* Ancestors that matter: scopes, and whatever binds type names of its own.
Program == [ancestor |-> "Program"]
Block == [ancestor |-> "BlockStatement"]
Generic(names) == [ancestor |-> "typeParameters", names |-> names]
MappedOver(key, via) == [ancestor |-> "TSMappedType", key |-> key, via |-> via]
Conditional(infers, via) == [ancestor |-> "TSConditionalType", infers |-> infers, via |-> via]

\* A declaration: an alias with its parameters and its type, or another type.
Parameter(name, default) == [name |-> name, default |-> default]
NoAlias == [params |-> <<>>, type |-> NoType]
Declaration(name, path, alias) == [name |-> name, path |-> path, alias |-> alias]

-----------------------------------------------------------------------------
(* Names.                                                                  *)

\* The type binders in scope at a node that can shadow an alias.
lexicalTypeParameterNames(path) ==
    UNION {LET node == path[i] IN
             CASE node.ancestor = "typeParameters" -> node.names
               [] node.ancestor = "TSMappedType" ->
                      IF node.via \in {"nameType", "typeAnnotation"} THEN {node.key} ELSE {}
               [] node.ancestor = "TSConditionalType" ->
                      IF node.via = "trueType" THEN node.infers ELSE {}
               [] OTHER -> {} : i \in DOMAIN path}

enclosingTypeScope(path) == SelectInSeq(path, LAMBDA node : node \in {Program, Block})

\* The bindings of a program; each has the scope that its declaration is in.
createTypeAliasEnvironment(declarations) ==
    {[name |-> d.name, scope |-> d.path[enclosingTypeScope(d.path)], alias |-> d.alias] :
        d \in declarations}

\* How far up a scope is, or 0 when the node is outside of it.
ancestorDistance(scope, path) == SelectInSeq(path, LAMBDA node : node = scope)

InScope(name, path, environment) ==
    {b \in environment : b.name = name /\ ancestorDistance(b.scope, path) > 0}

\* Mutant: the outermost declaration of a name wins.
nearestTypeBindings_Outermost(name, path, environment) ==
    {b \in InScope(name, path, environment) :
        \A other \in InScope(name, path, environment) :
            ancestorDistance(b.scope, path) >= ancestorDistance(other.scope, path)}

nearestTypeBindings(name, path, environment) ==
    {b \in InScope(name, path, environment) :
        \A other \in InScope(name, path, environment) :
            ancestorDistance(b.scope, path) <= ancestorDistance(other.scope, path)}

\* The binding of the visible alias with this name: a set of one, or of none.
visibleTypeAlias(name, path, environment) ==
    LET nearest == nearestTypeBindings(name, path, environment)
    IN  IF name \in lexicalTypeParameterNames(path) \/ Cardinality(nearest) # 1
        THEN {} ELSE {b \in nearest : b.alias # NoAlias}

hasVisibleTypeBinding(name, path, environment) ==
    \/ name \in lexicalTypeParameterNames(path)
    \/ nearestTypeBindings(name, path, environment) # {}

-----------------------------------------------------------------------------
(* Substitution.                                                           *)

Closure(type, substitutions) == [type |-> type, substitutions |-> substitutions]

NoSubstitutions == [name \in {} |-> {}]

\* The argument of the i-th parameter: the explicit one, or the default.
ArgumentOf(alias, args, i) ==
    IF i \in DOMAIN args THEN args[i] ELSE alias.params[i].default

Applies(alias, args) == \A i \in DOMAIN alias.params : ArgumentOf(alias, args, i) # NoType

\* An explicit argument is read where the alias is used, a default where it is declared.
aliasSubstitutions(alias, args, base) ==
    LET next[n \in 0..Len(alias.params)] ==
            IF n = 0 THEN base
            ELSE LET scope == IF n \in DOMAIN args THEN base ELSE next[n - 1]
                     name == alias.params[n].name
                     closure == Closure(ArgumentOf(alias, args, n), scope)
                 IN  [x \in DOMAIN next[n - 1] \cup {name} |->
                        IF x = name THEN closure ELSE next[n - 1][x]]
    IN  next[Len(alias.params)]

-----------------------------------------------------------------------------
(* Rules: the kind of type that each of them looks for, and the references *)
(* whose first argument it looks into.                                     *)

noUnknownReturns == [kind |-> "unknown", through |-> {"Promise", "PromiseLike"}]
noObjectParameters == [kind |-> "object", through |-> {}]
noUnknownTypeAliases == [kind |-> "unknown", through |-> {}]
Rules == {noUnknownReturns, noObjectParameters, noUnknownTypeAliases}

\* The types that a rule looks into when this is not the kind it looks for.
LooksInto(rule, type) ==
    CASE type.kind = "parenthesized" -> {type.type}
      [] type.kind = "union" -> ToSet(type.types)
      [] IsReference(type) ->
             IF type.name \in rule.through /\ type.args # <<>> THEN {type.args[1]} ELSE {}
      [] OTHER -> {}

RECURSIVE evaluate(_, _, _, _, _)
evaluate(rule, type, environment, substitutions, resolvingAliases) ==
    LET opened == IF ~IsReference(type) THEN {}
                  ELSE {b \in visibleTypeAlias(type.name, type.path, environment) :
                           b \notin resolvingAliases /\ Applies(b.alias, type.args)}
    IN  IF IsReference(type) /\ type.args = <<>> /\ type.name \in DOMAIN substitutions
        THEN LET closure == substitutions[type.name]
             IN  evaluate(rule, closure.type, environment, closure.substitutions,
                          resolvingAliases)
        ELSE IF opened = {}
        THEN \/ type.kind = rule.kind
             \/ \E child \in LooksInto(rule, type) :
                   evaluate(rule, child, environment, substitutions, resolvingAliases)
        ELSE LET b == CHOOSE x \in opened : TRUE
             IN  evaluate(rule, b.alias.type, environment,
                          aliasSubstitutions(b.alias, type.args, substitutions),
                          resolvingAliases \cup {b})

\* Match a type after resolving visible aliases and substituting their parameters.
resolvedTypeMatches(rule, type, environment) ==
    evaluate(rule, type, environment, NoSubstitutions, {})

=============================================================================
