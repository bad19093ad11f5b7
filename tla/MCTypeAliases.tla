---------------------------- MODULE MCTypeAliases ----------------------------
(***************************************************************************)
(* Programs for the lint rules, and what their types are when every alias  *)
(* is written out first: a reference that knows nothing of maps of         *)
(* substitutions, and in which a name means its nearest binder.            *)
(***************************************************************************)
EXTENDS DictionaryTypes

Simple(name) == Reference(name, <<>>, <<>>)
Applied(name, args) == Reference(name, args, <<>>)
String == Keyword("string")
Unknown == Keyword("unknown")

\* The type as it stands at a place in a program: every reference knows its ancestors.
RECURSIVE Placed(_, _)
Placed(type, path) ==
    LET each(types) == [i \in DOMAIN types |-> Placed(types[i], path)]
    IN  CASE type.kind \in {"parenthesized", "readonly"} -> [type EXCEPT !.type = Placed(@, path)]
          [] type.kind \in {"union", "intersection"} -> [type EXCEPT !.types = each(@)]
          [] type.kind = "literal" ->
                 [type EXCEPT !.members = [i \in DOMAIN @ |->
                    [@[i] EXCEPT !.type = Placed(@, path)]]]
          [] type.kind = "mapped" ->
                 [type EXCEPT
                    !.type = Placed(@, <<MappedOver(type.key, "typeAnnotation")>> \o path),
                    !.constraint = Placed(@, <<MappedOver(type.key, "constraint")>> \o path)]
          [] IsReference(type) -> [type EXCEPT !.args = each(@), !.path = path]
          [] OTHER -> type

AliasDeclaration(name, params, type, scopes) ==
    LET path == <<Generic({params[i].name : i \in DOMAIN params})>> \o scopes
    IN  Declaration(name, scopes,
                    [params |-> [i \in DOMAIN params |->
                                   [params[i] EXCEPT !.default = Placed(@, path)]],
                     type |-> Placed(type, path)])

-----------------------------------------------------------------------------
(* Programs: an alias A of one or two parameters that may use another      *)
(* alias, B, which the block of the use may declare again.                 *)

First == Simple("First")
Second == Simple("Second")
Inner == Simple("Inner")

ParametersOfA ==
    {<<>>, <<Parameter("First", NoType)>>,
     <<Parameter("First", NoType), Parameter("Second", Unknown)>>,
     <<Parameter("First", String), Parameter("Second", First)>>}

TypesOfA ==
    {Unknown, First, Union(<<String, First>>), Parenthesized(Simple("B")),
     Applied("B", <<Second>>),
     Applied("Promise", <<Second>>), Applied("Record", <<String, First>>),
     Applied("Readonly", <<Second>>), Intersection(<<Keyword("object"), First>>),
     TypeLiteral(<<Member(TRUE, Keyword("never"))>>),
     TypeLiteral(<<IndexSignature(ReadonlyOperator(Second))>>),
     Mapped("k", First, Simple("B")), Mapped("B", Simple("PropertyKey"), Simple("B"))}

AliasesB ==
    {AliasDeclaration("B", <<Parameter("Inner", default)>>, Parenthesized(Inner), <<Program>>) :
        default \in {NoType, Unknown}}
    \cup {AliasDeclaration("B", <<>>, type, <<Program>>) :
             type \in {Keyword("object"), Applied("Promise", <<Simple("B")>>),
                       Applied("Partial", <<Simple("I")>>)}}
    \cup {AliasDeclaration("Readonly", <<Parameter("Inner", NoType)>>, String, <<Program>>)}

Shadows ==
    {{}, {AliasDeclaration("B", <<>>, Unknown, <<Block, Program>>)},
     {Declaration("B", <<Block, Program>>, NoAlias)}}

Uses ==
    {Simple("A"), Applied("A", <<Unknown>>), Applied("A", <<Simple("B")>>),
     Applied("A", <<String, Keyword("object")>>), Applied("B", <<Applied("A", <<Unknown>>)>>),
     Applied("Promise", <<Applied("A", <<String, Unknown>>)>>),
     Applied("Record", <<Simple("B"), Applied("A", <<Keyword("any")>>)>>),
     Applied("Omit", <<Applied("Required", <<Applied("A", <<Simple("B")>>)>>), String>>),
     TypeLiteral(<<IndexSignature(String), IndexSignature(Applied("A", <<Simple("I")>>))>>)}

\* The use is in a block, in a function that may have a type parameter B, or in a
\* conditional type that may infer one.
Places ==
    {<<Generic(names), Block, Program>> : names \in {{}, {"B"}}}
        \cup {<<Conditional({"B"}, via), Block, Program>> : via \in {"trueType", "falseType"}}

Interfaces == "I" :> Interface(1, FALSE, <<Member(TRUE, Keyword("never"))>>)

-----------------------------------------------------------------------------
(* Aliases written out.                                                    *)

\* The place, from the inside out, where a name of a program is bound.
BinderOf(name, path, declarations) ==
    SelectInSeq(path, LAMBDA node :
        \/ name \in lexicalTypeParameterNames(<<node>>)
        \/ \E d \in declarations : d.name = name /\ Head(d.path) = node)

Opaque == Keyword("opaque")
MaxUnfold == 4      \* bound: a recursive alias is cut here

\* What a reference names, if that is a declaration of the program.
Declared(type, declarations) ==
    LET binder == BinderOf(type.name, type.path, declarations)
    IN  {d \in declarations :
            d.name = type.name /\ binder > 0 /\ Head(d.path) = type.path[binder]}

\* `bound` has the arguments of the alias that the type is the body of, written out.
RECURSIVE WrittenOut(_, _, _, _)
WrittenOut(type, bound, declarations, depth) ==
    LET out(t) == WrittenOut(t, bound, declarations, depth)
        each(types) == [i \in DOMAIN types |-> out(types[i])]
        alias == (CHOOSE d \in Declared(type, declarations) : TRUE).alias
        args == each(type.args)
        parameters[n \in 0..Len(alias.params)] ==
            IF n = 0 THEN NoSubstitutions
            ELSE (alias.params[n].name :>
                    IF n <= Len(args) THEN args[n]
                    ELSE WrittenOut(alias.params[n].default, parameters[n - 1],
                                    declarations, depth)) @@ parameters[n - 1]
    IN  CASE type.kind \in {"parenthesized", "readonly"} -> out(type.type)
          [] type.kind \in {"union", "intersection"} -> [type EXCEPT !.types = each(@)]
          [] type.kind = "literal" ->
                 [type EXCEPT !.members = [i \in DOMAIN @ |-> [@[i] EXCEPT !.type = out(@)]]]
          [] type.kind = "mapped" -> [type EXCEPT !.type = out(@), !.constraint = out(@)]
          [] ~IsReference(type) -> type
          [] BinderOf(type.name, type.path, declarations) = 0 ->
                 [kind |-> "builtIn", name |-> type.name, args |-> args]
          [] Declared(type, declarations) = {} ->
                 IF type.name \in DOMAIN bound THEN bound[type.name] ELSE Opaque
          [] OTHER ->
                 IF alias = NoAlias \/ depth = 0 \/ ~Applies(alias, type.args) THEN Opaque
                 ELSE WrittenOut(alias.type, parameters[Len(alias.params)], declarations,
                                 depth - 1)

Spelled(program) == WrittenOut(program.use, NoSubstitutions, program.declarations, MaxUnfold)

\* The names that a type mentions, directly or through the aliases it uses.
RECURSIVE Mentions(_, _, _)
Mentions(type, declarations, depth) ==
    LET all(types) ==
            UNION {Mentions(types[i], declarations, depth) : i \in DOMAIN types}
    IN  CASE type.kind \in {"parenthesized", "readonly"} -> all(<<type.type>>)
          [] type.kind \in {"union", "intersection"} -> all(type.types)
          [] type.kind = "literal" -> all([i \in DOMAIN type.members |-> type.members[i].type])
          [] type.kind = "mapped" -> all(<<type.type, type.constraint>>)
          [] IsReference(type) ->
                 {type.name} \cup all(type.args)
                    \cup IF depth = 0 THEN {}
                         ELSE UNION {Mentions(d.alias.type, declarations, depth - 1) :
                                        d \in {x \in declarations : x.name = type.name}}
          [] OTHER -> {}

\* An alias that an argument uses is not one that the applied alias uses, too: the rules
\* open each alias once on a way, and leave the second one closed.
RECURSIVE OpensEachOnce(_, _)
OpensEachOnce(type, declarations) ==
    IsReference(type) =>
        \A i \in DOMAIN type.args :
            /\ OpensEachOnce(type.args[i], declarations)
            /\ {d.name : d \in declarations}
                  \cap Mentions(type.args[i], declarations, MaxUnfold)
                  \cap Mentions([type EXCEPT !.args = <<>>], declarations, MaxUnfold) = {}

Programs ==
    {[declarations |-> {AliasDeclaration("A", params, type, <<Program>>), other} \cup shadow,
      use |-> Placed(use, place)] :
        params \in ParametersOfA, type \in TypesOfA, other \in AliasesB, shadow \in Shadows,
        use \in Uses, place \in Places}

-----------------------------------------------------------------------------
(* Types that are written out.                                             *)

IsBuiltIn(type, names) == type.kind = "builtIn" /\ type.name \in names

RECURSIVE Shows(_, _)
Shows(kind, type) ==
    \/ type.kind = kind
    \/ type.kind = "union" /\ \E i \in DOMAIN type.types : Shows(kind, type.types[i])

RECURSIVE ReturnsUnknown(_)
ReturnsUnknown(type) ==
    \/ type.kind = "unknown"
    \/ type.kind = "union" /\ \E i \in DOMAIN type.types : ReturnsUnknown(type.types[i])
    \/ IsBuiltIn(type, {"Promise"}) /\ ReturnsUnknown(type.args[1])

IsEmpty(type) ==
    \/ type.kind = "literal" /\ \A i \in DOMAIN type.members :
           type.members[i].optional /\ type.members[i].type.kind = "never"
    \/ IsBuiltIn(type, {"I"})

RECURSIVE UnsafeKind(_)
UnsafeKind(type) ==
    LET kinds == [i \in DOMAIN type.types |-> UnsafeKind(type.types[i])]
    IN  IF type.kind \in {"unknown", "any", "object"} THEN type.kind
        ELSE IF IsEmpty(type) THEN "empty-object"
        ELSE IF IsBuiltIn(type, TRANSPARENT_WRAPPERS) /\ type.args # <<>>
        THEN UnsafeKind(type.args[1])
        ELSE IF type.kind = "union" /\ Range(kinds) # {None} THEN "union"
        ELSE IF type.kind = "intersection" /\ "any" \in Range(kinds) THEN "any"
        ELSE IF type.kind = "intersection" /\ None \notin Range(kinds) THEN kinds[1]
        ELSE None

RECURSIVE ValueTypes(_)
ValueTypes(type) ==
    IF type.kind = "literal"
    THEN LET signatures == SelectSeq(type.members, LAMBDA m : m.index)
         IN  [i \in DOMAIN signatures |-> signatures[i].type]
    ELSE IF type.kind = "mapped" THEN <<type.type>>
    ELSE IF IsBuiltIn(type, TRANSPARENT_WRAPPERS \cup {"Pick", "Omit"}) /\ type.args # <<>>
    THEN ValueTypes(type.args[1])
    ELSE IF IsBuiltIn(type, {"Record"}) THEN <<type.args[2]>> ELSE <<>>

DictionaryKind(type) ==
    LET kinds == SelectSeq([i \in DOMAIN ValueTypes(type) |-> UnsafeKind(ValueTypes(type)[i])],
                           LAMBDA kind : kind # None)
    IN  IF kinds = <<>> THEN None ELSE Head(kinds)

RECURSIVE IsBroadKey(_)
IsBroadKey(type) ==
    \/ type.kind \in {"string", "number", "symbol"} \/ IsBuiltIn(type, {"PropertyKey"})
    \/ type.kind = "union" /\ \E i \in DOMAIN type.types : IsBroadKey(type.types[i])

RECURSIVE Breadth(_)
Breadth(type) ==
    IF type.kind \in {"unknown", "object"} THEN type.kind
    ELSE IF IsBuiltIn(type, TRANSPARENT_WRAPPERS) /\ type.args # <<>>
    THEN Breadth(type.args[1])
    ELSE DictionaryIf(\/ type.kind = "literal" /\ HasIndex(type.members)
                      \/ type.kind = "mapped" /\ IsBroadKey(type.constraint)
                      \/ IsBuiltIn(type, {"Record"}) /\ IsBroadKey(type.args[1]))

-----------------------------------------------------------------------------
(* The rules, one type of one program at a time.                           *)

VARIABLES judged, program, verdict

vars == <<judged, program, verdict>>

Init == judged = FALSE /\ program = <<>> /\ verdict = <<>>

LintType ==
    /\ ~judged /\ judged' = TRUE
    /\ program' \in Programs
    /\ OpensEachOnce(program'.use, program'.declarations)
    /\ LET bindings == createTypeAliasEnvironment(program'.declarations)
           environment == TypeEnvironment(Interfaces, program'.declarations)
           use == program'.use
       IN  verdict' = [matched |-> {rule \in Rules : resolvedTypeMatches(rule, use, bindings)},
                       value |-> classifyUnsafeDictionaryValue(use, environment),
                       dictionary |-> classifyUnsafeDictionary(use, environment),
                       target |-> classifyWideningTarget(use, environment)]

Next == LintType

Spec == Init /\ [][Next]_vars

\* The widening target of a type that is written out: an alias is as broad as what it
\* stands for, and one with parameters counts as a container.
TargetOf(use, spelled, declarations) ==
    IF IsReference(use) /\ \E d \in Declared(use, declarations) : d.alias.params # <<>>
    THEN IF Breadth(spelled) = "open dictionary" THEN "generic container" ELSE None
    ELSE Breadth(spelled)

\* A rule judges a type by what its aliases stand for: its verdict is the one on the
\* type with every alias written out, whatever the parameters, the defaults, the
\* declarations in an inner scope and the binders on the way.
RulesSeeThroughAliases ==
    judged =>
        LET spelled == Spelled(program)
        IN  /\ verdict.matched =
                   {rule \in Rules :
                      CASE rule = noUnknownReturns -> ReturnsUnknown(spelled)
                        [] rule = noObjectParameters -> Shows("object", spelled)
                        [] rule = noUnknownTypeAliases -> Shows("unknown", spelled)}
            /\ verdict.value = UnsafeKind(spelled)
            /\ verdict.dictionary = DictionaryKind(spelled)
            /\ verdict.target = TargetOf(program.use, spelled, program.declarations)

=============================================================================
