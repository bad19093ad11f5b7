--------------------------- MODULE DictionaryTypes ---------------------------
(***************************************************************************)
(* Which types the lint rules of the repository take for an unsafe         *)
(* dictionary or for a target that widens a known value:                   *)
(* src/tools/oxlint/anti-slop/shared/dictionary-types.ts.                  *)
(*                                                                         *)
(* Unlike the rules in TypeAliases, these keep one flat map of             *)
(* substitutions and tell the aliases that they resolve apart by name.     *)
(***************************************************************************)
EXTENDS TypeAliases

BUILT_INS ==
    {"Record", "Readonly", "Partial", "Required", "Pick", "Omit", "PropertyKey", "NonNullable"}
TRANSPARENT_WRAPPERS == {"Readonly", "Partial", "Required", "NonNullable"}

None == "none"

Member(optional, type) == [index |-> FALSE, optional |-> optional, type |-> type]
IndexSignature(type) == [index |-> TRUE, optional |-> FALSE, type |-> type]

\* An interface of the program: how often it is declared, whether it extends others,
\* and the members of its body.
Interface(count, extends, members) ==
    [count |-> count, extends |-> extends, members |-> members]

\* An environment of these rules: the interfaces by name, and the type bindings.
TypeEnvironment(interfaces, declarations) ==
    [interfaces |-> interfaces, bindings |-> createTypeAliasEnvironment(declarations)]

isBuiltIn(type, environment) ==
    /\ type.name \in BUILT_INS
    /\ ~hasVisibleTypeBinding(type.name, type.path, environment.bindings)

IsTransparent(type, environment) ==
    type.name \in TRANSPARENT_WRAPPERS /\ isBuiltIn(type, environment)

RECURSIVE unwrapTransparentType(_)
unwrapTransparentType(type) ==
    IF type.kind \in {"parenthesized", "readonly"}
    THEN unwrapTransparentType(type.type) ELSE type

isUnappliedReferenceTo(type, name) ==
    LET unwrapped == unwrapTransparentType(type)
    IN  IsReference(unwrapped) /\ unwrapped.name = name /\ unwrapped.args = <<>>

isEffectivelyEmptyMember(member) ==
    /\ ~member.index /\ member.optional
    /\ unwrapTransparentType(member.type).kind = "never"

isEffectivelyEmpty(members) == \A i \in DOMAIN members : isEffectivelyEmptyMember(members[i])

isEffectivelyEmptyInterface(interface) ==
    interface.count = 1 /\ ~interface.extends /\ isEffectivelyEmpty(interface.members)

-----------------------------------------------------------------------------
(* Substitution.                                                           *)

RECURSIVE resolvedSubstitutionArgument(_, _, _)
resolvedSubstitutionArgument(type, base, resolving) ==
    LET unwrapped == unwrapTransparentType(type)
    IN  IF \/ ~IsReference(unwrapped)
           \/ unwrapped.name \in resolving
           \/ unwrapped.name \notin DOMAIN base
        THEN type
        ELSE resolvedSubstitutionArgument(base[unwrapped.name], base,
                                          resolving \cup {unwrapped.name})

aliasSubstitution(alias, args, base) ==
    LET next[n \in 0..Len(alias.params)] ==
            IF n = 0 THEN base
            ELSE LET name == alias.params[n].name
                     argument ==
                        resolvedSubstitutionArgument(ArgumentOf(alias, args, n), next[n - 1], {})
                 IN  [x \in DOMAIN next[n - 1] \cup {name} |->
                        IF x = name THEN argument ELSE next[n - 1][x]]
    IN  next[Len(alias.params)]

\* The alias that a reference opens, unless its name is being resolved already.
Opened(type, environment, resolvingAliases) ==
    {b \in visibleTypeAlias(type.name, type.path, environment.bindings) :
        type.name \notin resolvingAliases /\ Applies(b.alias, type.args)}

-----------------------------------------------------------------------------
(* Unsafe dictionaries.                                                    *)

RECURSIVE unsafeDirectValue(_, _, _, _)
unsafeDirectValue(type, environment, substitutions, resolvingAliases) ==
    LET unwrapped == unwrapTransparentType(type)
        unsafe(inner) == unsafeDirectValue(inner, environment, substitutions, resolvingAliases)
        name == unwrapped.name
        opened == Opened(unwrapped, environment, resolvingAliases)
        members == [i \in DOMAIN unwrapped.types |-> unsafe(unwrapped.types[i])]
    IN  CASE unwrapped.kind \in {"unknown", "any", "object"} -> unwrapped.kind
          [] unwrapped.kind = "literal" ->
                 IF isEffectivelyEmpty(unwrapped.members) THEN "empty-object" ELSE None
          [] unwrapped.kind = "union" ->
                 IF \E i \in DOMAIN members : members[i] # None THEN "union" ELSE None
          [] unwrapped.kind = "intersection" ->
                 IF \E i \in DOMAIN members : members[i] = "any" THEN "any"
                 ELSE IF members # <<>> /\ \A i \in DOMAIN members : members[i] # None
                 THEN members[1] ELSE None
          [] IsReference(unwrapped) ->
                 IF IsTransparent(unwrapped, environment)
                 THEN IF unwrapped.args = <<>> THEN None ELSE unsafe(unwrapped.args[1])
                 ELSE IF name \in DOMAIN substitutions
                 THEN IF isUnappliedReferenceTo(substitutions[name], name)
                      THEN None ELSE unsafe(substitutions[name])
                 ELSE IF name \in DOMAIN environment.interfaces
                 THEN IF isEffectivelyEmptyInterface(environment.interfaces[name])
                      THEN "empty-object" ELSE None
                 ELSE IF opened = {} THEN None
                 ELSE LET alias == (CHOOSE b \in opened : TRUE).alias
                      IN  unsafeDirectValue(alias.type, environment,
                              aliasSubstitution(alias, unwrapped.args, substitutions),
                              resolvingAliases \cup {name})
          [] OTHER -> None

\* The value types of a dictionary, with the substitutions they are to be read under.
RECURSIVE dictionaryValueTypes(_, _, _, _)
dictionaryValueTypes(type, environment, substitutions, resolvingAliases) ==
    LET unwrapped == unwrapTransparentType(type)
        name == unwrapped.name
        args == unwrapped.args
        values(inner) ==
            dictionaryValueTypes(inner, environment, substitutions, resolvingAliases)
        opened == Opened(unwrapped, environment, resolvingAliases)
    IN  CASE unwrapped.kind = "literal" ->
                 LET signatures == SelectSeq(unwrapped.members, LAMBDA m : m.index)
                 IN  [i \in DOMAIN signatures |-> Closure(signatures[i].type, substitutions)]
          [] unwrapped.kind = "mapped" ->
                 IF unwrapped.type = NoType THEN <<>>
                 ELSE <<Closure(unwrapped.type, substitutions)>>
          [] IsReference(unwrapped) ->
                 IF name \in DOMAIN substitutions
                 THEN IF isUnappliedReferenceTo(substitutions[name], name)
                      THEN <<>> ELSE values(substitutions[name])
                 ELSE IF \/ IsTransparent(unwrapped, environment)
                         \/ name \in {"Pick", "Omit"} /\ isBuiltIn(unwrapped, environment)
                 THEN IF args = <<>> THEN <<>> ELSE values(args[1])
                 ELSE IF name = "Record" /\ isBuiltIn(unwrapped, environment)
                 THEN IF Len(args) < 2 THEN <<>> ELSE <<Closure(args[2], substitutions)>>
                 ELSE IF opened = {} THEN <<>>
                 ELSE LET alias == (CHOOSE b \in opened : TRUE).alias
                      IN  dictionaryValueTypes(alias.type, environment,
                              aliasSubstitution(alias, args, substitutions),
                              resolvingAliases \cup {name})
          [] OTHER -> <<>>

classifyUnsafeDictionaryValue(type, environment) ==
    unsafeDirectValue(type, environment, NoSubstitutions, {})

\* The first of the value types that is unsafe decides.
classifyUnsafeDictionary(type, environment) ==
    LET values == dictionaryValueTypes(type, environment, NoSubstitutions, {})
        found == SelectSeq([i \in DOMAIN values |->
                              unsafeDirectValue(values[i].type, environment,
                                                values[i].substitutions, {})],
                           LAMBDA value : value # None)
    IN  IF found = <<>> THEN None ELSE found[1]

-----------------------------------------------------------------------------
(* Targets that widen.                                                     *)

RECURSIVE isBroadMappedKey(_, _, _, _)
isBroadMappedKey(type, environment, substitutions, visitedAliases) ==
    LET unwrapped == unwrapTransparentType(type)
        name == unwrapped.name
        broad(inner) == isBroadMappedKey(inner, environment, substitutions, visitedAliases)
        plain == {b \in Opened(unwrapped, environment, visitedAliases) : b.alias.params = <<>>}
    IN  \/ unwrapped.kind \in {"string", "number", "symbol"}
        \/ unwrapped.kind = "union" /\ \E i \in DOMAIN unwrapped.types : broad(unwrapped.types[i])
        \/ /\ IsReference(unwrapped)
           /\ IF /\ name \in DOMAIN substitutions
                 /\ ~isUnappliedReferenceTo(substitutions[name], name)
              THEN broad(substitutions[name])
              ELSE \/ name = "PropertyKey" /\ isBuiltIn(unwrapped, environment)
                   \/ \E b \in plain :
                         isBroadMappedKey(b.alias.type, environment, substitutions,
                                          visitedAliases \cup {name})

hasBroadRecordKey(type, environment, substitutions) ==
    type.args = <<>> \/ isBroadMappedKey(type.args[1], environment, substitutions, {})

DictionaryIf(broad) == IF broad THEN "open dictionary" ELSE None

HasIndex(members) == \E i \in DOMAIN members : members[i].index

RECURSIVE classifyAliasBroadTarget(_, _, _, _)
classifyAliasBroadTarget(type, environment, substitutions, resolvingAliases) ==
    LET unwrapped == unwrapTransparentType(type)
        name == unwrapped.name
        args == unwrapped.args
        target(inner) ==
            classifyAliasBroadTarget(inner, environment, substitutions, resolvingAliases)
        opened == Opened(unwrapped, environment, resolvingAliases)
    IN  CASE unwrapped.kind \in {"unknown", "object"} -> unwrapped.kind
          [] unwrapped.kind = "literal" -> DictionaryIf(HasIndex(unwrapped.members))
          [] unwrapped.kind = "mapped" ->
                 DictionaryIf(isBroadMappedKey(unwrapped.constraint, environment,
                                               substitutions, {}))
          [] IsReference(unwrapped) ->
                 IF name \in DOMAIN substitutions
                 THEN IF isUnappliedReferenceTo(substitutions[name], name)
                      THEN None ELSE target(substitutions[name])
                 ELSE IF IsTransparent(unwrapped, environment)
                 THEN IF args = <<>> THEN None ELSE target(args[1])
                 ELSE IF name = "Record" /\ isBuiltIn(unwrapped, environment)
                 THEN DictionaryIf(hasBroadRecordKey(unwrapped, environment, substitutions))
                 ELSE IF opened = {} THEN None
                 ELSE LET alias == (CHOOSE b \in opened : TRUE).alias
                      IN  classifyAliasBroadTarget(alias.type, environment,
                              aliasSubstitution(alias, args, substitutions),
                              resolvingAliases \cup {name})
          [] OTHER -> None

RECURSIVE classifyWideningTarget(_, _)
classifyWideningTarget(type, environment) ==
    LET unwrapped == unwrapTransparentType(type)
        args == unwrapped.args
        opened == Opened(unwrapped, environment, {})
    IN  CASE unwrapped.kind \in {"unknown", "object"} -> unwrapped.kind
          [] unwrapped.kind = "literal" ->
                 IF HasIndex(unwrapped.members) THEN "open dictionary"
                 ELSE IF unwrapped.members # <<>> THEN "anonymous object" ELSE None
          [] unwrapped.kind = "mapped" -> "open dictionary"
          [] IsReference(unwrapped) ->
                 IF IsTransparent(unwrapped, environment)
                 THEN IF args = <<>> THEN None ELSE classifyWideningTarget(args[1], environment)
                 ELSE IF unwrapped.name = "Record" /\ isBuiltIn(unwrapped, environment)
                 THEN DictionaryIf(hasBroadRecordKey(unwrapped, environment, NoSubstitutions))
                 ELSE IF opened = {} THEN None
                 ELSE LET alias == (CHOOSE b \in opened : TRUE).alias
                          resolved == classifyAliasBroadTarget(alias.type, environment,
                                          aliasSubstitution(alias, args, NoSubstitutions),
                                          {unwrapped.name})
                      IN  IF alias.params = <<>> THEN resolved
                          ELSE IF resolved = "open dictionary" THEN "generic container"
                          ELSE None
          [] OTHER -> None

=============================================================================
