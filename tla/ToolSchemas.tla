----------------------------- MODULE ToolSchemas -----------------------------
(***************************************************************************)
(* What a tool's JSON Schema becomes for a model that only takes strict    *)
(* schemas, and what becomes of the arguments that the model sends under   *)
(* it before the tool runs (tools/registry.ts: compileStrictSchema and     *)
(* executionValue).  Names, descriptions, formats and $ref are left out;   *)
(* oneOf and allOf, which are offered as anyOf, too.                       *)
(***************************************************************************)
EXTENDS Naturals, FiniteSets

CONSTANTS
  Types,    \* JSON types that a leaf of a schema may have
  Depth     \* bound on the nesting of schemas

ASSUME SchemasAssumption == Depth \in Nat /\ Types \subseteq {"string", "number", "boolean"}

VARIABLE toolCall  \* a tool, what the model is offered for it, sends, and what the tool gets

schemasVars == <<toolCall>>

\* Maps with string keys: of properties, items (a tuple has two) and branches.
NoMap == [k \in {} |-> 0]
At(k, x) == [j \in {k} |-> x]

(* A schema: `type` and `enum` (the types of its values) are {} if absent; *)
(* `hint` is the type of a keyword such as pattern, minimum or minItems.   *)
AnySchema ==
  [type |-> {}, enum |-> {}, hint |-> "none", nullable |-> FALSE, hasProps |-> FALSE,
   props |-> NoMap, required |-> {}, closed |-> FALSE, items |-> NoMap, anyOf |-> NoMap]

Value(t, kids) == [t |-> t, kids |-> kids]
Null == Value("null", NoMap)

-----------------------------------------------------------------------------
(* JSON Schema itself: whether a value satisfies a schema.                 *)
RECURSIVE Satisfies(_, _)
Satisfies(v, s) ==
  \/ s.nullable /\ v = Null
  \/ /\ s.type # {} => v.t \in s.type
     /\ s.enum # {} => v.t \in s.enum
     /\ s.anyOf # NoMap => \E b \in DOMAIN s.anyOf : Satisfies(v, s.anyOf[b])
     /\ v.t = "object" =>
          /\ s.required \subseteq DOMAIN v.kids
          /\ s.closed => DOMAIN v.kids \subseteq DOMAIN s.props
          /\ \A p \in DOMAIN v.kids \cap DOMAIN s.props : Satisfies(v.kids[p], s.props[p])
     /\ v.t = "array" /\ s.items # NoMap =>
          \A i \in DOMAIN v.kids :
            IF DOMAIN s.items = {"0"} THEN Satisfies(v.kids[i], s.items["0"])
            ELSE i \in DOMAIN s.items => Satisfies(v.kids[i], s.items[i])

\* The values of a strict schema, with arrays of at most one element.
RECURSIVE Admitted(_)
Admitted(s) ==
  LET arrays == IF s.items = NoMap THEN {NoMap}
                ELSE {NoMap} \cup {At("0", x) : x \in Admitted(s.items["0"])}
      objects == {f \in [DOMAIN s.props -> UNION {Admitted(s.props[p]) : p \in DOMAIN s.props}] :
                    \A p \in DOMAIN s.props : f[p] \in Admitted(s.props[p])}
      ofType(t) == {Value(t, k) : k \in CASE t = "array" -> arrays
                                          [] t = "object" -> objects
                                          [] OTHER -> {NoMap}}
      all == IF s.type # {} THEN UNION {ofType(t) : t \in s.type}
             ELSE UNION {Admitted(s.anyOf[b]) : b \in DOMAIN s.anyOf}
  IN {v \in all : Satisfies(v, s)}

-----------------------------------------------------------------------------
(* compileStrictSchema().                                                  *)
RECURSIVE PermitsNull(_)
PermitsNull(s) ==
  "null" \in s.type \/ "null" \in s.enum \/ \E b \in DOMAIN s.anyOf : PermitsNull(s.anyOf[b])

MakeNullable(s) ==
  IF PermitsNull(s) THEN s
  ELSE IF s.type # {}
    THEN [s EXCEPT !.type = @ \cup {"null"}, !.enum = IF @ = {} THEN {} ELSE @ \cup {"null"}]
    ELSE [AnySchema EXCEPT !.anyOf = [b \in {"0", "1"} |->
            IF b = "0" THEN s ELSE [AnySchema EXCEPT !.type = {"null"}]]]

\* OpenAI strict schemas have no "any" type.
UnconstrainedJsonValue == [AnySchema EXCEPT !.type = {"boolean", "null", "number", "string"}]

\* One schema for all items: a tuple's become the branches of one.
NormalizeArrayItems(s) ==
  IF DOMAIN s.items = {"0"} THEN s
  ELSE IF s.items # NoMap
    THEN [s EXCEPT !.items = At("0", [AnySchema EXCEPT !.anyOf = s.items])]
  ELSE IF "array" \in s.type THEN [s EXCEPT !.items = At("0", UnconstrainedJsonValue)]
  ELSE s

EnsureSchemaType(s) ==
  IF s.type # {} \/ s.anyOf # NoMap THEN s
  ELSE IF s.items # NoMap THEN [s EXCEPT !.type = {"array"}]
  ELSE IF s.hint # "none" THEN [s EXCEPT !.type = {s.hint}]
  ELSE IF s.enum # {} THEN [s EXCEPT !.type = s.enum]
  ELSE [s EXCEPT !.type = UnconstrainedJsonValue.type]

\* Every property is required; one that was not may be null instead.
CloseObject(s) ==
  IF ~ s.hasProps /\ "object" \notin s.type THEN s
  ELSE [s EXCEPT
    !.type = IF @ = {} THEN {"object"} ELSE @, !.hasProps = TRUE, !.closed = TRUE,
    !.required = DOMAIN s.props,
    !.props = [p \in DOMAIN s.props |->
                 IF p \in s.required THEN s.props[p] ELSE MakeNullable(s.props[p])]]

\* The parts first; then the node itself.
RECURSIVE CompileStrictSchema(_)
CompileStrictSchema(s) ==
  LET parts(m) == [k \in DOMAIN m |-> CompileStrictSchema(m[k])]
      inner == [s EXCEPT !.props = parts(@), !.items = parts(@), !.anyOf = parts(@),
                         !.nullable = FALSE, !.closed = FALSE, !.required = {}]
      closed == CloseObject([inner EXCEPT !.required = s.required])
      node == NormalizeArrayItems(EnsureSchemaType(NormalizeArrayItems(closed)))
  IN IF s.nullable THEN MakeNullable(node) ELSE node

\* Mutant: the nulls of nested objects stay.
OuterNullsOnly(s, v) ==
  [v EXCEPT !.kids = [p \in {p \in DOMAIN v.kids : v.kids[p] # Null \/ p \in s.required} |-> @[p]]]

(* executionValue(): a null of a property that is not required is left     *)
(* out, at every depth that properties and items reach.                    *)
RECURSIVE ExecutionValue(_, _)
ExecutionValue(s, v) ==
  CASE v.t = "array" /\ DOMAIN s.items = {"0"} ->
         [v EXCEPT !.kids = [i \in DOMAIN @ |-> ExecutionValue(s.items["0"], @[i])]]
    [] v.t = "object" /\ s.hasProps ->
         LET kept == {p \in DOMAIN v.kids : v.kids[p] # Null \/ p \in s.required} IN
         [v EXCEPT !.kids = [p \in kept |->
            IF p \in DOMAIN s.props THEN ExecutionValue(s.props[p], @[p]) ELSE @[p]]]
    [] OTHER -> v

-----------------------------------------------------------------------------
(* The schemas of tools.                                                   *)
Leaves ==
  LET typed == {[AnySchema EXCEPT !.type = {t}] : t \in Types} IN
  typed \cup {[s EXCEPT !.nullable = TRUE] : s \in typed}
    \cup {[s EXCEPT !.enum = s.type] : s \in typed}
    \cup {[s EXCEPT !.type = @ \cup {"null"}] : s \in typed}
    \cup {[AnySchema EXCEPT !.enum = {t, "null"}] : t \in Types}
    \cup {AnySchema, [AnySchema EXCEPT !.hint = "array"], [AnySchema EXCEPT !.type = {"array"}]}

AString == [AnySchema EXCEPT !.type = {"string"}]

\* Objects with one property, declared as such or not, lists, choices, and tuples
\* whose two positions have the same schema or not.
Around(S) ==
  {[AnySchema EXCEPT !.type = t, !.hasProps = TRUE, !.props = At("a", s), !.required = r] :
     t \in {{}, {"object"}, {"object", "null"}}, r \in {{}, {"a"}}, s \in S}
  \cup {[AnySchema EXCEPT !.type = t, !.items = At("0", s)] : t \in {{}, {"array"}}, s \in S}
  \cup {[AnySchema EXCEPT !.type = {"array"}, !.items = [i \in {"0", "1"} |-> IF i = "0" THEN s ELSE t]] :
           <<s, t>> \in {<<s, s>> : s \in S} \cup {<<s, AString>> : s \in S}}
  \cup {[AnySchema EXCEPT !.anyOf = [b \in {"0", "1"} |->
           IF b = "0" THEN s ELSE [AnySchema EXCEPT !.type = {"null"}]]] : s \in S}

RECURSIVE Nested(_)
Nested(d) == IF d = 0 THEN Leaves ELSE Leaves \cup Around(Nested(d - 1))

\* The parameters of a tool are an object.
Parameters ==
  {[AnySchema EXCEPT !.type = {"object"}, !.hasProps = TRUE, !.props = At("a", s), !.required = r] :
     s \in Nested(Depth), r \in {{}, {"a"}}}

NoCall ==
  [pc |-> "registered", source |-> AnySchema, strict |-> AnySchema, sent |-> Null, run |-> Null]

SchemasInit == \E s \in Parameters : toolCall = [NoCall EXCEPT !.source = s]

\* aiSdkToolsFor(): what the model is offered.
OfferTool ==
  /\ toolCall.pc = "registered"
  /\ toolCall' = [toolCall EXCEPT !.pc = "offered", !.strict = CompileStrictSchema(toolCall.source)]

\* The model calls the tool, with arguments that the strict schema admits.
CallTool ==
  /\ toolCall.pc = "offered"
  /\ \E v \in Admitted(toolCall.strict) :
       toolCall' = [toolCall EXCEPT !.pc = "called", !.sent = v]

\* executionArgumentsFor(), before the tool runs or its approval is asked.
RunTool ==
  /\ toolCall.pc = "called"
  /\ toolCall' = [toolCall EXCEPT !.pc = "run", !.run = ExecutionValue(toolCall.source, toolCall.sent)]

SchemasNext == OfferTool \/ CallTool \/ RunTool

SchemasSpec == SchemasInit /\ [][SchemasNext]_schemasVars

-----------------------------------------------------------------------------
SchemasTypeOK == toolCall.pc \in {"registered", "offered", "called", "run"}

PartsOf(s) == UNION {{m[k] : k \in DOMAIN m} : m \in {s.props, s.items, s.anyOf}}

\* Each node has a type; a list one schema for its items; an object is closed.
RECURSIVE IsStrict(_)
IsStrict(s) ==
  /\ s.type # {} \/ s.anyOf # NoMap
  /\ "array" \in s.type => DOMAIN s.items = {"0"}
  /\ "object" \in s.type \/ s.hasProps => s.closed /\ s.required = DOMAIN s.props
  /\ ~ s.nullable
  /\ \A x \in PartsOf(s) : IsStrict(x)

RECURSIVE HasOptional(_)
HasOptional(s) == DOMAIN s.props \ s.required # {} \/ \E x \in PartsOf(s) : HasOptional(x)

\* A property may be left out where executionValue() does not go.
RECURSIVE HidesOptional(_)
HidesOptional(s) ==
  \/ \E x \in PartsOf(s) : HidesOptional(x)
  \/ \E b \in DOMAIN s.anyOf : HasOptional(s.anyOf[b])
  \/ Cardinality(DOMAIN s.items) = 2 /\ \E i \in DOMAIN s.items : HasOptional(s.items[i])

\* One schema is offered for all positions of a tuple, so a value may stand where
\* the tuple has another schema.
RECURSIVE MixesPositions(_)
MixesPositions(s) ==
  \/ \E i, k \in DOMAIN s.items : s.items[i] # s.items[k]
  \/ \E x \in PartsOf(s) : MixesPositions(x)

\* A null is a value of its own for a property that may be left out.
RECURSIVE HasOptionalNull(_)
HasOptionalNull(s) ==
  \/ \E p \in DOMAIN s.props \ s.required : Satisfies(Null, s.props[p])
  \/ \E x \in PartsOf(s) : HasOptionalNull(x)

\* What the model means: the nulls that the tool's own schema refuses are left out.
RECURSIVE Meant(_, _)
Meant(s, v) ==
  CASE v.t = "array" /\ s.items # NoMap ->
         [v EXCEPT !.kids = [i \in DOMAIN @ |-> Meant(s.items[i], @[i])]]
    [] v.t = "object" /\ s.props # NoMap ->
         LET said == {p \in DOMAIN v.kids : v.kids[p] # Null \/ Satisfies(Null, s.props[p])} IN
         [v EXCEPT !.kids = [p \in said \cup s.required |-> Meant(s.props[p], @[p])]]
    [] OTHER -> v

(* What the model is offered is a strict schema; whatever it sends under   *)
(* it satisfies the tool's own schema by the time the tool runs; and the   *)
(* tool gets all that the model said, a null that its schema allows too.   *)
(* Not where a choice or a tuple has an object in it with a property that  *)
(* may be left out (the nulls in there stay), where the positions of a     *)
(* tuple differ (any of their schemas is offered for each), nor where a    *)
(* property that may be left out may be null as well (its null goes).      *)
ArgumentsFitTheTool ==
  LET s == toolCall.source
  IN  /\ toolCall.pc # "registered" => IsStrict(toolCall.strict)
      /\ toolCall.pc = "run" /\ ~ HidesOptional(s) =>
           /\ ~ MixesPositions(s) => Satisfies(toolCall.run, s)
           /\ ~ HasOptionalNull(s) => toolCall.run = Meant(s, toolCall.sent)

=============================================================================
