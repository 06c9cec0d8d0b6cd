---------------------------- MODULE ToolCommand ----------------------------
(***************************************************************************)
(* One `bl tools' or `sq agent-tools' command (lib.rs, cli.rs, runtime.rs, *)
(* kgoose.rs): which backend it is for and which stored session goes with  *)
(* its requests, how it finds out about an extension's tools, how it makes *)
(* flags of a tool's input schema and JSON of what is given for them, and  *)
(* the one request that calls the tool.                                    *)
(*                                                                         *)
(* The backend is not part of the repository.  Its list of extensions may  *)
(* change at any time, a tool it cannot call answers with an error, and an *)
(* answer may be lost.  JSON values are their texts and types; a schema    *)
(* describes one parameter, with at most one array or choice inside        *)
(* another.  Of a schema the client reads `type', `items', `anyOf', `$ref' *)
(* and `enum', and so does the model: what else it may demand (`minimum',  *)
(* `const', `pattern', `maxLength', `minItems' and the like) is not        *)
(* checked before the call, and is left to the backend.  Help, which clap  *)
(* prints, is an end of its own.                                           *)
(***************************************************************************)
EXTENDS Integers, Sequences

VARIABLES
  step,       \* what the command does next
  line,       \* what was typed
  env,        \* the environment: which backend and organisation it names
  stored,     \* the stored session: the backend and path it is stored under
  target,     \* where the requests go, and with which session
  extension,  \* at the backend: is it listed, and are its tools to be had
  schema,     \* of the tool's parameter
  texts,      \* what is given for it
  sent,       \* what was sent for it
  ran,        \* history: how often the tool was run
  outcome

toolVars == <<step, line, env, stored, target, extension, schema, texts, sent, ran, outcome>>

-----------------------------------------------------------------------------
(***************************************************************************)
(* The backend and the session                                             *)
(***************************************************************************)

\* a direct KGoose host, one of a BuilderLab installation, a local one, the
\* workstation's proxy
Hosts == {"direct", "builderlab", "local", "proxy"}
Paths == {"goose", "api/goose", "other"}
Unset == "none"

\* bl or sq; KGOOSE_BASE_URL, --base-url, the proxy (BL_TOOLS_BASE_URL on a
\* workstation), KGOOSE_SERVICE_PATH, and the organisation of the preferences
Environments == [bl : BOOLEAN, base : {"builderlab", "local", Unset}, flag : {"builderlab", Unset},
                 proxy : BOOLEAN, path : {"other", Unset}, org : BOOLEAN]

\* resolve_base_url: the environment comes before the command line
Base(e) ==
  IF e.base # Unset THEN e.base
  ELSE IF e.flag # Unset THEN e.flag
  ELSE IF e.bl /\ e.proxy THEN "proxy" ELSE "direct"

\* tools_proxy_auth_for_url: the proxy adds its owner's identity
ProxyAuth(e) == e.bl /\ e.proxy /\ Base(e) = "proxy"

\* resolve_org_kgoose_base_url: a BuilderLab host has a subdomain for each
\* organisation
Routed(host, org) == [host |-> host, org |-> org /\ host = "builderlab"]

\* what `bl tools' takes the path for, and where the commands of SkillsConfig,
\* `bl auth login' among them, store a session in the same environment
ToolsPath(e) == IF e.path # Unset THEN e.path ELSE "goose"
LoginPath(e) ==
  IF e.path # Unset THEN e.path ELSE IF Base(e) = "direct" THEN "goose" ELSE "api/goose"
LoginKey(e) == [base |-> Routed(Base(e), e.org), path |-> LoginPath(e)]

Bases == [host : Hosts, org : BOOLEAN]
Keys == [base : Bases, path : Paths \cup {Unset}]
NoKey == [base |-> [host |-> Unset, org |-> FALSE], path |-> Unset]
NoTarget == [base |-> NoKey.base, session |-> NoKey]

\* kgoose_auth_storage_lookup_urls: the base alone, or with its path
Session(e) ==
  IF stored.base = Routed(Base(e), e.org) /\ stored.path \in {Unset, ToolsPath(e)}
    THEN stored ELSE NoKey

\* apply_builderlab_mode: sq has no session, and neither has what the proxy
\* authenticates
Target(e) ==
  IF ~e.bl \/ ProxyAuth(e)
    THEN [base |-> Routed(Base(e), FALSE), session |-> NoKey]
    ELSE [base |-> Routed(Base(e), e.org), session |-> Session(e)]

-----------------------------------------------------------------------------
(***************************************************************************)
(* Schemas and values                                                      *)
(***************************************************************************)

Texts == {"word", "other", "1", "2", "1.5", "true", "null", "[1]", "{}"}

\* what a text is as JSON; a word is none
Json(text) ==
  CASE text \in {"1", "2"} -> [type |-> "integer", text |-> text]
    [] text = "1.5" -> [type |-> "number", text |-> text]
    [] text = "true" -> [type |-> "boolean", text |-> text]
    [] text = "null" -> [type |-> "null", text |-> text]
    [] text = "{}" -> [type |-> "object", text |-> text]
    [] text = "[1]" -> [type |-> "array", items |-> <<[type |-> "integer", text |-> "1"]>>]
    [] OTHER -> [type |-> Unset, text |-> text]

String(text) == [type |-> "string", text |-> text]

Plain(type) == [form |-> "plain", type |-> type, enum |-> {}]
WithEnum(type, values) == [form |-> "plain", type |-> type, enum |-> values]
ArrayOf(items) == [form |-> "array", items |-> items]
AnyOf(a, b) == [form |-> "anyOf", of |-> <<a, b>>]
Ref(to) == [form |-> "ref", to |-> to]

Leaves ==
  {Plain(t) : t \in {"null", "boolean", "string", "integer", "number", "object", Unset}}
    \cup {WithEnum(t, {String("word"), String("1")}) : t \in {"string", Unset}}
    \cup {WithEnum(t, {Json("1")}) : t \in {"integer", "number", Unset}}
    \cup {WithEnum(Unset, {Json("1"), String("word")}), WithEnum("boolean", {Json("true")})}

Schemas ==
  LET simple == Leaves \cup {ArrayOf(l) : l \in Leaves} \cup {Ref(l) : l \in Leaves}
      pairs == {AnyOf(a, b) : a \in Leaves, b \in simple}
  IN simple \cup pairs \cup {ArrayOf(Ref(l)) : l \in Leaves}
       \cup {ArrayOf(AnyOf(l, Plain("null"))) : l \in Leaves}

\* a reference is to a plain schema
Resolve(s) == IF s.form = "ref" THEN s.to ELSE s

Scalars == {"string", "integer", "number", "boolean"}

\* infer_enum_shape, for values of one type
EnumShape(values) ==
  IF \E t \in Scalars : \A v \in values : v.type = t
    THEN CHOOSE t \in Scalars : \A v \in values : v.type = t ELSE "json"

One(type) == [array |-> FALSE, type |-> type]
Many(type) == [array |-> TRUE, type |-> type]

LeafShape(s) ==
  CASE s.type \in Scalars \cup {"null"} -> One(s.type)
    [] s.type = Unset /\ s.enum # {} -> One(EnumShape(s.enum))
    [] OTHER -> One("json")

ShapeBy(schema0, PartOf(_)) ==
  LET s == Resolve(schema0)
  IN CASE s.form = "array" ->
            LET item == PartOf(s.items)
            IN IF ~item.array /\ item.type \in Scalars THEN Many(item.type) ELSE One("json")
       [] s.form = "anyOf" ->
            LET shapes == {PartOf(s.of[i]) : i \in DOMAIN s.of} \ {One("null")}
            IN IF shapes = {} THEN One("null")
               ELSE IF \E x \in shapes : shapes = {x} THEN CHOOSE x \in shapes : TRUE
               ELSE One("json")
       [] s.form = "plain" -> LeafShape(s)

\* classify_schema_shape and classify_any_of: a scalar, an array of scalars,
\* null, or "json" for all the rest; the parts of a part are plain
PartShape(s) == ShapeBy(s, LeafShape)
Shape(s) == ShapeBy(s, PartShape)

\* array_item_schema: of the first choice that is an array
Items(schema0) ==
  LET s == Resolve(schema0)
      first == CHOOSE i \in DOMAIN s.of : /\ PartShape(s.of[i]).array
                                          /\ \A j \in 1..(i - 1) : ~PartShape(s.of[j]).array
  IN Resolve(IF s.form = "array" THEN s.items ELSE s.of[first].items)

EnumOf(s) == IF s.form = "plain" THEN s.enum ELSE {}

KindOf(shape, one, many) ==
  CASE shape.array -> [kind |-> "array", type |-> shape.type, enum |-> EnumOf(many)]
    [] ~shape.array /\ shape.type \in Scalars ->
         [kind |-> "scalar", type |-> shape.type, enum |-> EnumOf(one)]
    [] OTHER -> [kind |-> "json"]

\* classify_parameter_kind
Kind(s) ==
  LET shape == Shape(s) IN KindOf(shape, Resolve(s), IF shape.array THEN Items(s) ELSE s)

\* what a text is sent as for a type; a boolean in an array has words of its own
Parsed(type, text) ==
  CASE type = "string" -> String(text)
    [] type = "boolean" -> IF text \in {"true", "1"} THEN Json("true") ELSE Json("word")
    [] OTHER -> Json(text)

\* any number for an integer
AcceptsNumber(type, enum, text) ==
  /\ type = "boolean" \/ enum = {} \/ Parsed(type, text) \in enum
  /\ CASE type \in {"integer", "number"} -> Json(text).type \in {"integer", "number"}
       [] type = "boolean" -> text \in {"true", "1"}
       [] OTHER -> TRUE

\* parse_scalar_value, after clap's check of possible values
Accepts(type, enum, text) ==
  /\ type = "boolean" \/ enum = {} \/ Parsed(type, text) \in enum
  /\ CASE type = "integer" -> Json(text).type = "integer"
       [] type = "number" -> Json(text).type \in {"integer", "number"}
       [] type = "boolean" -> text \in {"true", "1"}
       [] OTHER -> TRUE

\* parameter_value_from_matches; a single boolean is a flag without a value
Accepted(k, given) ==
  CASE k.kind = "json" -> Len(given) = 1 /\ Json(given[1]).type # Unset
    [] k.kind = "scalar" -> /\ Len(given) = 1 /\ Accepts(k.type, k.enum, given[1])
                            /\ k.type = "boolean" => given[1] = "true"
    [] k.kind = "array" -> \A i \in DOMAIN given : Accepts(k.type, k.enum, given[i])

Value(k, given) ==
  CASE k.kind = "json" -> Json(given[1])
    [] k.kind = "scalar" -> Parsed(k.type, given[1])
    [] k.kind = "array" ->
         [type |-> "array", items |-> [i \in DOMAIN given |-> Parsed(k.type, given[i])]]

\* Which values have the types and are among the choices that a schema names; a
\* schema may demand more than that
LeafFits(value, s) ==
  /\ s.enum # {} => value \in s.enum
  /\ s.type \in {Unset, value.type} \/ (s.type = "number" /\ value.type = "integer")

FitsBy(value, schema0, PartDoes(_, _)) ==
  LET s == Resolve(schema0)
  IN CASE s.form = "anyOf" -> \E i \in DOMAIN s.of : PartDoes(value, s.of[i])
       [] s.form = "array" -> /\ value.type = "array"
                              /\ \A i \in DOMAIN value.items : PartDoes(value.items[i], s.items)
       [] s.form = "plain" -> LeafFits(value, s)

PartFits(value, s) == FitsBy(value, s, LeafFits)
Fits(value, s) == FitsBy(value, s, PartFits)

-----------------------------------------------------------------------------
(***************************************************************************)
(* The command                                                             *)
(***************************************************************************)

\* what the command is for: an extension and a tool may be named or not
Lines == {"write-extensions", "describe-commands", "describe-commands of extension", "summary",
          "summary of extension", "version", "list", "appkit", "help of tool", "describe",
          "call", "call with json"}

OfExtension == {"describe-commands of extension", "summary of extension", "help of tool",
                "describe", "call", "call with json"}

Outcomes == {"running", "printed", "written", "failed", "org_required", "unknown extension",
             "not to be had", "tool error"}

NotSent == [type |-> "nothing"]
Whole == [type |-> "whole"]

\* Init picks what the command depends on; schema and texts matter to a call
ToolInit ==
  /\ step = "begin"
  /\ line \in Lines
  /\ env \in Environments
  /\ stored \in {NoKey, LoginKey(env), [LoginKey(env) EXCEPT !.path = ToolsPath(env)]}
                  \cup {[LoginKey(env) EXCEPT !.base = Routed("builderlab", FALSE)]}
  /\ target = NoTarget
  /\ extension = "ready"
  /\ schema = Plain("string")
  /\ texts = <<>>
  /\ sent = NotSent
  /\ ran = 0
  /\ outcome = "running"

ToolTypeOK ==
  /\ step \in {"begin", "extensions", "tools", "known", "arguments", "call", "end"}
  /\ line \in Lines /\ env \in Environments
  /\ stored \in Keys \cup {NoKey}
  /\ target = NoTarget \/ (target.base \in Bases /\ target.session \in {stored, NoKey})
  /\ extension \in {"ready", "closed", "gone"}
  /\ ran \in 0..2
  /\ outcome \in Outcomes

Goto(label) == step' = label /\ UNCHANGED outcome
End(value) == step' = "end" /\ outcome' = value

\* what the command needs first: the list of extensions, the tools of one, or
\* nothing; sq has a catalog of extensions and describes the root from it
FirstStep ==
  CASE line = "appkit" -> End("failed")
    [] line \in {"summary", "version"} -> End("printed")
    [] line \in OfExtension -> Goto("tools")
    [] line = "write-extensions" -> Goto("extensions")
    [] line \in {"list", "describe-commands"} ->
         IF env.bl THEN Goto("extensions") ELSE End("printed")

NeedsBackend == line \notin {"appkit", "summary", "version"}

\* without an organisation bl asks no backend but the proxy
Begin ==
  /\ step = "begin"
  /\ IF NeedsBackend /\ env.bl /\ ~ProxyAuth(env) /\ ~env.org
       THEN End("org_required") /\ UNCHANGED target
       ELSE FirstStep /\ target' = IF NeedsBackend THEN Target(env) ELSE target
  /\ UNCHANGED <<line, env, stored, extension, schema, texts, sent, ran>>

ListExtensions ==
  /\ step = "extensions"
  /\ End(IF line = "write-extensions" THEN "written" ELSE "printed") \/ End("failed")
  /\ UNCHANGED <<line, env, stored, target, extension, schema, texts, sent, ran>>

\* load_extension; a failure leads to the question whether the extension is known
ListTools ==
  /\ step = "tools"
  /\ \/ /\ extension = "ready"
        /\ CASE line \in {"call", "call with json"} -> Goto("arguments")
             [] OTHER -> End("printed")
     \/ Goto("known")
  /\ UNCHANGED <<line, env, stored, target, extension, schema, texts, sent, ran>>

\* bl asks the backend again, sq its catalog
Known ==
  /\ step = "known"
  /\ \/ extension # "gone" /\ End("not to be had")
     \/ extension = "gone" /\ env.bl /\ End("unknown extension")
     \/ ~env.bl /\ (End("unknown extension") \/ End("not to be had"))
     \/ env.bl /\ End("failed")
  /\ UNCHANGED <<line, env, stored, target, extension, schema, texts, sent, ran>>

\* clap and build_tool_request: what is typed for the tool's parameter, or for
\* all of them with --json, which must be an object
Arguments(s, given) ==
  /\ step = "arguments"
  /\ schema' = s
  /\ texts' = given
  /\ IF line = "call with json"
       THEN IF given = <<"{}">> THEN Goto("call") /\ sent' = Whole
                                ELSE End("failed") /\ UNCHANGED sent
       ELSE IF Accepted(Kind(s), given) THEN Goto("call") /\ sent' = Value(Kind(s), given)
                                        ELSE End("failed") /\ UNCHANGED sent
  /\ UNCHANGED <<line, env, stored, target, extension, ran>>

\* The request is made once; whether the tool has run when no answer, or an
\* error, comes back is not known
Call ==
  /\ step = "call"
  /\ \/ ran' = ran + 1 /\ (End("printed") \/ End("tool error"))
     \/ End("tool error") /\ UNCHANGED ran
     \/ End("failed") /\ ran' \in {ran, ran + 1}
  /\ UNCHANGED <<line, env, stored, target, extension, schema, texts, sent>>

\* the user connects or disconnects the extension, the operator removes it
Connect(e) ==
  /\ step \in {"tools", "known"}
  /\ e # extension
  /\ extension' = e
  /\ UNCHANGED <<step, line, env, stored, target, schema, texts, sent, ran, outcome>>

Given == {<<t>> : t \in Texts} \cup {<<"1", t>> : t \in Texts}

\* what is typed does not depend on the environment: it varies in one of them
Inputs ==
  IF env = [bl |-> FALSE, base |-> Unset, flag |-> Unset, proxy |-> FALSE, path |-> Unset,
            org |-> TRUE]
    THEN Schemas \X Given ELSE {<<Plain("string"), <<"word">>>>, <<Plain("object"), <<"{}">>>>}

ToolNext ==
  \/ Begin
  \/ ListExtensions
  \/ ListTools
  \/ Known
  \/ step = "arguments" /\ \E input \in Inputs : Arguments(input[1], input[2])
  \/ Call
  \/ \E e \in {"ready", "closed", "gone"} : Connect(e)

ToolSpec == ToolInit /\ [][ToolNext]_toolVars

-----------------------------------------------------------------------------
(***************************************************************************)
(* Properties                                                              *)
(***************************************************************************)

\* A schema the flags do not check: any JSON, an enum in a choice, and an enum
\* of booleans
LeafHides(s) == s.enum # {} /\ LeafShape(s) = One("boolean")

HidesBy(schema0, PartDoes(_)) ==
  LET s == Resolve(schema0)
  IN CASE s.form = "plain" -> LeafHides(s)
       [] s.form = "array" -> PartDoes(s.items)
       [] s.form = "anyOf" -> \E i \in DOMAIN s.of :
                                LET v == Resolve(s.of[i])
                                IN (v.form = "plain" /\ v.enum # {}) \/ PartDoes(v)

PartHides(s) == HidesBy(s, LeafHides)
HidesEnum(s) == HidesBy(s, PartHides)

\* A tool is run at most once, and only by a command that calls it; what is
\* sent for a parameter has the types, and is among the values, that its schema
\* names, however it is nested and referred to, unless no flag can be made of the
\* schema or an enum is hidden in it; and no session goes out where sq, the proxy
\* or the lack of an organisation forbids it.
OneFaithfulCall ==
  /\ ran <= 1
  /\ ran > 0 \/ sent # NotSent => line \in {"call", "call with json"}
  /\ sent \notin {NotSent, Whole} /\ Kind(schema).kind # "json" /\ ~HidesEnum(schema) =>
       Fits(sent, schema)
  /\ outcome = "printed" /\ line \in {"call", "call with json"} => ran = 1
  /\ target.session # NoKey => env.bl /\ env.org /\ ~ProxyAuth(env)
=============================================================================
