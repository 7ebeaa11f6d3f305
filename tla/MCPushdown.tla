------------------------------ MODULE MCPushdown ------------------------------
(***************************************************************************)
(* The JSON parser of test/pushdown_tests.cpp for TLC: its definition, and *)
(* the grammar that it has to accept.  The five literals of the tests are  *)
(* string_literal, which names a member, and null_literal for the rest.    *)
(***************************************************************************)
EXTENDS Pushdown

MCEvents == {"null_literal", "string_literal", "start_array", "end_array",
             "start_object", "end_object", "comma", "colon"}
MCMachines == {"json_parser", "context", "array", "object"}
MCInner ==
    [m \in MCMachines |->
        CASE m = "json_parser" -> {"context"}
          [] m = "context"     -> {"start", "array", "object", "end"}
          [] m = "array"       -> {"array_value"}
          [] m = "object"      -> {"name", "colon", "object_value"}]
MCAllStates == {"json_parser"} \cup UNION {MCInner[m] : m \in MCMachines}
MCRegional == {"json_parser"}
MCPushesTo == [s \in MCAllStates |->
    IF s \in {"array_value", "object_value"} THEN {"json_parser"} ELSE {}]
MCPopsFrom == [s \in MCAllStates |-> IF s = "end" THEN {"json_parser"} ELSE {}]
MCInitialOf ==
    [m \in MCMachines |->
        CASE m = "json_parser" -> "context"
          [] m = "context"     -> "start"
          [] m = "array"       -> "array_value"
          [] m = "object"      -> "name"]

Row(source, event, target) ==
    [source |-> source, event |-> event, target |-> target, guard |-> "none", posts |-> FALSE]

MCRows ==
    [m \in MCMachines |->
        CASE m = "context" ->
                {Row("start", "null_literal", "end"), Row("start", "string_literal", "end"),
                 Row("start", "start_array", "array"), Row("array", "end_array", "end"),
                 [Row("start", "end_array", "end") EXCEPT !.guard = "in_first_element",
                                                          !.posts = TRUE],
                 Row("start", "start_object", "object"),
                 [Row("object", "end_object", "end") EXCEPT !.guard = "can_close_object"]}
          [] m = "array"   -> {Row("array_value", "comma", "array_value")}
          [] m = "object"  -> {Row("name", "string_literal", "colon"),
                               Row("colon", "colon", "object_value"),
                               Row("object_value", "comma", "name")}
          [] OTHER         -> {}]

\* Mutant: an object may be closed wherever a name may come.
MCAllowsName(guard, frame) ==
    CASE guard = "none"             -> TRUE
      [] guard = "in_first_element" -> frame.data["context"] = "array_first"
      [] guard = "can_close_object" ->
            \/ IsInState(frame.current, "context", "name")
            \/ IsInState(frame.current, "context", "object_value")

\* in_context and can_close_object.
MCAllows(guard, frame) ==
    CASE guard = "none"             -> TRUE
      [] guard = "in_first_element" -> frame.data["context"] = "array_first"
      [] guard = "can_close_object" ->
            \/ frame.data["object"] = 0 /\ IsInState(frame.current, "context", "name")
            \/ IsInState(frame.current, "context", "object_value")

\* context_ of a context, and size of an object, which the tests compare with 0.
MCInitData == [m \in {"context", "object"} |-> IF m = "context" THEN "none" ELSE 0]

\* on_enter of start: the frame learns where its value stands.
MCOnEnter(data, s, e) ==
    CASE s = "start" /\ e = "start_array" -> [data EXCEPT !["context"] = "array_first"]
      [] s = "start" /\ e = "comma"       -> [data EXCEPT !["context"] = "array"]
      [] s = "start" /\ e = "colon"       -> [data EXCEPT !["context"] = "object"]
      [] OTHER                            -> data

\* on_exit of name: one more member.
MCOnExit(data, s, e) ==
    IF s = "name" /\ e = "string_literal" THEN [data EXCEPT !["object"] = data["object"] + 1]
    ELSE data

\* What test/pushdown_tests.cpp:204-263 asserts of the definition.
ASSUME StaticAssertions ==
    /\ StatePushes["array_value", "json_parser"] /\ StatePushes["object_value", "json_parser"]
    /\ StatePops["end", "json_parser"]
    /\ \A m \in {"array", "object"} :
          /\ ContainsPushdowns[m] /\ ~ContainsPopups[m]
          /\ ~StatePushes[m, m] /\ ~StatePops[m, m] /\ ~HasPushdownStack(m)
    /\ ContainsPushdowns["json_parser"] /\ ContainsPopups["json_parser"]
    /\ HasPushdownStack("json_parser")
    /\ StatePath("json_parser", "json_parser") = <<"json_parser">>
    /\ StatePath("start", "start") = <<"start">>
    /\ StatePath("json_parser", "start") = <<"json_parser", "context", "start">>
    /\ StatePath("json_parser", "name") = <<"json_parser", "context", "object", "name">>

-----------------------------------------------------------------------------
\* The grammar, read by recursive descent: the index after what stands at i, 0
\* if that is no such thing, -1 if the text ends before it does.
RECURSIVE Value(_, _), Items(_, _), Members(_, _)

Follows(w, i, Next1(_, _), close) ==
    IF i <= 0 THEN i
    ELSE IF i > Len(w) THEN -1
    ELSE IF w[i] = "comma" THEN Next1(w, i + 1)
    ELSE IF w[i] = close THEN i + 1 ELSE 0

Value(w, i) ==
    IF i > Len(w) THEN -1
    ELSE CASE w[i] \in {"null_literal", "string_literal"} -> i + 1
           [] w[i] = "start_array" ->
                IF i < Len(w) /\ w[i + 1] = "end_array" THEN i + 2 ELSE Items(w, i + 1)
           [] w[i] = "start_object" ->
                IF i < Len(w) /\ w[i + 1] = "end_object" THEN i + 2 ELSE Members(w, i + 1)
           [] OTHER -> 0

Items(w, i) == Follows(w, Value(w, i), Items, "end_array")

Members(w, i) ==
    IF i > Len(w) THEN -1
    ELSE IF w[i] # "string_literal" THEN 0
    ELSE IF i + 1 > Len(w) THEN -1
    ELSE IF w[i + 1] # "colon" THEN 0
    ELSE Follows(w, Value(w, i + 2), Members, "end_object")

\* A value, and the beginning of one.
IsValue(w) == Value(w, 1) = Len(w) + 1
IsBeginning(w) == Value(w, 1) \in {-1, Len(w) + 1}

\* The parser accepts a token exactly if some JSON value begins with what it has
\* accepted and that token; so it neither gets stuck nor goes astray, whatever
\* it has pushed and popped.
AcceptsJson ==
    posted = <<>> => \A e \in Events : Accepts(e) <=> IsBeginning(Append(tokens, e))

\* It is at its end, in the last frame, exactly after a complete value.
EndsWithValue ==
    posted = <<>> =>
        (IsInState(Top.current, Root, "end") /\ Len(stack) = 1 <=> IsValue(tokens))
=============================================================================
