-------------------------- MODULE MCResultIdentity --------------------------
(***************************************************************************)
(* The worlds of ResultIdentity: one base world, and every world that      *)
(* differs from it in the call, in the function or in what it depends on.  *)
(* The same run also explores ArrayToken, which shares no state with it,   *)
(* from one world of its own.                                              *)
(***************************************************************************)
EXTENDS ResultIdentity, ArrayToken

Of(kind, text) == [Builtin(kind, << >>) EXCEPT !.text = text]
Typed(v, module, name) == [v EXCEPT !.cls = [module |-> <<module>>, qualname |-> <<name>>]]
Dropping(v, what) == [v EXCEPT !.unseen = <<what>>]
Array(shape, dtype, items) ==
    [Builtin("ndarray", items) EXCEPT !.text = shape, !.dtype = dtype]
Frame(kind, name, dtype, rows) ==
    [Builtin(kind, rows) EXCEPT !.text = name, !.dtype = dtype]
Pair(k, v) == Builtin("pair", <<k, v>>)
Field(name, v) == [Builtin("field", <<v>>) EXCEPT !.text = <<name>>]

None == Builtin("none", << >>)
One == Of("int", <<"1">>)
Two == Of("int", <<"2">>)
A == Text(<<"a">>)
B == Text(<<"b">>)

\* Texts that spell the end of their own emission and the start of another one.
Spelling(tag) == Text(<<"a", tag, "NUL", "b">>)

Scalars ==
    {None, One, A, B, Of("bool", <<"1">>), Of("bool", <<"0">>), Of("float", <<"1", ".", "0">>),
     Of("complex", <<"1">>), Text(<<"1">>), Text(<< >>), Of("bytes", <<"a">>),
     Typed(Of("bytes", <<"a">>), "builtins", "bytearray"),
     Typed(One, "m", "Id"), Typed(A, "m", "Name"),
     Typed(Of("enum", <<"ONE">>), "m", "Level"), Typed(Of("enum", <<"ONE">>), "m", "Rank"),
     Builtin("generic", <<One>>), Builtin("generic", <<Of("float", <<"1", ".", "0">>)>>),
     Dropping(Builtin("generic", <<One>>), "datetime64[ns]"),
     Dropping(Builtin("generic", <<One>>), "timedelta64[ns]"),
     Typed(Of("path-posix", <<"a">>), "pathlib", "PosixPath"),
     Typed(Of("path-posix", <<"a">>), "pathlib", "PurePosixPath"),
     Typed(Of("path-win", <<"a">>), "pathlib", "WindowsPath"), Builtin("opaque", << >>)}

Containers ==
    {Builtin("tuple", << >>), Builtin("tuple", <<One>>), Builtin("list", <<One>>),
     Typed(Builtin("tuple", <<One>>), "m", "Point"),
     Builtin("tuple", <<One, One>>), Builtin("tuple", <<Builtin("tuple", <<One>>), One>>),
     Builtin("tuple", <<Builtin("tuple", <<One, One>>)>>),
     Builtin("tuple", <<Spelling("str"), A>>), Builtin("tuple", <<A, Text(<<"b", "str", "NUL", "a">>)>>),
     Builtin("list", <<Builtin("opaque", << >>)>>),
     Builtin("dict", << >>), Builtin("dict", <<Pair(A, One), Pair(B, Two)>>),
     Builtin("dict", <<Pair(B, Two), Pair(A, One)>>),
     Builtin("dict", <<Pair(A, Two), Pair(B, One)>>),
     Typed(Builtin("dict", <<Pair(A, One), Pair(B, Two)>>), "collections", "OrderedDict"),
     Builtin("set", <<A, B>>), Builtin("set", <<B, A>>), Builtin("frozenset", <<A, B>>),
     Typed(Builtin("dataclass", <<Field("x", One)>>), "m", "P"),
     Typed(Builtin("dataclass", <<Field("x", One)>>), "m", "Q"),
     Typed(Builtin("dataclass", <<Field("y", One)>>), "m", "P"),
     Typed(Builtin("dataclass", <<Field("x", Builtin("generic", <<One>>))>>), "m", "P")}

Masked(mask) ==
    Dropping(Typed(Array(<<"2">>, <<"int64">>, <<One, One>>), "numpy.ma", "MaskedArray"), mask)

Data ==
    {Array(<<"2">>, <<"int64">>, <<One, One>>), Array(<<"1", ",", "2">>, <<"int64">>, <<One, One>>),
     Array(<<"2">>, <<"int32">>, <<One, One>>), Array(<<"2">>, <<"object">>, <<One, One>>),
     Array(<<"2">>, <<"object">>, <<One, Of("bool", <<"1">>)>>),
     Masked("none"), Masked("the first"), Builtin("tuple", <<Masked("the first")>>),
     Dropping(Frame("series", <<"a">>, <<"i64">>, <<One, Two>>), "index i"),
     Builtin("lazyframe", << >>)}
    \union {Frame(kind, name, dtype, rows) :
               kind \in Frames \ {"index"}, name \in {<<"a">>, <<"b">>},
               dtype \in {<<"i64">>, <<"str">>}, rows \in {<<One, Two>>, <<Two, One>>}}
    \union {Frame("index", << >>, dtype, rows) :
               dtype \in {<<"i64">>, <<"str">>}, rows \in {<<One, Two>>, << >>}}

\* def f(x, y=1, log=None, *rest, **opts), declared with ignore=["log"]
MCSignature ==
    [params |-> << [name |-> "x", default |-> None], [name |-> "y", default |-> One],
                   [name |-> "log", default |-> None] >>, star |-> "rest", opts |-> "opts"]

Passing(args, keywords) == [args |-> args, keywords |-> keywords, keyed |-> FALSE, value |-> None]
Keyword(name, v) == [name |-> name, value |-> v]
KeyedBy(v) == [args |-> <<One>>, keywords |-> << >>, keyed |-> TRUE, value |-> v]

CallWorlds ==
    {Passing(<<v>>, << >>) : v \in Scalars \union Containers \union Data}
    \union {KeyedBy(v) : v \in {None, One, A, Builtin("tuple", <<One, One>>), Builtin("opaque", << >>)}}
    \union {Passing(<<One, One>>, << >>), Passing(<<One, Two>>, << >>), Passing(<<Two, One>>, << >>),
            Passing(<<One>>, <<Keyword("y", One)>>), Passing(<<One>>, <<Keyword("y", Two)>>),
            Passing(<< >>, <<Keyword("y", Two), Keyword("x", One)>>),
            Passing(<<One, One, Two>>, << >>), Passing(<<One>>, <<Keyword("log", Builtin("opaque", << >>))>>),
            Passing(<<One, One, None, Two>>, << >>), Passing(<<One, One, Two, Two>>, << >>),
            Passing(<<One>>, <<Keyword("a", One), Keyword("b", Two)>>),
            Passing(<<One>>, <<Keyword("b", Two), Keyword("a", One)>>),
            Passing(<<One>>, <<Keyword("opts", One)>>)}

----------------------------------------------------------------------------

Const(text) ==
    [kind |-> "const", text |-> text, names |-> << >>, varnames |-> << >>, items |-> << >>,
     layout |-> ""]
SetConst(items) == [Const(<<"frozenset">>) EXCEPT !.kind = "set", !.items = items]
TupleConst(items) == [Const(<< >>) EXCEPT !.kind = "tuple", !.items = items]
Code(consts) ==
    [kind |-> "code", text |-> <<"load", "add">>, names |-> <<<<"g">>>>, varnames |-> <<<<"x">>>>,
     items |-> consts, layout |-> "x"]
X == Const(<<"x">>)
Y == Const(<<"y">>)
LaidOut(layout) == [Code(<<X>>) EXCEPT !.layout = layout]

Value(v) == [kind |-> "value", value |-> v, ref |-> "id 1"]
Instance(id) == [kind |-> "value", value |-> Builtin("opaque", << >>), ref |-> id]
Function(f) == [kind |-> "function", value |-> None, ref |-> f]
Unbound == [kind |-> "unbound", value |-> None, ref |-> ""]
Bind(name, bound) == [name |-> <<name>>, bound |-> bound]
Opt(name, value) == [name |-> name, value |-> value]

Plain == [namespace |-> <<"m", ".", "f">>, code |-> Code(<<X>>), closure |-> << >>,
          defaults |-> << >>, kwdefaults |-> << >>, wrapped |-> NoFunction,
          py_func |-> NoFunction, options |-> {}, locals |-> {}]
Coded(consts) == [Plain EXCEPT !.code = Code(consts)]
Closing(bindings) == [Plain EXCEPT !.closure = bindings]
Helper(consts, name) == [Coded(consts) EXCEPT !.namespace = <<"m", ".", name>>]
Jit(options, locals) ==
    [Plain EXCEPT !.py_func = "plain", !.options = options, !.locals = locals]

Versions ==
    [ plain      |-> Plain,                 recompiled |-> Plain,
      elsewhere  |-> Helper(<<X>>, "h"),
      digits     |-> Coded(<<Const(<<"1">>), Const(<<"2", "3">>)>>),
      digits2    |-> Coded(<<Const(<<"1", "2">>), Const(<<"3">>)>>),
      spelled    |-> Coded(<<Const(<<"x", "|const:", "y">>), Y>>),
      spelled2   |-> Coded(<<X, Const(<<"y", "|const:", "y">>)>>),
      setconst   |-> Coded(<<SetConst(<<X, Y>>)>>),
      reordered  |-> Coded(<<SetConst(<<Y, X>>)>>),
      tuple      |-> Coded(<<TupleConst(<<X, Y>>)>>),
      tuple2     |-> Coded(<<TupleConst(<<SetConst(<<X, Y>>)>>)>>),
      nested     |-> Coded(<<Code(<<X>>), Y>>),
      nested2    |-> Coded(<<Code(<<X, Y>>)>>),
      variadic   |-> [Plain EXCEPT !.code = LaidOut("*x")],
      handled    |-> [Plain EXCEPT !.code = LaidOut("x, a try that covers more")],
      nested3    |-> Coded(<<LaidOut("*x"), Y>>),
      default1   |-> [Plain EXCEPT !.defaults = <<Bind("0", Value(One))>>],
      default2   |-> [Plain EXCEPT !.defaults = <<Bind("0", Value(Two))>>],
      kwdefault1 |-> [Plain EXCEPT !.kwdefaults = <<Bind("k", Value(One))>>],
      closure1   |-> Closing(<<Bind("k", Value(One))>>),
      closure2   |-> Closing(<<Bind("k", Value(Typed(One, "m", "Id")))>>),
      unbound    |-> Closing(<<Bind("k", Unbound)>>),
      object1    |-> Closing(<<Bind("k", Instance("id 1"))>>),
      object2    |-> Closing(<<Bind("k", Instance("id 2"))>>),
      a          |-> Helper(<<X>>, "a"),    b |-> Helper(<<Y>>, "b"),
      a2         |-> Helper(<<Y>>, "a"),
      wrapped    |-> [Helper(<<X, X>>, "w") EXCEPT !.wrapped = "a"],
      rewrapped  |-> [Helper(<<X, Y>>, "w") EXCEPT !.wrapped = "wrapped"],
      onA        |-> Closing(<<Bind("g", Function("a"))>>),
      onVariadic |-> Closing(<<Bind("g", Function("aVariadic"))>>),
      aVariadic  |-> [Helper(<<X>>, "a") EXCEPT !.code = LaidOut("*x")],
      onB        |-> Closing(<<Bind("g", Function("b"))>>),
      onW        |-> Closing(<<Bind("g", Function("wrapped"))>>),
      onAB       |-> Closing(<<Bind("g", Function("a")), Bind("h", Function("b"))>>),
      onBA       |-> Closing(<<Bind("g", Function("b")), Bind("h", Function("a"))>>),
      onOnA      |-> Closing(<<Bind("g", Function("onA"))>>),
      itself     |-> Closing(<<Bind("g", Function("itself"))>>),
      onItself   |-> Closing(<<Bind("g", Function("itself"))>>),
      jit        |-> Jit({Opt("fastmath", "False")}, {}),
      jitFast    |-> Jit({Opt("fastmath", "True")}, {}),
      jitCached  |-> Jit({Opt("fastmath", "False"), Opt("cache", "True")}, {}),
      jitLocals  |-> Jit({Opt("fastmath", "False")}, {Opt("x", "f4")}),
      onJit      |-> Closing(<<Bind("g", Function("jit"))>>),
      onABA      |-> Closing(<<Bind("f", Function("a")), Bind("g", Function("b")),
                               Bind("h", Function("a"))>>),
      onABB      |-> Closing(<<Bind("f", Function("a")), Bind("g", Function("b")),
                               Bind("h", Function("b"))>>),
      mutual     |-> Closing(<<Bind("g", Function("mutual2"))>>),
      mutual2    |-> Closing(<<Bind("g", Function("mutual"))>>) ]

SharingVersions == {f \in DOMAIN Versions : SharesCaptures(Versions, f)}

----------------------------------------------------------------------------

Declared(kind, name) == [kind |-> kind, name |-> name, on |-> "", source |-> "", value |-> None]
CsvBy(on) == [Declared("file", "csv") EXCEPT !.on = on]
Token(name, v) == [Declared("token", name) EXCEPT !.value = v]
Calling(name) == [Declared("token", name) EXCEPT !.source = "etag"]
CodeOf(name, f) == [Declared("code", name) EXCEPT !.source = f]

Declarations ==
    {<< >>, <<Declared("path", "csv")>>, <<CsvBy("content")>>, <<CsvBy("mtime")>>,
     <<Declared("env", "HOME")>>, <<Declared("package", "lib")>>, <<Token("", One)>>,
     <<Token("", One), Token("", Two)>>, <<Token("", Two), Token("", One)>>,
     <<Token("n", One)>>, <<Calling("n")>>, <<Token("n", Builtin("opaque", << >>))>>,
     <<CodeOf("", "a")>>, <<CodeOf("", "a2")>>, <<CodeOf("", "rewrapped")>>, <<CodeOf("n", "b")>>,
     <<Declared("path", "csv"), Declared("env", "HOME")>>,
     <<Declared("path", "csv"), CsvBy("mtime")>>}

Resource(present, text, mtime, v) ==
    [present |-> present, text |-> text, mtime |-> mtime, value |-> v]
Missing == Resource(FALSE, << >>, "", None)
Outside ==
    [csv |-> Resource(TRUE, <<"a">>, "t1", None), HOME |-> Missing,
     lib |-> Resource(TRUE, <<"1.0">>, "", None), etag |-> Resource(TRUE, << >>, "", One)]

Environments ==
    {Outside, [Outside EXCEPT !.csv = Missing], [Outside EXCEPT !.csv.text = <<"b">>],
     [Outside EXCEPT !.csv.mtime = "t2"], [Outside EXCEPT !.csv.text = <<"a", "b">>],
     [Outside EXCEPT !.HOME = Resource(TRUE, << >>, "", None)],
     [Outside EXCEPT !.HOME = Resource(TRUE, <<"a">>, "", None)],
     [Outside EXCEPT !.lib = Missing], [Outside EXCEPT !.lib.text = <<"2.0">>],
     [Outside EXCEPT !.etag = Missing], [Outside EXCEPT !.etag.value = Two],
     [Outside EXCEPT !.etag.value = Builtin("generic", <<One>>)]}

Base == [fn |-> "plain", call |-> Passing(<<One>>, << >>), dependsOn |-> << >>, env |-> Outside]

FunctionWorlds(versions) == {[Base EXCEPT !.fn = f] : f \in versions}

MCWorlds ==
    {[Base EXCEPT !.call = c] : c \in CallWorlds}
    \union FunctionWorlds(DOMAIN Versions \ SharingVersions)
    \union {[Base EXCEPT !.dependsOn = d, !.env = e] : d \in Declarations, e \in Environments}

SharingWorlds == FunctionWorlds({"onAB", "onBA", "onABA", "onABB", "onA", "onVariadic"})

MCIgnored == {"log"}

MCInit == IdentityInit /\ TokenInit

\* The tokens move in the base world, before its entry is stored.
MCNext ==
    \/ IdentityNext /\ (\A o \in Objects : address[o] = "unborn") /\ UNCHANGED tokenVars
    \/ world = Base /\ entry = NoEntry /\ TokenNext /\ UNCHANGED identityVars
=============================================================================
