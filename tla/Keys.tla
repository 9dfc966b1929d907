-------------------------------- MODULE Keys --------------------------------
(***************************************************************************)
(* keys.py: the digest of one call's arguments.                            *)
(*                                                                         *)
(* A Python value is a record                                              *)
(*   [kind, cls, text, dtype, items, unseen]                               *)
(* kind   the branch of _feed that takes it (its dispatch order decides: a *)
(*        bool is not an int, an IntEnum is an enum, an np.generic is      *)
(*        neither an int nor a float);                                     *)
(* cls    the module and qualified name of its concrete type;              *)
(* text   what the branch prints: the digits, the characters, the shape,   *)
(*        the column names, a member's or a field's name;                  *)
(* dtype  the element type of an array or a frame;                         *)
(* items  the members in the order Python iterates them: the elements of a *)
(*        tuple or an array, the pairs of a dict, the fields of a          *)
(*         dataclass, the rows of a frame;                                  *)
(* unseen what else it holds, which its branch drops: the mask of a masked *)
(*        array, that the integer which item() makes of a datetime64[ns]   *)
(*        was a time, the name of a frame's index, what a subclass adds.   *)
(* Texts and hashed streams are sequences of symbols and a text may hold   *)
(* any symbol, the tags included: that the stream still has one reading is *)
(* what the digests stand on.  SHA-256 is collision free and opaque: a     *)
(* digest is one symbol, and nothing but equality is known of it.          *)
(***************************************************************************)
EXTENDS Naturals, Sequences, SequencesExt, TLC

\* hasher.hexdigest(), of fixed length.
Digest(stream) == <<ToString(stream)>>

\* repr() of a column list, a shape or an option list: one reading only.
Repr(x) == <<ToString(x)>>

\* sorted(...) of digests: an order that does not depend on the insertion's.
Sorted(S) == FlattenSeq(SetToSeq(S))

\* A bug the module's header names: the payload delimits itself.
EmitUnframed(tag, payload) == <<tag, "NUL">> \o payload

Emit(tag, payload) == <<tag, "NUL", ToString(Len(payload))>> \o payload

EmitCount(tag, count) == <<tag, "NUL", ToString(count)>>

TypeIdentity(v) == v.cls.module \o <<".">> \o v.cls.qualname

\* type(value) is base, for the type each branch is written for; whatever
\* library defines it, that type is given the module "builtins" here.
IsExactly(v, base) == v.cls = [module |-> <<"builtins">>, qualname |-> <<base>>]

\* A bug: subclasses share the digest of the type their branch matched.
EmitNoType(v, base) == << >>

EmitConcreteType(v, base) ==
    IF IsExactly(v, base) THEN << >> ELSE Emit("subtype", TypeIdentity(v))

Frames == {"pl-frame", "pl-series", "dataframe", "series", "index"}

\* hash_rows and hash_pandas_object: one 64-bit hash for each row, in order.
RowHashes(v) == FlattenSeq([i \in DOMAIN v.items |-> Digest(v.items[i].text)])

\* The emissions of one polars or pandas object after its concrete type.
FeedFrame(v) ==
    CASE v.kind = "pl-frame" ->
            Emit("pl-frame-schema", Repr(<<v.text, v.dtype>>))
            \o EmitCount("pl-frame-rows", Len(v.items))
            \o Emit("pl-frame-data", RowHashes(v))
      [] v.kind = "pl-series" ->
            Emit("pl-series-name", v.text) \o Emit("pl-series-dtype", v.dtype)
            \o EmitCount("pl-series-rows", Len(v.items))
            \o Emit("pl-series-data", RowHashes(v))
      [] v.kind = "dataframe" ->
            Emit("dataframe-columns", Repr(v.text))
            \o Emit("dataframe-dtypes", Repr(v.dtype))
            \o Emit("dataframe-data", RowHashes(v))
      [] v.kind = "series" ->
            Emit("series-name", Repr(v.text)) \o Emit("series-dtype", v.dtype)
            \o Emit("series-data", RowHashes(v))
      [] v.kind = "index" ->
            Emit("index-dtype", v.dtype) \o Emit("index-data", RowHashes(v))

\* Object arrays are fed element by element, the others as one block of bytes.
IsObjectArray(v) == v.kind = "ndarray" /\ v.dtype = <<"object">>

RECURSIVE Hashable(_)
\* _feed raises UnhashableArgumentError on everything else: a LazyFrame, a
\* frame whose library cannot hash its rows, an object of an unknown type.
Hashable(v) ==
    /\ v.kind \notin {"opaque", "function", "lazyframe", "unhashable frame"}
    /\ \A i \in DOMAIN v.items : Hashable(v.items[i])

RECURSIVE Feed(_)

DigestValue(v) == Digest(Feed(v))

FeedEach(vs) == FlattenSeq([i \in DOMAIN vs |-> Feed(vs[i])])

\* A bug: the pairs of a dict are folded in insertion order.
FoldedPairsAsInserted(pairs) ==
    FlattenSeq([i \in DOMAIN pairs |-> DigestValue(pairs[i].items[1]) \o
                                       DigestValue(pairs[i].items[2])])

\* Each pair is two digests of fixed length, so the boundaries are exact.
FoldedPairs(pairs) ==
    Sorted({DigestValue(p.items[1]) \o DigestValue(p.items[2]) : p \in ToSet(pairs)})

FoldedMembers(members) == Sorted({DigestValue(m) : m \in ToSet(members)})

FeedArray(v) ==
    Emit("ndarray-shape", Repr(v.text)) \o
    (IF IsObjectArray(v)
     THEN EmitCount("ndarray-object", Len(v.items)) \o FeedEach(v.items)
     ELSE Emit("ndarray-dtype", v.dtype)
          \o Emit("ndarray-data", FlattenSeq([i \in DOMAIN v.items |-> v.items[i].text])))

FeedFields(fields) ==
    EmitCount("fields", Len(fields)) \o
    FlattenSeq([i \in DOMAIN fields |->
                   Emit("field", fields[i].text) \o Feed(fields[i].items[1])])

\* The stream fed to the hasher.  A NumPy scalar is fed as its item(); bools,
\* enums, paths and dataclasses emit no subtype.
Feed(v) ==
    CASE v.kind = "none" -> Emit("none", << >>)
      [] v.kind = "ndarray" -> EmitConcreteType(v, "ndarray") \o FeedArray(v)
      [] v.kind = "generic" -> Feed(v.items[1])
      [] v.kind \in Frames -> EmitConcreteType(v, v.kind) \o FeedFrame(v)
      [] v.kind = "enum" -> Emit("enum", TypeIdentity(v) \o <<".">> \o v.text)
      [] v.kind \in {"bool", "path-win", "path-posix"} -> Emit(v.kind, v.text)
      [] v.kind \in {"int", "float", "complex", "str", "bytes"} ->
            EmitConcreteType(v, v.kind) \o Emit(v.kind, v.text)
      [] v.kind = "dataclass" -> Emit("dataclass", TypeIdentity(v)) \o FeedFields(v.items)
      [] v.kind \in {"tuple", "list"} ->
            EmitConcreteType(v, v.kind) \o EmitCount(v.kind, Len(v.items))
            \o FeedEach(v.items)
      [] v.kind = "dict" ->
            EmitConcreteType(v, "dict") \o EmitCount("dict", Len(v.items))
            \o FoldedPairs(v.items)
      [] v.kind \in {"frozenset", "set"} ->
            EmitConcreteType(v, v.kind) \o EmitCount(v.kind, Len(v.items))
            \o FoldedMembers(v.items)

----------------------------------------------------------------------------
(***************************************************************************)
(* Calls.  A signature is the plain parameters, [name, default] each, and  *)
(* the names of *star and **opts; a call is the positional arguments and   *)
(* the keywords in the order they were written, and it binds.              *)
(***************************************************************************)

Builtin(type, items) ==
    [kind |-> type, cls |-> [module |-> <<"builtins">>, qualname |-> <<type>>],
     text |-> << >>, dtype |-> << >>, items |-> items, unseen |-> << >>]

Text(chars) == [Builtin("str", << >>) EXCEPT !.text = chars]

\* The keywords no plain parameter takes, as the dict **opts receives.
Surplus(sig, call) ==
    LET names == {sig.params[i].name : i \in DOMAIN sig.params}
        rest  == SelectSeq(call.keywords, LAMBDA k : k.name \notin names)
    IN  Builtin("dict", [i \in DOMAIN rest |->
            Builtin("pair", <<Text(<<rest[i].name>>), rest[i].value>>)])

\* What a plain parameter is bound to: its position, its keyword, its default.
BoundTo(sig, call, i) ==
    LET given == {k \in DOMAIN call.keywords : call.keywords[k].name = sig.params[i].name}
    IN  IF i <= Len(call.args) THEN call.args[i]
        ELSE IF given # {} THEN call.keywords[CHOOSE k \in given : TRUE].value
        ELSE sig.params[i].default

NormalizeCall(sig, call) ==
    LET n == Len(sig.params)
        extra == IF Len(call.args) > n THEN SubSeq(call.args, n + 1, Len(call.args)) ELSE << >>
    IN  [i \in 1..n |-> [name |-> sig.params[i].name, value |-> BoundTo(sig, call, i)]]
        \o << [name |-> sig.star, value |-> Builtin("tuple", extra)],
              [name |-> sig.opts, value |-> Surplus(sig, call)] >>

\* The bound arguments that are part of the call's identity.
Identity(sig, call, ignore) ==
    SelectSeq(NormalizeCall(sig, call), LAMBDA a : a.name \notin ignore)

DigestArguments(sig, call, ignore) ==
    LET bound == Identity(sig, call, ignore)
    IN  Digest(FlattenSeq([i \in DOMAIN bound |->
                   Emit("arg", <<bound[i].name>>) \o Feed(bound[i].value)]))

DigestCustomKey(value) == Digest(Emit("custom-key", << >>) \o Feed(value))

----------------------------------------------------------------------------
(***************************************************************************)
(* What the digest stands for: two values are alike when they have the     *)
(* same type and the same content, whatever the order a dict or a set was  *)
(* filled in; a NumPy scalar is its value (7 and np.int64(7) are one, but  *)
(* not 7 and 7 ns: that is unseen), and Path and PurePath are one.         *)
(***************************************************************************)

Unordered == {"dict", "frozenset", "set"}

Scalar(v) == IF v.kind = "generic" THEN v.items[1] ELSE v

RECURSIVE Alike(_, _)
Alike(v, w) ==
    LET a == Scalar(v)
        b == Scalar(w)
    IN  /\ a.kind = b.kind
        /\ a.kind \in {"path-win", "path-posix"} \/ a.cls = b.cls
        /\ a.text = b.text /\ a.dtype = b.dtype
        /\ a.unseen = b.unseen /\ v.unseen = w.unseen
        /\ Len(a.items) = Len(b.items)
        /\ IF a.kind \in Unordered
           THEN \A i \in DOMAIN a.items : \E j \in DOMAIN b.items : Alike(a.items[i], b.items[j])
           ELSE \A i \in DOMAIN a.items : Alike(a.items[i], b.items[i])

RECURSIVE Seen(_)
\* The value without what _feed drops of it.
Seen(v) ==
    [v EXCEPT !.unseen = << >>, !.items = [i \in DOMAIN v.items |-> Seen(v.items[i])]]

SameArguments(bound, others) ==
    /\ Len(bound) = Len(others)
    /\ \A i \in DOMAIN bound :
          bound[i].name = others[i].name /\ Alike(bound[i].value, others[i].value)
=============================================================================
