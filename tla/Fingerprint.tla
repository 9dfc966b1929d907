----------------------------- MODULE Fingerprint -----------------------------
(***************************************************************************)
(* fingerprint.py: the digest of what a function does.                     *)
(*                                                                         *)
(* Function objects live in a heap: heap[f] is                             *)
(*   [namespace, code, closure, defaults, kwdefaults, wrapped,             *)
(*    py_func, options, locals]                                            *)
(* closure     the captured [name, bound] in co_freevars order;            *)
(* defaults    the [name, bound] of the positional defaults, the name      *)
(*             being the parameter's index; kwdefaults likewise, by name;  *)
(* wrapped     __wrapped__, NoFunction without one;                        *)
(* py_func     the Python function of a JIT dispatcher, NoFunction for a   *)
(*             plain function; options and locals are the dispatcher's.    *)
(* A code object is [kind, text, names, varnames, items, layout]: the      *)
(* bytecode, the names, the constants, nested code objects among them, and *)
(* what else decides what the bytecode does: co_flags and the counts of    *)
(* the parameters, the cells, the exception table.  A bound value is       *)
(* [kind, value, ref]: a Python value of Keys (ref: its id, should it be   *)
(* unhashable), a function of the heap (ref) or an unbound cell.           *)
(***************************************************************************)
EXTENDS Keys

NoFunction == "no function"

SemanticOptions ==
    {"boundscheck", "error_model", "fastmath", "forceobj", "nopython", "parallel"}

IsJitDispatcher(heap, f) == heap[f].py_func # NoFunction

\* The function whose code, closure and defaults are hashed.
Target(heap, f) == IF IsJitDispatcher(heap, f) THEN heap[f].py_func ELSE f

RECURSIVE Unwrapped(_, _, _)
Unwrapped(heap, f, seen) ==
    IF IsJitDispatcher(heap, f) \/ heap[f].wrapped = NoFunction \/ f \in seen THEN f
    ELSE Unwrapped(heap, heap[f].wrapped, seen \union {f})

UnwrapFunction(heap, f) == Unwrapped(heap, f, {})

\* A bug the code's comment describes: adjacent components run together.
FeedUnframed(tag, payload) == <<tag>> \o payload

FeedFramed(tag, payload) == <<tag, ToString(Len(payload)), ":">> \o payload

Joined(parts) == FlattenSeq([i \in DOMAIN parts |-> parts[i] \o <<",">>])

RECURSIVE CanonicalConst(_)
\* A set constant is rendered sorted: its repr follows the hash seed.
CanonicalConst(const) ==
    CASE const.kind = "set" ->
            <<"set({">> \o Sorted({Repr(CanonicalConst(c)) : c \in ToSet(const.items)})
            \o <<"})">>
      [] const.kind = "tuple" ->
            <<"(">> \o Joined([i \in DOMAIN const.items |-> CanonicalConst(const.items[i])])
            \o <<")">>
      [] OTHER -> const.text

RECURSIVE FeedCode(_)
FeedCode(code) ==
    FeedFramed("|code:", code.text)
    \o FeedFramed("|names:", Joined(code.names))
    \o FeedFramed("|varnames:", Joined(code.varnames))
    \o FlattenSeq([i \in DOMAIN code.items |->
           LET const == code.items[i] IN
           IF const.kind = "code" THEN FeedFramed("|nested:", Digest(FeedCode(const)))
           ELSE FeedFramed("|const:", CanonicalConst(const))])

Heading(tag) == [name |-> <<tag>>, bound |-> [kind |-> "heading", value |-> Text(<<tag>>), ref |-> tag]]

Section(tag, bindings) == IF bindings = << >> THEN << >> ELSE <<Heading(tag)>> \o bindings

\* A bug this code had (#50): defaults are no part of the identity.
BindingsWithoutDefaults(fn) == Section("|closure:", fn.closure)

\* What is bound to a function, in the order it is fed.
Bindings(fn) ==
    Section("|closure:", fn.closure) \o Section("|defaults:", fn.defaults)
    \o Section("|kwdefaults:", fn.kwdefaults)

\* repr of the sorted semantic options, then of the forced locals.
TargetOptions(fn) ==
    <<"|target-options:">>
    \o Sorted({Repr(<<o.name, o.value>>) : o \in {p \in fn.options : p.name \in SemanticOptions}})
    \o (IF fn.locals = {} THEN << >>
        ELSE <<"|locals:">> \o Sorted({Repr(<<o.name, o.value>>) : o \in fn.locals}))

(***************************************************************************)
(* seen is one mutable set for the whole traversal: each of the operators  *)
(* returns what it feeds and the functions seen by then.                   *)
(***************************************************************************)

RECURSIVE FingerprintSeeing(_, _, _), FeedBoundValues(_, _, _)

FeedBoundValue(heap, bound, seen) ==
    CASE bound.kind = "heading" -> [out |-> << >>, seen |-> seen]
      [] bound.kind = "unbound" -> [out |-> <<"=", "<unbound>">>, seen |-> seen]
      [] bound.kind = "value" /\ Hashable(bound.value) ->
            [out |-> <<"=">> \o DigestValue(bound.value), seen |-> seen]
      [] bound.kind = "function" /\ bound.ref \in seen ->
            [out |-> <<"=", "<function:", "recursive", ">">>, seen |-> seen]
      [] bound.kind = "function" /\ bound.ref \notin seen ->
            LET inner == FingerprintSeeing(heap, bound.ref, seen)
            IN  [out |-> <<"=", "<function:">> \o inner.out \o <<">">>, seen |-> inner.seen]
      [] OTHER -> [out |-> <<"=", "<opaque:", bound.value.kind, ":", bound.ref, ">">>,
                   seen |-> seen]

FeedBoundValues(heap, bindings, seen) ==
    IF bindings = << >> THEN [out |-> << >>, seen |-> seen]
    ELSE LET first == FeedBoundValue(heap, Head(bindings).bound, seen)
             rest  == FeedBoundValues(heap, Tail(bindings), first.seen)
         IN  [out |-> Head(bindings).name \o first.out \o rest.out, seen |-> rest.seen]

FingerprintSeeing(heap, f, seen) ==
    LET target == heap[Target(heap, f)]
        bound  == FeedBoundValues(heap, Bindings(target), seen \union {f, Target(heap, f)})
        jit    == IF IsJitDispatcher(heap, f) THEN TargetOptions(heap[f]) ELSE << >>
    IN  [out |-> Digest(FeedCode(target.code) \o bound.out \o jit), seen |-> bound.seen]

FunctionFingerprint(heap, f) == FingerprintSeeing(heap, f, {}).out

----------------------------------------------------------------------------
(***************************************************************************)
(* What the fingerprint stands for: two functions do the same when their   *)
(* code is the same, and so is what is bound to them, functions compared   *)
(* by what they do in turn and a call of itself with a call of itself.     *)
(* Recursion makes that a greatest fixpoint, unfolded as deep as the heap. *)
(***************************************************************************)

RECURSIVE SameConst(_, _)
SameConst(c, d) ==
    /\ c.kind = d.kind /\ c.text = d.text
    /\ c.names = d.names /\ c.varnames = d.varnames /\ c.layout = d.layout
    /\ Len(c.items) = Len(d.items)
    /\ IF c.kind = "set"
       THEN \A i \in DOMAIN c.items : \E j \in DOMAIN d.items : SameConst(c.items[i], d.items[j])
       ELSE \A i \in DOMAIN c.items : SameConst(c.items[i], d.items[i])

IsSelf(heap, f, ref) == ref \in {f, Target(heap, f)}

\* An unhashable object is only ever itself; while it lives its id is its own.
SameValue(a, b) ==
    IF Hashable(a.value) /\ Hashable(b.value) THEN Alike(a.value, b.value)
    ELSE a.value = b.value /\ a.ref = b.ref

Bound(fn) == fn.closure \o fn.defaults \o fn.kwdefaults

RECURSIVE SameUpTo(_, _, _, _)
SameUpTo(heap, f, g, n) ==
    LET p == heap[Target(heap, f)]
        q == heap[Target(heap, g)]
        b == Bound(p)
        c == Bound(q)
        Relevant(h) == {o \in heap[h].options : o.name \in SemanticOptions}
    IN  n = 0 \/
        /\ SameConst(p.code, q.code)
        /\ IsJitDispatcher(heap, f) = IsJitDispatcher(heap, g)
        /\ Relevant(f) = Relevant(g) /\ heap[f].locals = heap[g].locals
        /\ Len(p.closure) = Len(q.closure) /\ Len(p.defaults) = Len(q.defaults)
        /\ Len(b) = Len(c)
        /\ \A i \in DOMAIN b :
              /\ b[i].name = c[i].name /\ b[i].bound.kind = c[i].bound.kind
              /\ b[i].bound.kind = "value" => SameValue(b[i].bound, c[i].bound)
              /\ b[i].bound.kind = "function" =>
                    /\ IsSelf(heap, f, b[i].bound.ref) = IsSelf(heap, g, c[i].bound.ref)
                    /\ SameUpTo(heap, b[i].bound.ref, c[i].bound.ref, n - 1)

SameFunction(heap, f, g) == SameUpTo(heap, f, g, Cardinality(DOMAIN heap) + 1)

RECURSIVE SeenConst(_)
SeenConst(c) ==
    [c EXCEPT !.layout = "", !.items = [i \in DOMAIN c.items |-> SeenConst(c.items[i])]]

\* The function without what neither _feed_code nor _feed looks at.
SeenFunction(fn) ==
    LET Bare(bindings) ==
            [i \in DOMAIN bindings |-> [bindings[i] EXCEPT !.bound.value = Seen(@)]]
    IN  [fn EXCEPT !.code = SeenConst(@), !.closure = Bare(@), !.defaults = Bare(@),
                   !.kwdefaults = Bare(@)]

Captured(heap, f) ==
    LET b == Bound(heap[Target(heap, f)])
    IN  SelectSeq([i \in DOMAIN b |-> b[i].bound], LAMBDA x : x.kind = "function")

RECURSIVE Reached(_, _)
\* The functions met on the way down from f, once for each path to them; a
\* call of itself is not followed, one of a caller further up is.
Reached(heap, path) ==
    LET f == Last(path)
        c == SelectSeq(Captured(heap, f), LAMBDA x : ~IsSelf(heap, f, x.ref))
    IN  <<f>> \o FlattenSeq([i \in DOMAIN c |->
                    IF c[i].ref \in ToSet(path) THEN <<c[i].ref>>
                    ELSE Reached(heap, Append(path, c[i].ref))])

\* Some function is met twice, and the second time is fed as "recursive".
SharesCaptures(heap, f) == ~IsInjective(Reached(heap, <<f>>))
=============================================================================
