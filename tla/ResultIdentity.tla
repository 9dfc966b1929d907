--------------------------- MODULE ResultIdentity ---------------------------
(***************************************************************************)
(* When one stored result may answer another call: build_key and           *)
(* current_dependencies of decorator.py over keys.py, fingerprint.py and   *)
(* dependencies.py.                                                        *)
(*                                                                         *)
(* A world is everything a result depends on at one moment:                *)
(*   fn         the decorated function, an object of the heap              *)
(*   call       [args, keywords, keyed, value]; keyed: the function has a  *)
(*              key= and value is what it returned                         *)
(*   dependsOn  the declared dependencies         env  the world outside   *)
(* The first call, in any world, stores its entry; by the second call the  *)
(* world is any other one: other arguments, an edited function after a     *)
(* restart, another declaration, other files and variables.                *)
(***************************************************************************)
EXTENDS Dependencies

CONSTANTS Worlds, Heap, Signature, Ignored, NoEntry

VARIABLES world, entry

identityVars == <<world, entry>>

CallDigest(w) ==
    IF w.call.keyed THEN DigestCustomKey(w.call.value)
    ELSE DigestArguments(Signature, w.call, Ignored)

BuildKey(w) ==
    Heap[w.fn].namespace \o <<":">> \o FunctionFingerprint(Heap, w.fn) \o <<":">> \o CallDigest(w)

Labeled(w) == NormalizeDependencies(Heap, w.dependsOn)

CurrentDependencies(w) == FingerprintDependencies(Heap, Labeled(w).labeled, w.env)

\* The decoration raises, or the call does before it looks anything up.
Fails(w) ==
    \/ ~Labeled(w).declared
    \/ \E i \in DOMAIN w.dependsOn : Raises(Coerce(w.dependsOn[i]), w.env)
    \/ IF w.call.keyed THEN ~Hashable(w.call.value)
       ELSE LET bound == Identity(Signature, w.call, Ignored)
            IN  \E i \in DOMAIN bound : ~Hashable(bound[i].value)

IdentityInit == world \in Worlds /\ entry = NoEntry

Store ==
    /\ entry = NoEntry /\ ~Fails(world)
    /\ entry' = [key |-> BuildKey(world), dependencies |-> CurrentDependencies(world),
                 of |-> world]
    /\ UNCHANGED world

Change ==
    /\ entry # NoEntry /\ world = entry.of
    /\ world' \in Worlds
    /\ UNCHANGED entry

IdentityNext == Store \/ Change

----------------------------------------------------------------------------

\* The second call finds the entry, and finds it fresh.
IsHit ==
    /\ entry # NoEntry /\ ~Fails(world)
    /\ entry.key = BuildKey(world)
    /\ ChangedLabels(entry.dependencies, CurrentDependencies(world)) = {}

SameCall(c, d) ==
    /\ c.keyed = d.keyed
    /\ IF c.keyed THEN Alike(c.value, d.value)
       ELSE SameArguments(Identity(Signature, c, Ignored), Identity(Signature, d, Ignored))

SameInputsIn(heap, v, w) ==
    /\ heap[v.fn].namespace = heap[w.fn].namespace
    /\ SameFunction(heap, v.fn, w.fn)
    /\ SameCall(v.call, w.call)
    /\ SameResources(heap, Labeled(v).labeled, v.env, Labeled(w).labeled, w.env)

SameInputs(v, w) == SameInputsIn(Heap, v, w)

\* The world as the digests see it.
SeenHeap == [f \in DOMAIN Heap |-> SeenFunction(Heap[f])]

SeenWorld(w) ==
    LET Bare(r) == [r EXCEPT !.value = Seen(@)]
        Each(f) == [x \in DOMAIN f |-> Bare(f[x])]
        args    == w.call.args
    IN  [w EXCEPT !.call = [Bare(@) EXCEPT !.args = [i \in DOMAIN args |-> Seen(args[i])],
                                           !.keywords = Each(@)],
                  !.dependsOn = Each(@), !.env = Each(@)]

\* What the two worlds differ in is not looked at: the mask of an array, what
\* kind of time an integer of NumPy was, whether a parameter is *xs or xs, what
\* a try statement covers.
DifferUnseen(v, w) == SameInputsIn(SeenHeap, SeenWorld(v), SeenWorld(w))

\* A stored result answers only a call of the same function with the same
\* arguments and the same state of what it declared.  No argument, constant or
\* resource text can be spelled so that the hashed streams of two of them run
\* together, no two types share a tag, no default, capture or dependency is left
\* out (fingerprint.py:378: "a false HIT, the worst failure this library can
\* produce").  The false hits there are, are those of what the digests drop.
NoFalseHit == IsHit => SameInputs(entry.of, world) \/ DifferUnseen(entry.of, world)

\* And it does answer that call: what a key must not depend on forks nothing,
\* neither the way the arguments were passed, nor the order a dict, a set or a
\* set constant was filled in, nor an ignored argument, nor recompiling the code
\* (keys.py:3: "semantically equivalent calls ... share a digest").
NoNeedlessMiss ==
    (entry # NoEntry /\ ~Fails(world)) => (SameInputs(entry.of, world) => IsHit)

\* fingerprint.py:80-82 says of the fingerprint that two functions from the same
\* factory with different captured parameters "compute different results and
\* must never share a fingerprint".
CapturesTellVersionsApart ==
    (entry # NoEntry
       /\ FunctionFingerprint(Heap, entry.of.fn) = FunctionFingerprint(Heap, world.fn))
    => SameFunction(Heap, entry.of.fn, world.fn)
=============================================================================
