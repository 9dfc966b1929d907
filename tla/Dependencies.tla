---------------------------- MODULE Dependencies ----------------------------
(***************************************************************************)
(* dependencies.py: the fingerprints of what depends_on= declares.         *)
(*                                                                         *)
(* A descriptor is [kind, name, on, source, value]:                        *)
(*   "path"     the shorthand for a file: name is its path                 *)
(*   "file"     name is its path, on is "content" or "mtime"               *)
(*   "env", "package"   name is the variable's or the distribution's       *)
(*   "token"    name, "" without one; the value, or the callable source    *)
(*   "code"     name, "" for the helper's own; source is the helper        *)
(* The world outside is env: for each path, variable, distribution and     *)
(* callable what can be read of it now,                                    *)
(*   [present, text, mtime, value]                                         *)
(* text the content or the version, value what a callable returns; not     *)
(* present is missing, unset, unreadable, or a callable that raises.       *)
(***************************************************************************)
EXTENDS Fingerprint

FileFingerprint(dep, env) ==
    LET file == env[dep.name]
    IN  IF ~file.present THEN <<"<absent>">>
        ELSE IF dep.on = "content" THEN Digest(file.text)
        ELSE <<file.mtime, ":", ToString(Len(file.text))>>

\* A bug: an empty variable reads like an unset one.
EnvFingerprintIfNotEmpty(dep, env) ==
    IF env[dep.name].text = << >> THEN <<"<unset>">> ELSE <<"v:">> \o env[dep.name].text

EnvFingerprint(dep, env) ==
    IF ~env[dep.name].present THEN <<"<unset>">> ELSE <<"v:">> \o env[dep.name].text

PackageFingerprint(dep, env) ==
    IF ~env[dep.name].present THEN <<"<absent>">> ELSE env[dep.name].text

Resolved(dep, env) == IF dep.source # "" THEN env[dep.source].value ELSE dep.value

\* fingerprint() of a token raises when its callable does, or when what it
\* returns cannot be hashed; the others have a sentinel and never raise.
Raises(dep, env) ==
    /\ dep.kind = "token"
    /\ \/ dep.source # "" /\ ~env[dep.source].present
       \/ ~Hashable(Resolved(dep, env))

CodeFingerprint(heap, dep) == FunctionFingerprint(heap, UnwrapFunction(heap, dep.source))

FingerprintOf(heap, dep, env) ==
    CASE dep.kind = "file" -> FileFingerprint(dep, env)
      [] dep.kind = "env" -> EnvFingerprint(dep, env)
      [] dep.kind = "package" -> PackageFingerprint(dep, env)
      [] dep.kind = "token" -> DigestValue(Resolved(dep, env))
      [] dep.kind = "code" -> CodeFingerprint(heap, dep)

Coerce(spec) == IF spec.kind = "path" THEN [spec EXCEPT !.kind = "file", !.on = "content"] ELSE spec

\* The name its fingerprint is stored under: an unnamed token has its position.
Label(heap, dep, index) ==
    CASE dep.kind = "token" /\ dep.name = "" -> <<"token", "[", ToString(index - 1), "]">>
      [] dep.kind = "code" /\ dep.name = "" ->
            <<"code", ":">> \o heap[UnwrapFunction(heap, dep.source)].namespace
      [] OTHER -> <<dep.kind, ":", dep.name>>

Labels(heap, dependsOn) ==
    [i \in DOMAIN dependsOn |-> Label(heap, Coerce(dependsOn[i]), i)]

\* normalize_dependencies() raises at decoration unless the labels are distinct.
NormalizeDependencies(heap, dependsOn) ==
    [declared |-> IsInjective(Labels(heap, dependsOn)),
     labeled  |-> [i \in DOMAIN dependsOn |->
                     [label |-> Labels(heap, dependsOn)[i], dependency |-> Coerce(dependsOn[i])]]]

\* The map stored in the entry; without dependencies it is None, which
\* changed_labels reads as the empty map.
FingerprintDependencies(heap, labeled, env) ==
    LET at(l) == CHOOSE i \in DOMAIN labeled : labeled[i].label = l
    IN  [l \in {labeled[i].label : i \in DOMAIN labeled} |->
            FingerprintOf(heap, labeled[at(l)].dependency, env)]

\* A bug: a dependency declared after the entry was stored is not compared.
ChangedLabelsOfStored(stored, current) ==
    {l \in DOMAIN stored : l \notin DOMAIN current \/ stored[l] # current[l]}

ChangedLabels(stored, current) ==
    {l \in DOMAIN stored \union DOMAIN current :
        l \notin DOMAIN stored \intersect DOMAIN current \/ stored[l] # current[l]}

----------------------------------------------------------------------------
(***************************************************************************)
(* What the map stands for: every label describes the same resource state. *)
(* A file declared on="mtime" is described by its time and size only, the  *)
(* heuristic its docstring warns of.                                       *)
(***************************************************************************)

SameState(heap, dep, env, other, otherEnv) ==
    /\ dep.kind = other.kind
    /\ CASE dep.kind = "token" -> Alike(Resolved(dep, env), Resolved(other, otherEnv))
         [] dep.kind = "code" -> SameFunction(heap, UnwrapFunction(heap, dep.source),
                                                    UnwrapFunction(heap, other.source))
         [] OTHER ->
              LET a == env[dep.name]
                  b == otherEnv[other.name]
              IN  /\ dep.name = other.name /\ a.present = b.present
                  /\ a.present =>
                        IF dep.on = "mtime" \/ other.on = "mtime"
                        THEN dep.on = other.on /\ a.mtime = b.mtime /\ Len(a.text) = Len(b.text)
                        ELSE a.text = b.text

SameResources(heap, labeled, env, others, otherEnv) ==
    /\ {labeled[i].label : i \in DOMAIN labeled} = {others[i].label : i \in DOMAIN others}
    /\ \A i \in DOMAIN labeled, j \in DOMAIN others :
          labeled[i].label = others[j].label =>
             SameState(heap, labeled[i].dependency, env, others[j].dependency, otherEnv)
=============================================================================
