------------------------------ MODULE DrvTrees ------------------------------
(***************************************************************************)
(* Reference definitions and small universes of derivations for the model  *)
(* checker.  Modulo computes the hash of a derivation by walking the whole *)
(* tree below it, which the stores never do: they keep the replacements of *)
(* what has been Put before.                                               *)
(***************************************************************************)
EXTENDS Derivation, FiniteSets

DrvAt(p, world) == CHOOSE d \in world : DrvPath(d) = p

\* The hash of d with its inputs replaced by their hashes, recursively;
\* masked when it is to give the paths of d itself.
RECURSIVE Modulo(_, _, _)
Modulo(d, masked, world) ==
  LET hash == [p \in DOMAIN d.inputs |-> Modulo(DrvAt(p, world), FALSE, world)]
      keys == {hash[p] : p \in DOMAIN d.inputs}
      inputs == [k \in keys |-> UNION {d.inputs[p] : p \in {q \in DOMAIN hash : hash[q] = k}}]
  IN  IF ~ masked /\ DOMAIN d.outputs = {"out"} /\ IsFixed(d.outputs["out"])
      THEN LET o == d.outputs["out"] IN Hex(<<"fixed", o.algo, o.hash, o.path>>)
      ELSE Hex(<<"aterm", <<IF masked THEN Strip(d.outputs) ELSE d.outputs, inputs,
                        IF masked THEN Blank(d) ELSE d.env, d.rest, d.name>>>>)

RightPath(d, n, world) ==
  LET o == d.outputs[n]
  IN  [name |-> OutputName(d, n),
       digest |-> IF IsFixed(o) THEN <<"fixed", o.algo, o.hash>>
                  ELSE <<"output", n, Modulo(d, TRUE, world).digest[2]>>]

\* Whether every path of d is right, given a world that holds all below it.
IsRight(d, world) ==
  \A n \in DOMAIN d.outputs : d.outputs[n].path = RightPath(d, n, world)

At(d, path) == [d EXCEPT !.outputs = [n \in DOMAIN d.outputs |-> [@[n] EXCEPT !.path = path[n]]],
                         !.env = path]

\* A derivation with the outputs outs of which every path is right.
Make(name, outs, algo, hash, inputs, rest, world) ==
  LET draft == [name |-> name,
                outputs |-> [n \in outs |-> [path |-> NoPath, algo |-> algo, hash |-> hash]],
                inputs |-> inputs, env |-> [n \in outs |-> NoPath], rest |-> rest,
                args |-> "split"]
  IN  At(draft, [n \in outs |-> RightPath(draft, n, world)])

NoInputs == NoReplacements

Uses(ds, outs) == [p \in {DrvPath(d) : d \in ds} |-> outs]

\* A derivation with a path that belongs to another.
Misplaced(d, other) == [d EXCEPT !.outputs["out"].path = other.outputs["out"].path]
-----------------------------------------------------------------------------
(* A small world: sources, a library, a program that uses both.            *)

Source == Make("source", {"out"}, "sha256", "h1", NoInputs, "mirror1", {})
Patch == Make("patch", {"out"}, "sha256", "h2", NoInputs, "mirror1", {})
Tool == Make("tool", {"out"}, "", "", NoInputs, "build", {})
Ground == {Source, Patch, Tool}

Lib == Make("lib", {"out", "dev"}, "", "", Uses({Source}, {"out"}), "build", Ground)
Vendored == Make("vendored", {"out"}, "sha256", "h3", Uses({Source, Tool}, {"out"}), "build", Ground)
Prog == Make("prog", {"out"}, "", "", Uses({Lib}, {"dev"}), "build", Ground \cup {Lib})

Chain == Ground \cup {Lib, Vendored, Prog}

\* Derivations that no store should take.
Wrong == {Misplaced(Tool, Prog), Misplaced(Source, Patch), Misplaced(Prog, Tool),
          [Prog EXCEPT !.name = NoName],
          [Vendored EXCEPT !.inputs = Uses({Source}, {})]}

\* A derivation whose variable name is there and empty.
Anonymous == [Tool EXCEPT !.name = ""]

\* A derivation of the same text as another, whose arguments are others.
Twin == [Tool EXCEPT !.args = "joined"]

\* A program of several inputs.
Suite == Make("suite", {"out"}, "", "",
              [p \in {DrvPath(Lib), DrvPath(Tool)} |-> IF p = DrvPath(Lib) THEN {"out", "dev"} ELSE {"out"}],
              "build", Chain)

\* Two derivations that fetch the same source, what is built from each of
\* them, and programs that use an output of one and another of the other.
Mirror == [Source EXCEPT !.rest = "mirror2"]
Copy == Make("lib", {"out", "dev"}, "", "", Uses({Mirror}, {"out"}), "build", {Mirror})

Mixed ==
  LET inputs == [p \in {DrvPath(Lib), DrvPath(Copy)} |-> IF p = DrvPath(Lib) THEN {"dev"} ELSE {"out"}]
      same == Modulo(Lib, FALSE, Ground)
      draft == [Prog EXCEPT !.inputs = inputs]
      paths == OutputPaths(draft, "out", [p \in DOMAIN inputs |-> same])
  IN  {At(draft, [n \in {"out"} |-> q]) : q \in paths}

Mirrored == {Source, Mirror, Lib, Copy} \cup Mixed

\* Their replacements, and those of them that are right, by the walk.
TreeHash(ds) == [p \in {DrvPath(d) : d \in ds} |-> Modulo(DrvAt(p, ds), FALSE, Chain \cup {Suite})]

RightOf(ds) == {d \in ds : Validate(d) /\ IsRight(d, Chain \cup {Suite})}

WalkSolves(ds) ==
  /\ Solves(TreeHash(ds), ds)
  /\ RightBy(TreeHash(ds), ds) = RightOf(ds)
=============================================================================
