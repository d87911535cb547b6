------------------------------ MODULE Symbols ------------------------------
(***************************************************************************)
(* How the profiler names the functions of a stripped program              *)
(* (profile.rs): an exact map of a byte-identical build, a corpus of code  *)
(* shapes, another build of the same source, or a symbol file.  A function *)
(* is what the program's source calls it; a build lays functions out at    *)
(* addresses; a shape is a hash of code that different functions may       *)
(* share.  The folded stacks carry names of their own, renamed beside the  *)
(* functions in every pass.                                                *)
(***************************************************************************)
EXTENDS Naturals, FiniteSets, FiniteSetsExt, Functions

CONSTANTS
    Pcs,         \* the addresses functions start at
    Entry,       \* the entrypoint's
    Source,      \* the functions of the source besides the entrypoint
    Shapes,      \* the code shapes (Shape::full)
    Coarse(_),   \* the opcode-only shape of a shape
    MaxPasses    \* most naming passes after the first two

ASSUME SymbolsAssumption == Entry \in Pcs /\ Pcs \subseteq Nat /\ MaxPasses \in Nat

VARIABLES
    loaded,    \* the build that ran: its functions by address, or nothing
    shape,     \* the shape of every source function
    label,     \* the name the profile gives the function at an address
    stacks,    \* the name its folded stacks give it
    merged,    \* ghost: a pass met two functions under one name it could change
    passes

syVars == <<loaded, shape, label, stacks, merged, passes>>

\* A name: the entrypoint's own, a symbol, a likeness, or function_<pc>.
Sym(f)  == [kind |-> "symbol", of |-> f]
Like(f) == [kind |-> "like", of |-> f]
Anon(pc) == [kind |-> "function_", of |-> pc]
EntryName == Sym(Entry)

All == Source \cup {Entry}
Layouts == {b \in [Pcs -> All] : IsInjective(b)}
ShapeAt(b, pc) == shape[b[pc]]

SymbolsInit ==
    /\ loaded = <<>> /\ shape = <<>> /\ label = <<>> /\ stacks = <<>>
    /\ merged = FALSE /\ passes = 0

(***************************************************************************)
(* A renaming: what the map from old names to new ones, filled function by *)
(* function, does to the stacks.  Two functions of one old name leave only *)
(* the later entry.                                                        *)
(***************************************************************************)
Renamed(name, new, old) ==
    LET at == {pc \in Pcs : label[pc] = name /\ new[pc] # label[pc]}
    IN  IF at = {} THEN name ELSE new[Max(at)]

\* mutant: a pass renames the functions and forgets the stacks
RenameTable(new) == label' = new /\ UNCHANGED stacks

Rename(new) ==
    /\ label' = new
    /\ stacks' = [pc \in Pcs |-> Renamed(stacks[pc], new, label)]

\* The unique name of a set of candidates, if it is unique.
Unique(names) == Cardinality(names) = 1
Only(names) == CHOOSE f \in names : TRUE

\* symbolize_from_corpus: a function that is still anonymous gets the one name
\* its exact shape has in the corpus, else the one its opcodes have, marked as
\* a likeness.  Short functions are alike everywhere and have no exact entry.
CorpusName(corpus, sh, old) ==
    LET exact == {x.of : x \in {x \in corpus : x.long /\ x.shape = sh}}
        near  == {x.of : x \in {x \in corpus : Coarse(x.shape) = Coarse(sh)}}
    IN  IF old.kind # "function_" THEN old
        ELSE IF Unique(exact) THEN Sym(Only(exact))
        ELSE IF Unique(near) THEN Like(Only(near))
        ELSE old

Corpora == UNION {kSubset(n, [shape : Shapes, of : Source, long : BOOLEAN]) : n \in 0..2}

\* exact_from_build: the names of the build whose stripped hash the program has.
ExactMap(b) == [pc \in Pcs |-> Sym(b[pc])]

\* Replay::profile: the trace's names, the exact map when the hash is that of
\* the very build, then the bundled corpus.
Profiled(b, sh, exact, corpus) ==
    LET first(pc) == IF exact THEN ExactMap(b)[pc]
                     ELSE IF pc = Entry THEN EntryName ELSE Anon(pc)
    IN  /\ loaded = <<>> /\ b[Entry] = Entry
        /\ loaded' = b /\ shape' = sh
        /\ label' = [pc \in Pcs |-> CorpusName(corpus, sh[b[pc]], first(pc))]
        /\ stacks' = label'
        /\ UNCHANGED <<merged, passes>>

Pass == loaded # <<>> /\ passes < MaxPasses /\ passes' = passes + 1 /\ UNCHANGED <<loaded, shape>>

ByCorpus(corpus) ==
    /\ Pass
    /\ Rename([pc \in Pcs |-> CorpusName(corpus, ShapeAt(loaded, pc), label[pc])])
    /\ UNCHANGED merged

\* symbolize_map: names by address.
ByAddress(b) ==
    /\ Rename(ExactMap(b))
    /\ merged' = (merged \/ ~IsInjective(label))

\* The functions named "entrypoint".  A pass looks at the first of them in the
\* table's order (self_insns, then pc), which may be any: it is the program's
\* own until a pass by shape gives its name away, or gives it another.
Entered == {pc \in Pcs : label[pc] = EntryName}

\* A symbol file whose entrypoint is not where the program's ran is refused; a
\* program none of whose functions is named so takes any file.
Symbolize(b) ==
    /\ Pass
    /\ Entered = {} \/ \E first \in Entered : b[first] = Entry
    /\ ByAddress(b)

\* symbolize_from_build: by address when the entrypoint has the same shape at
\* the same pc; else by shape, by opcodes, or by the nearest histogram --
\* which may pick any candidate, or none.
SameBuild(b, sh, first) == b[first] = Entry /\ sh[Entry] = ShapeAt(loaded, first)

ShapeName(b, sh, near, pc) ==
    LET exact == {b[x] : x \in {x \in Pcs : sh[b[x]] = ShapeAt(loaded, pc)}}
        ops == {b[x] : x \in {x \in Pcs : Coarse(sh[b[x]]) = Coarse(ShapeAt(loaded, pc))}}
    IN  IF label[pc].kind # "function_" /\ label[pc] # EntryName THEN label[pc]
        ELSE IF Unique(exact) THEN Sym(Only(exact))
        ELSE IF Unique(ops) THEN Sym(Only(ops))
        ELSE IF near THEN Sym(b[pc])
        ELSE label[pc]

ByShape(b, sh, near) ==
    /\ Rename([pc \in Pcs |-> ShapeName(b, sh, near, pc)])
    /\ merged' = (merged \/ \E p, q \in Entered : p # q)

FromBuild(b, sh, near) ==
    /\ Pass
    /\ \/ (\E first \in Entered : SameBuild(b, sh, first)) /\ ByAddress(b)
       \/ /\ Entered = {} \/ \E first \in Entered : ~SameBuild(b, sh, first)
          /\ ByShape(b, sh, near)

ShapeMaps == [All -> Shapes]
SymbolsNext ==
    \/ \E b \in Layouts, sh \in ShapeMaps, exact \in BOOLEAN, corpus \in Corpora :
          Profiled(b, sh, exact, corpus)
    \/ \E corpus \in Corpora : ByCorpus(corpus)
    \/ \E b \in Layouts : Symbolize(b)
    \/ \E b \in Layouts, sh \in ShapeMaps, near \in BOOLEAN : FromBuild(b, sh, near)

\* The folded stacks name every function as the function table does, unless a
\* pass met two functions under one name it could change -- any name, in a pass
\* by address; "entrypoint", in a pass by shape: the renaming is keyed by the
\* old name and gives both the later one's.
StacksNamed == loaded # <<>> /\ ~merged => stacks = label
=============================================================================
