---------------------------- MODULE ContextPack ----------------------------
(***************************************************************************)
(* The context packs of condition C1 (support/context_pack.py) as          *)
(* functions of what retrieval found.  Files are numbered in the order of  *)
(* their paths.  Lengths are in characters: a pack records how many the    *)
(* code counted against the budget, how many it has, and its blocks.       *)
(***************************************************************************)
EXTENDS Integers, Sequences, FiniteSets, SequencesExt

CONSTANTS
    Budget,   \* token_budget * _CHARS_PER_TOKEN
    TopK,     \* source blocks of a v2 pack (5 in the code)
    TopTests, \* test blocks of a v2 pack (2 in the code)
    MaxHits,  \* files grep_files names (40 in the code)
    MaxFiles, \* files a v1 pack lists (60 in the code)
    Header,   \* length of the lines before the first block
    Heading,  \* length of a section heading
    NameLine  \* length of a line that names a file

\* hits: occurrences of the query terms in the part of the file that is read;
\* found: some term occurs in the file; size: length of the block the best
\* snippet renders to, 0 for a file that cannot be read.
File == [hits : Nat, found : BOOLEAN, size : Nat, test : BOOLEAN]

ASSUME PackAssumption ==
    {Budget, TopK, TopTests, MaxHits, MaxFiles, Header, Heading, NameLine} \subseteq Nat

Pack(kind, used, length, blocks, full) ==
    [kind |-> kind, used |-> used, length |-> length, blocks |-> blocks, full |-> full]

\* "\n".join gives each further line one character; the pack ends with another.
Start(kind) == Pack(kind, Header, Header + 1, <<>>, FALSE)

\* A section heading is appended and not counted; its section starts afresh.
WithHeading(p) == [p EXCEPT !.length = @ + Heading + 1, !.full = FALSE]

\* Mutant: the block is appended before the budget is looked at.
EmitFirst(p, f, size) ==
    IF p.full \/ size = 0 THEN p
    ELSE Pack(p.kind, p.used + size + 1, p.length + size + 2, Append(p.blocks, f),
              p.used + size > Budget)

\* _emit_block: a block and an empty line, of which one newline is counted.
\* A file without lines is passed over; the first that does not fit ends its
\* section.
Emit(p, f, size) ==
    IF p.full \/ size = 0 THEN p
    ELSE IF p.used + size > Budget THEN [p EXCEPT !.full = TRUE]
    ELSE Pack(p.kind, p.used + size + 1, p.length + size + 2, Append(p.blocks, f), FALSE)

Score(f) == IF f.test THEN f.hits \div 2 ELSE f.hits

\* The sort key is (-score, path).
Before(files, f, g) ==
    \/ Score(files[f]) > Score(files[g])
    \/ Score(files[f]) = Score(files[g]) /\ f < g

\* How many files of S come before f.
Place(files, S, f) == Cardinality({g \in S : Before(files, g, f)})

\* The first n of S when it is sorted.
Best(files, S, n) ==
    LET m == IF Cardinality(S) < n THEN Cardinality(S) ELSE n
    IN  [i \in 1 .. m |-> CHOOSE f \in S : Place(files, S, f) = i - 1]

\* The blocks of the files of s, one after the other.
EmitAll(files, p, s) ==
    LET after[n \in 0 .. Len(s)] ==
            IF n = 0 THEN p ELSE Emit(after[n - 1], s[n], files[s[n]].size)
    IN  after[Len(s)]

\* The map of names, for an issue without a query term.
BuildContextPack(files) ==
    LET n    == IF Len(files) < MaxFiles THEN Len(files) ELSE MaxFiles
        more == IF n = MaxFiles THEN 1 ELSE 0
    IN  Pack("v1", 0, Header + 1 + (n + more) * (NameLine + 1), <<>>, FALSE)

\* The first files, by path, that a term occurs in.
CandidateFiles(files) ==
    LET found == {f \in DOMAIN files : files[f].found}
    IN  {f \in found : Cardinality({g \in found : g < f}) < MaxHits}

BuildContextPackV2(files, terms) ==
    LET scored == {f \in CandidateFiles(files) : files[f].size > 0}
        tests  == {f \in scored : files[f].test}
        src    == Best(files, scored \ tests, TopK)
        top    == EmitAll(files, WithHeading(Start("v2")), src)
    IN  IF ~terms THEN BuildContextPack(files)
        ELSE IF tests = {} THEN top
        ELSE EmitAll(files, WithHeading(top), Best(files, tests, TopTests))

\* order: the files as rng.shuffle left them.
BuildRandomContextPack(files, order) == EmitAll(files, Start("random"), order)

=============================================================================
