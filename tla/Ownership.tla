----------------------------- MODULE Ownership -----------------------------
(***************************************************************************)
(* What a subtask's declared `files' mean: the glob engine (globs.go), the *)
(* test that keeps subtasks apart (overlap.go), the paths a pass expands   *)
(* and snapshots (expandFiles of executor.go, SnapshotPaths of the git     *)
(* gateway) and the test for undeclared edits (undeclared.go).             *)
(*                                                                         *)
(* A path or a pattern is the sequence of its segments between slashes, a  *)
(* segment the sequence of its characters: `src/' ends in an empty segment *)
(* and `./x' begins with the segment `.'.  Absolute patterns are left out. *)
(***************************************************************************)
EXTENDS Integers, Sequences, SequencesExt

\* A path or a pattern: at least one segment, each a sequence of characters.
IsPath(p) ==
  p \in Seq(Range(p)) /\ p # <<>> /\ \A i \in DOMAIN p : p[i] \in Seq(Range(p[i]))

Dot        == <<".">>
DotDot     == <<".", ".">>
DoubleStar == <<"*", "*">>
Wild       == {"*", "?"}

\* strings.TrimPrefix(p, "./")
normSlash(p) == IF Len(p) > 1 /\ p[1] = Dot THEN Tail(p) ELSE p

\* path.Clean and filepath.Clean, a segment at a time.
Clean(p) ==
  LET kept[i \in 0..Len(p)] ==
        IF i = 0 THEN <<>>
        ELSE LET before == kept[i - 1]
             IN  IF p[i] \in {<<>>, Dot} THEN before
                 ELSE IF p[i] = DotDot /\ before # <<>> /\ Last(before) # DotDot THEN Front(before)
                 ELSE Append(before, p[i])
  IN  IF kept[Len(p)] = <<>> THEN <<Dot>> ELSE kept[Len(p)]

Has(seg, chars) == \E i \in DOMAIN seg : seg[i] \in chars

hasGlobMeta(p) == \E i \in DOMAIN p : Has(p[i], Wild)

-----------------------------------------------------------------------------
(* The matcher.                                                            *)

\* Mutant of matchSegment: no way back to the last `*'.
matchSegment_NoBacktrack(pattern, name) ==
  LET loop[px \in Nat, nx \in Nat] ==
        CASE nx <= Len(name) /\ px <= Len(pattern) /\ pattern[px] \in {"?", name[nx]} ->
               loop[px + 1, nx + 1]
          [] px <= Len(pattern) /\ pattern[px] = "*" -> loop[px + 1, nx]
          [] OTHER -> nx > Len(name) /\ px > Len(pattern)
  IN  loop[1, 1]

\* The two-pointer loop: star is the last `*' seen (0 before), resume the
\* character of the name at which it would take one more.
matchSegment(pattern, name) ==
  LET loop[x \in Nat \X Nat \X Nat \X Nat] ==
        LET px     == x[1]
            nx     == x[2]
            star   == x[3]
            resume == x[4]
        IN  IF nx > Len(name) THEN \A i \in px..Len(pattern) : pattern[i] = "*"
            ELSE IF px <= Len(pattern) /\ pattern[px] \in {"?", name[nx]}
            THEN loop[<<px + 1, nx + 1, star, resume>>]
            ELSE IF px <= Len(pattern) /\ pattern[px] = "*"
            THEN loop[<<px + 1, nx, px, nx>>]
            ELSE star > 0 /\ loop[<<star + 1, resume + 1, star, resume + 1>>]
  IN  loop[<<1, 1, 0, 0>>]

\* `**' takes any number of segments, every other segment exactly one.
matchSegments(pat, name) ==
  LET match[x \in Nat \X Nat] ==
        LET i == x[1]
            j == x[2]
        IN  IF i > Len(pat) THEN j > Len(name)
            ELSE IF pat[i] = DoubleStar
            THEN i = Len(pat) \/ \E k \in j..Len(name) + 1 : match[<<i + 1, k>>]
            ELSE /\ j <= Len(name) /\ matchSegment(pat[i], name[j])
                 /\ match[<<i + 1, j + 1>>]
  IN  match[<<1, 1>>]

matchGlob(pattern, name) == matchSegments(normSlash(pattern), normSlash(name))

-----------------------------------------------------------------------------
(* Overlap: decided from the literal segments before the first wildcard.   *)

\* The segments before the first wildcard.
UpToWild(segs) ==
  LET first == SelectInSeq(segs, LAMBDA seg : Has(seg, Wild))
  IN  IF first = 0 THEN segs ELSE SubSeq(segs, 1, first - 1)

\* Mutant of staticPrefix: the pattern is taken as it is written.
staticPrefix_Raw(pattern) == UpToWild(normSlash(pattern))

staticPrefix(pattern) == UpToWild(Clean(normSlash(pattern)))

globsOverlap(a, b) ==
  LET pa == staticPrefix(a)
      pb == staticPrefix(b)
  IN  pa = <<>> \/ pb = <<>> \/ IsPrefix(pa, pb) \/ IsPrefix(pb, pa)

\* No declaration promises nothing: such a subtask overlaps every other one.
subtasksOverlap(a, b) ==
  \/ a = {} \/ b = {}
  \/ \E ga \in a, gb \in b : globsOverlap(ga, gb)

-----------------------------------------------------------------------------
(* What a pass reads: the declared patterns expanded against the files of  *)
(* a tree, then copied.                                                    *)

Cleaned(files) == {Clean(normSlash(p)) : p \in files} \ {<<Dot>>}

\* A pattern that leaves the root fails the pass: nothing is read.
Escapes(files) == \E p \in Cleaned(files) : p[1] = DotDot

\* A literal path stays, whether it exists or not.
expandFiles(files, tree) ==
  IF Escapes(files) THEN {}
  ELSE {p \in Cleaned(files) : ~ hasGlobMeta(p)}
         \cup {f \in tree : \E p \in Cleaned(files) : hasGlobMeta(p) /\ matchGlob(p, f)}

\* Files and directories of a tree.
Existing(tree) == UNION {{SubSeq(f, 1, n) : n \in DOMAIN f} : f \in tree}

\* filepath.Match (external) on what expandFiles leaves of a pattern: no
\* wildcard, and a class, if any, that is the whole segment.
ClassMatch(seg, name) ==
  IF Len(seg) > 2 /\ Head(seg) = "[" /\ Last(seg) = "]"
  THEN Len(name) = 1 /\ \E i \in 2..Len(seg) - 1 : seg[i] = name[1]
  ELSE seg = name

\* Mutant of resolvePatterns: a literal path must exist as a file.
resolvePatterns_FilesOnly(paths, tree) == paths \cap tree

\* Paths come in literal, but one with a bracket is a pattern here.
resolvePatterns(paths, tree) ==
  LET bracketed(p) == \E i \in DOMAIN p : Has(p[i], {"[", "]"})
      matches(p, q) == Len(p) = Len(q) /\ \A i \in DOMAIN p : ClassMatch(p[i], q[i])
  IN  {p \in paths : ~ bracketed(p)}
        \cup {q \in Existing(tree) : \E p \in paths : bracketed(p) /\ matches(p, q)}

\* The files copied: those named, and those beneath a directory that is.
Snapshotted(files, tree) ==
  LET rels == resolvePatterns(expandFiles(files, tree), tree)
  IN  {f \in tree : \E r \in rels : IsPrefix(r, f)}

-----------------------------------------------------------------------------
(* Undeclared edits.                                                       *)

collectDeclaredGlobs(files) == {normSlash(p) : p \in files} \ {<<Dot>>, << <<>> >>}

pathDeclared(f, globs) ==
  \E p \in globs : IF hasGlobMeta(p) THEN matchGlob(p, f) ELSE IsPrefix(p, f)

-----------------------------------------------------------------------------
(* Reference definitions.                                                  *)

\* A name of N symbols can be cut into pieces, one for each of P symbols of a pattern:
\* any number for those of `any', for every other one a symbol that fits.
Denoted(P, N, any, fits) ==
  \E cut \in [1..P + 1 -> 1..N + 1] :
    /\ cut[1] = 1 /\ cut[P + 1] = N + 1
    /\ \A i \in 1..P : IF i \in any THEN cut[i] <= cut[i + 1]
                       ELSE cut[i + 1] = cut[i] + 1 /\ <<i, cut[i]>> \in fits

\* `*' takes any number of characters, `?' any one, `**' any number of segments.
SegmentDenotes(pattern, name) ==
  Denoted(Len(pattern), Len(name),
          {i \in 1..Len(pattern) : pattern[i] = "*"},
          {x \in (1..Len(pattern)) \X (1..Len(name)) :
             pattern[x[1]] \in {"?", name[x[2]]}})

Denotes(pattern, name) ==
  Denoted(Len(pattern), Len(name),
          {i \in 1..Len(pattern) : pattern[i] = DoubleStar},
          {x \in (1..Len(pattern)) \X (1..Len(name)) :
             SegmentDenotes(pattern[x[1]], name[x[2]])})
=============================================================================
