----------------------------- MODULE AllowRules -----------------------------
(***************************************************************************)
(* Which requests an allow entry admits (credentials.go: allowed, covers,  *)
(* hasDotSegment, pathPattern).  A path is a sequence of characters, the   *)
(* decoded one; a pattern is what stands between its stars.  A request is  *)
(* [host, method, path], host and method with or without capitals.         *)
(***************************************************************************)
EXTENDS Integers, Sequences

\* A segment is what lies between two slashes or an end.
HasDotSegment(path) ==
    \E i, j \in 1 .. Len(path) :
        /\ i = 1 \/ path[i - 1] = "/"
        /\ j = Len(path) \/ path[j + 1] = "/"
        /\ SubSeq(path, i, j) \in {<<".">>, <<".", ".">>}

Star == ".*"

\* Mutant: the star a pattern ends with is lost.
PartTrimmed(written, part) ==
    written \o (IF written = <<>> \/ part = <<>> THEN <<>> ELSE <<Star>>) \o part

\* A part of the pattern after what was written of the expression.
Part(written, part) ==
    written \o (IF written = <<>> THEN <<>> ELSE <<Star>>) \o part

\* The expression: literal characters, and ".*" between what was written.
Written(pattern) ==
    LET written[k \in 0 .. Len(pattern)] ==
            IF k = 0 THEN <<>> ELSE Part(written[k - 1], pattern[k])
    IN  written

PathPattern(pattern) == Written(pattern)[Len(pattern)]

\* The positions of the path to which an element of the expression leads from
\* given ones; "." is any character but a newline.
Runs(path, i, j) == i =< j /\ \A k \in i + 1 .. j : path[k] # "newline"
After(from, x, path) ==
    {j \in 0 .. Len(path) :
        \E i \in from : IF x = Star THEN Runs(path, i, j) ELSE j = i + 1 /\ path[j] = x}

\* One element after the other, from the start of the path to its end.
Reached(expression, path) ==
    LET reached[k \in 0 .. Len(expression)] ==
            IF k = 0 THEN {0} ELSE After(reached[k - 1], expression[k], path)
    IN  reached

MatchString(expression, path) == Len(path) \in Reached(expression, path)[Len(expression)]

\* An entry without methods is for all of them, one without a path for any.
NoPath == <<>>
RuleCovers(entry, request) ==
    /\ entry.methods # {} => request.method.name \in entry.methods
    /\ entry.pattern # NoPath => MatchString(PathPattern(entry.pattern), request.path)

Allowed(entries, request) == entries = {} \/ \E entry \in entries : RuleCovers(entry, request)

-----------------------------------------------------------------------------
(* The same, as a reader of the entries has it *)

\* What an entry's author reads in it: its parts stand in the path in their
\* order, the first at the start and the last at the end, and a star for the
\* characters between two of them.
Placed(pattern, path) ==
    \E at \in [DOMAIN pattern -> 0 .. Len(path)] :
        LET ends(k) == at[k] + Len(pattern[k])
        IN  /\ at[1] = 0 /\ ends(Len(pattern)) = Len(path)
            /\ \A k \in DOMAIN pattern :
                 ends(k) =< Len(path) /\ SubSeq(path, at[k] + 1, ends(k)) = pattern[k]
            /\ \A k \in 2 .. Len(pattern) :
                 Runs(path, ends(k - 1), at[k])

\* Dots alone between two slashes, or at the end, are three or more.
Stays(path) ==
    \A i \in 1 .. Len(path), j \in 2 .. Len(path) + 1 :
        /\ path[i] = "/" /\ (j = Len(path) + 1 \/ path[j] = "/")
        /\ {path[k] : k \in i + 1 .. j - 1} = {"."}
        => j - i > 3

Agree(patterns, paths) ==
    /\ \A path \in paths : HasDotSegment(path) <=> ~Stays(path)
    /\ \A pattern \in patterns :
        LET expression == PathPattern(pattern)
        IN  \A path \in paths : MatchString(expression, path) <=> Placed(pattern, path)
=============================================================================
