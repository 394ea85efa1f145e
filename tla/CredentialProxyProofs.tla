----------------------- MODULE CredentialProxyProofs -----------------------
(* Proofs about AllowRules, for every pattern and every path: what         *)
(* pathPattern compiles matches the paths in which the parts of the        *)
(* pattern stand around its stars, and hasDotSegment is about the segments *)
(* of one or two dots.  Proofs about CredentialProxy, for every set of     *)
(* requests and credentials and every limit.                               *)
EXTENDS CredentialProxy, SequenceTheorems, WellFoundedInduction, FiniteSetTheorems, TLAPS

-----------------------------------------------------------------------------
(* Induction on concrete sets of numbers *)

\* A set of numbers that is not empty has a least one.
LEMMA LeastOf ==
    ASSUME NEW S \in SUBSET Nat, S # {}
    PROVE  \E least \in S : \A n \in S : least =< n
<1> DEFINE R == OpToRel(<, Nat)
<1>1. IsWellFoundedOn(R, Nat)
    BY NatLessThanWellFounded
<1>2. \A a, b \in Nat : a < b => <<a, b>> \in R
    BY DEF OpToRel
<1> HIDE DEF R
<1>3. PICK least \in S : \A y \in S : ~(<<y, least>> \in R)
    BY <1>1, WFMin
<1>4. \A y \in S : ~(y < least)
    BY <1>2, <1>3
<1> QED
    BY <1>4

\* What holds of 0 and of every successor holds of all up to a limit.
LEMMA UpTo ==
    ASSUME NEW L \in Nat, NEW S, 0 \in S, \A n \in 1 .. L : n - 1 \in S => n \in S
    PROVE  0 .. L \subseteq S
<1> SUFFICES ASSUME (0 .. L) \ S # {} PROVE FALSE
    OBVIOUS
<1>0. (0 .. L) \ S \in SUBSET Nat
    OBVIOUS
<1>1. PICK least \in (0 .. L) \ S : \A n \in (0 .. L) \ S : least =< n
    BY <1>0, LeastOf
<1>2. least \in 1 .. L /\ least - 1 \in 0 .. L
    BY <1>1
<1>3. least - 1 \in S
    BY <1>1, <1>2
<1> QED
    BY <1>1, <1>2, <1>3

\* A loop over 1 .. L that turns one value of X into the next has a history.
Loops(X, base, L, step) ==
    \E f \in [0 .. L -> X] : f[0] = base /\ \A k \in 1 .. L : f[k] = step[k][f[k - 1]]

LEMMA LoopRuns ==
    ASSUME NEW X, NEW base \in X, NEW L \in Nat, NEW step \in [1 .. L -> [X -> X]]
    PROVE  Loops(X, base, L, step)
<1> DEFINE Run(n, f) == f[0] = base /\ \A k \in 1 .. n : f[k] = step[k][f[k - 1]]
           S == {n \in 0 .. L : \E f \in [0 .. n -> X] : Run(n, f)}
<1>1. 0 \in S
    <2> DEFINE f == [k \in 0 .. 0 |-> base]
    <2>1. Run(0, f) /\ f \in [0 .. 0 -> X] /\ 0 \in 0 .. L
        OBVIOUS
    <2> HIDE DEF f, Run
    <2> QED
        BY <2>1
<1>2. ASSUME NEW n \in 1 .. L, n - 1 \in S PROVE n \in S
    <2>1. PICK f \in [0 .. n - 1 -> X] : Run(n - 1, f)
        BY <1>2
    <2> DEFINE g == [k \in 0 .. n |-> IF k = n THEN step[n][f[n - 1]] ELSE f[k]]
    <2>2. f[n - 1] \in X /\ step[n][f[n - 1]] \in X
        OBVIOUS
    <2>3. g \in [0 .. n -> X]
        BY <2>2
    <2>4. ASSUME NEW k \in 1 .. n PROVE g[k] = step[k][g[k - 1]]
        <3>1. g[k - 1] = f[k - 1]
            OBVIOUS
        <3>2. CASE k = n
            <4>1. g[n] = step[n][f[n - 1]]
                OBVIOUS
            <4> HIDE DEF g
            <4> QED
                BY <3>1, <3>2, <4>1
        <3>3. CASE k \in 1 .. n - 1
            BY <2>1, <3>1, <3>3
        <3> QED
            BY <3>2, <3>3
    <2>5. g[0] = base
        BY <2>1
    <2>6. Run(n, g)
        BY <2>4, <2>5
    <2> HIDE DEF g, Run
    <2> QED
        BY <2>3, <2>6
<1>3. 0 .. L \subseteq S
    <2> HIDE DEF S
    <2> QED
        BY <1>1, <1>2, UpTo
<1>4. PICK f \in [0 .. L -> X] : Run(L, f)
    BY <1>3
<1> QED
    BY <1>4 DEF Loops

-----------------------------------------------------------------------------
(* pathPattern and the matching of its expression, step by step *)

Characters == STRING \ {Star}
Expressions == Seq(Characters \cup {Star})

LEMMA PartIsExpression ==
    ASSUME NEW written \in Expressions, NEW part \in Seq(Characters)
    PROVE  Part(written, part) \in Expressions
<1>1. <<Star>> \in Expressions /\ <<>> \in Expressions /\ part \in Expressions
    BY DEF Expressions
<1>2. (IF written = <<>> THEN <<>> ELSE <<Star>>) \in Expressions
    BY <1>1
<1> HIDE DEF Expressions
<1>3. \A u, v \in Expressions : u \o v \in Expressions
    BY DEF Expressions
<1> QED
    BY <1>1, <1>2, <1>3 DEF Part

LEMMA WrittenSteps ==
    ASSUME NEW pattern \in Seq(Seq(Characters))
    PROVE  /\ Written(pattern)[0] = <<>>
           /\ \A k \in 1 .. Len(pattern) :
                Written(pattern)[k] = Part(Written(pattern)[k - 1], pattern[k])
           /\ \A k \in 0 .. Len(pattern) : Written(pattern)[k] \in Expressions
<1> DEFINE L == Len(pattern)
           step == [k \in 1 .. L |-> [w \in Expressions |-> Part(w, pattern[k])]]
           IsWritten(f) == f = [k \in 0 .. L |-> IF k = 0 THEN <<>> ELSE Part(f[k - 1], pattern[k])]
           W == Written(pattern)
<1>1. L \in Nat /\ <<>> \in Expressions /\ \A k \in 1 .. L : pattern[k] \in Seq(Characters)
    BY DEF Expressions
<1>2. step \in [1 .. L -> [Expressions -> Expressions]]
    BY <1>1, PartIsExpression
<1>3. PICK f \in [0 .. L -> Expressions] :
            f[0] = <<>> /\ \A k \in 1 .. L : f[k] = step[k][f[k - 1]]
    <2> HIDE DEF step, L
    <2>1. Loops(Expressions, <<>>, L, step)
        BY <1>1, <1>2, LoopRuns
    <2> QED
        BY <2>1 DEF Loops
<1>4. \A k \in 0 .. L : f[k] \in Expressions
    BY <1>3
<1>5. \A k \in 1 .. L : step[k][f[k - 1]] = Part(f[k - 1], pattern[k])
    BY <1>1, <1>4
<1>6. IsWritten(f)
    <2> HIDE DEF step, L
    <2>1. \A k \in 0 .. L : f[k] = IF k = 0 THEN <<>> ELSE Part(f[k - 1], pattern[k])
        BY <1>1, <1>3, <1>5
    <2> QED
        BY <1>3, <2>1
<1>7. W = CHOOSE g : IsWritten(g)
    BY DEF Written
<1>8. IsWritten(W)
    <2> HIDE DEF IsWritten, W
    <2> QED
        BY <1>6, <1>7
<1>9. \A k \in 0 .. L : W[k] \in Expressions
    <2> DEFINE S == {k \in 0 .. L : W[k] \in Expressions}
    <2>1. 0 \in S
        BY <1>1, <1>8
    <2>2. \A k \in 1 .. L : k - 1 \in S => k \in S
        <3> SUFFICES ASSUME NEW k \in 1 .. L, W[k - 1] \in Expressions PROVE W[k] \in Expressions
            OBVIOUS
        <3>1. W[k] = Part(W[k - 1], pattern[k])
            <4> HIDE DEF W, L
            <4> QED
                BY <1>1, <1>8
        <3> QED
            BY <1>1, <3>1, PartIsExpression
    <2> HIDE DEF S
    <2>3. 0 .. L \subseteq S
        BY <1>1, <2>1, <2>2, UpTo
    <2> QED
        BY <2>3 DEF S
<1> QED
    BY <1>1, <1>8, <1>9

LEMMA ReachedSteps ==
    ASSUME NEW expression, Len(expression) \in Nat, NEW path, Len(path) \in Nat
    PROVE  /\ Reached(expression, path)[0] = {0}
           /\ \A k \in 1 .. Len(expression) :
                Reached(expression, path)[k] = After(Reached(expression, path)[k - 1], expression[k], path)
           /\ \A k \in 0 .. Len(expression) : Reached(expression, path)[k] \in SUBSET (0 .. Len(path))
<1> DEFINE L == Len(expression)
           Ends == SUBSET (0 .. Len(path))
           step == [k \in 1 .. L |-> [ends \in Ends |-> After(ends, expression[k], path)]]
           IsReached(f) == f = [k \in 0 .. L |-> IF k = 0 THEN {0} ELSE After(f[k - 1], expression[k], path)]
           R == Reached(expression, path)
<1>1. L \in Nat /\ {0} \in Ends
    OBVIOUS
<1>2. \A from, x : After(from, x, path) \in Ends
    BY DEF After
<1>3. step \in [1 .. L -> [Ends -> Ends]]
    BY <1>2
<1>4. PICK f \in [0 .. L -> Ends] : f[0] = {0} /\ \A k \in 1 .. L : f[k] = step[k][f[k - 1]]
    <2> HIDE DEF step, L, Ends
    <2>1. Loops(Ends, {0}, L, step)
        BY <1>1, <1>3, LoopRuns
    <2> QED
        BY <2>1 DEF Loops
<1>5. \A k \in 1 .. L : step[k][f[k - 1]] = After(f[k - 1], expression[k], path)
    <2> SUFFICES ASSUME NEW k \in 1 .. L PROVE step[k][f[k - 1]] = After(f[k - 1], expression[k], path)
        OBVIOUS
    <2>1. f[k - 1] \in Ends
        <3> HIDE DEF Ends, L
        <3> QED
            BY <1>1, <1>4
    <2> HIDE DEF Ends, L
    <2> QED
        BY <2>1
<1>6. IsReached(f)
    <2> HIDE DEF step, L, Ends
    <2>1. \A k \in 0 .. L : f[k] = IF k = 0 THEN {0} ELSE After(f[k - 1], expression[k], path)
        BY <1>1, <1>4, <1>5
    <2> QED
        BY <1>4, <2>1
<1>7. R = CHOOSE g : IsReached(g)
    BY DEF Reached
<1>8. IsReached(R)
    <2> HIDE DEF IsReached, R
    <2> QED
        BY <1>6, <1>7
<1> HIDE DEF R, L, Ends
<1>9. \A k \in 0 .. L : R[k] \in Ends
    BY <1>1, <1>2, <1>8
<1>10. R[0] = {0} /\ \A k \in 1 .. L : R[k] = After(R[k - 1], expression[k], path)
    <2>1. \A k \in 0 .. L : R[k] = IF k = 0 THEN {0} ELSE After(R[k - 1], expression[k], path)
        BY <1>8
    <2>2. 0 \in 0 .. L /\ \A k \in 1 .. L : k \in 0 .. L /\ k # 0
        BY <1>1
    <2> HIDE DEF IsReached
    <2> QED
        BY <2>1, <2>2
<1> QED
    BY <1>9, <1>10 DEF R, L, Ends

\* What stands after an expression does not change where its elements lead.
LEMMA ReachedBefore ==
    ASSUME NEW before \in Expressions, NEW after \in Expressions, NEW path, Len(path) \in Nat,
           NEW k \in 0 .. Len(before)
    PROVE  Reached(before \o after, path)[k] = Reached(before, path)[k]
<1> DEFINE whole == before \o after
           R == Reached(whole, path)
           B == Reached(before, path)
           S == {i \in 0 .. Len(before) : R[i] = B[i]}
<1>1. /\ Len(before) \in Nat /\ Len(whole) \in Nat /\ Len(before) =< Len(whole)
      /\ \A i \in 1 .. Len(before) : whole[i] = before[i]
    BY DEF Expressions
<1>2. 0 \in S
    <2>1. R[0] = {0}
        <3> HIDE DEF whole
        <3> QED
            BY <1>1, ReachedSteps
    <2>2. B[0] = {0}
        BY <1>1, ReachedSteps
    <2>3. 0 \in 0 .. Len(before)
        BY <1>1
    <2>4. R[0] = B[0]
        BY <2>1, <2>2
    <2> HIDE DEF R, B
    <2> QED
        BY <2>3, <2>4
<1>3. ASSUME NEW i \in 1 .. Len(before), i - 1 \in S PROVE i \in S
    <2>1. R[i] = After(R[i - 1], whole[i], path) /\ B[i] = After(B[i - 1], before[i], path)
        <3> HIDE DEF whole
        <3>1. i \in 1 .. Len(whole)
            BY <1>1
        <3> QED
            BY <1>1, <3>1, ReachedSteps
    <2>2. R[i - 1] = B[i - 1]
        BY <1>3
    <2> HIDE DEF R, B, whole
    <2> QED
        BY <1>1, <2>1, <2>2
<1>4. 0 .. Len(before) \subseteq S
    <2> HIDE DEF S
    <2> QED
        BY <1>1, <1>2, <1>3, UpTo
<1> QED
    BY <1>4

-----------------------------------------------------------------------------
(* The parts of a pattern *)

\* The part stands in the path after position i.
StandsAt(part, path, i) == \A x \in 1 .. Len(part) : path[i + x] = part[x]

\* Where the whole expression leads from the start of the path.
EndsOf(expression, path) == Reached(expression, path)[Len(expression)]

\* Literal characters lead from where the part stands to where it ends.
LEMMA LiteralsStand ==
    ASSUME NEW before \in Expressions, NEW part \in Seq(Characters), NEW path, Len(path) \in Nat
    PROVE  EndsOf(before \o part, path) =
             {j \in 0 .. Len(path) : \E i \in EndsOf(before, path) :
                j = i + Len(part) /\ StandsAt(part, path, i)}
<1> DEFINE whole == before \o part
           R == Reached(whole, path)
           b == Len(before)
           From == EndsOf(before, path)
           Stood(n) == {j \in 0 .. Len(path) : \E i \in From :
                          j = i + n /\ \A x \in 1 .. n : path[i + x] = part[x]}
           S == {n \in 0 .. Len(part) : R[b + n] = Stood(n)}
<1>1. /\ b \in Nat /\ Len(part) \in Nat /\ Len(whole) = b + Len(part)
      /\ \A x \in 1 .. Len(part) : whole[b + x] = part[x] /\ part[x] # Star
      /\ part \in Expressions
    BY DEF Expressions, Characters
<1>2. R[b] = From /\ From \in SUBSET (0 .. Len(path))
    BY <1>1, ReachedBefore, ReachedSteps DEF EndsOf
<1>3. ASSUME NEW n \in 1 .. Len(part)
      PROVE  R[b + n] = After(R[b + (n - 1)], part[n], path)
    <2>1. b + n \in 1 .. Len(whole) /\ (b + n) - 1 = b + (n - 1) /\ whole[b + n] = part[n]
        BY <1>1
    <2> HIDE DEF whole, b
    <2>0. Len(whole) \in Nat
        BY <1>1
    <2>s. \A k \in 1 .. Len(whole) : R[k] = After(R[k - 1], whole[k], path)
        BY <2>0, ReachedSteps
    <2>2. R[b + n] = After(R[(b + n) - 1], whole[b + n], path)
        BY <2>1, <2>s
    <2> QED
        BY <2>1, <2>2
<1> HIDE DEF R, whole, b, From
<1>4. 0 \in S
    <2>1. Stood(0) = From
        <3>1. ASSUME NEW j \in Stood(0) PROVE j \in From
            <4>1. PICK i \in From : j = i + 0
                OBVIOUS
            <4>2. i \in Nat
                BY <1>2
            <4> QED
                BY <4>1, <4>2
        <3>2. \A j : j \in From => j \in 0 .. Len(path) /\ j = j + 0
            BY <1>2
        <3>3. \A j : j \in From => j \in Stood(0)
            BY <3>2
        <3> QED
            BY <3>1, <3>3
    <2> HIDE DEF Stood
    <2> QED
        BY <1>1, <1>2, <2>1
<1>5. ASSUME NEW n \in 1 .. Len(part), n - 1 \in S PROVE n \in S
    <2>1. R[b + n] = {j \in 0 .. Len(path) : \E i \in Stood(n - 1) : j = i + 1 /\ path[j] = part[n]}
        <3> HIDE DEF Stood
        <3> QED
            BY <1>1, <1>3, <1>5 DEF After
    <2>2. ASSUME NEW j \in 0 .. Len(path), NEW i \in Stood(n - 1), j = i + 1, path[j] = part[n]
          PROVE  j \in Stood(n)
        <3>1. PICK h \in From : i = h + (n - 1) /\ \A x \in 1 .. n - 1 : path[h + x] = part[x]
            BY <2>2
        <3>2. h \in 0 .. Len(path) /\ j = h + n
            BY <3>1, <1>2, <2>2
        <3>3. \A x \in 1 .. n : path[h + x] = part[x]
            <4> TAKE x \in 1 .. n
            <4>1. CASE x = n
                BY <4>1, <3>2, <2>2
            <4>2. CASE x \in 1 .. n - 1
                BY <4>2, <3>1
            <4> QED
                BY <4>1, <4>2
        <3> QED
            BY <3>2, <3>3
    <2>3. ASSUME NEW j \in Stood(n)
          PROVE  j - 1 \in Stood(n - 1) /\ path[j] = part[n]
        BY <2>3, <1>1, <1>2
    <2>4. \A j \in Stood(n) : j \in 0 .. Len(path) /\ j = (j - 1) + 1
        OBVIOUS
    <2> HIDE DEF Stood
    <2>5. R[b + n] = Stood(n)
        BY <2>1, <2>2, <2>3, <2>4
    <2> QED
        BY <2>5
<1>6. Len(part) \in S
    <2> HIDE DEF S
    <2>1. 0 .. Len(part) \subseteq S
        BY <1>1, <1>4, <1>5, UpTo
    <2> QED
        BY <1>1, <2>1
<1>7. EndsOf(whole, path) = Stood(Len(part))
    <2> HIDE DEF Stood
    <2> QED
        BY <1>1, <1>6 DEF EndsOf, R
<1> QED
    BY <1>7 DEF StandsAt, whole, From

\* The first part stands at the start of the path.
LEMMA FirstPart ==
    ASSUME NEW part \in Seq(Characters), NEW path, Len(path) \in Nat
    PROVE  EndsOf(Part(<<>>, part), path) =
             {j \in 0 .. Len(path) : j = 0 + Len(part) /\ StandsAt(part, path, 0)}
<1>1. <<>> \in Expressions /\ Part(<<>>, part) = <<>> \o part
    BY DEF Part, Expressions
<1>2. EndsOf(<<>>, path) = {0}
    BY ReachedSteps DEF EndsOf
<1>3. EndsOf(<<>> \o part, path) =
        {j \in 0 .. Len(path) : \E i \in EndsOf(<<>>, path) :
            j = i + Len(part) /\ StandsAt(part, path, i)}
    BY <1>1, LiteralsStand
<1> QED
    BY <1>1, <1>2, <1>3

\* Any other stands after a run from where the part before it ends.
LEMMA NextPart ==
    ASSUME NEW written \in Expressions, written # <<>>, NEW part \in Seq(Characters),
           NEW path, Len(path) \in Nat
    PROVE  EndsOf(Part(written, part), path) =
             {j \in 0 .. Len(path) : \E b \in 0 .. Len(path) :
                /\ \E i \in EndsOf(written, path) : Runs(path, i, b)
                /\ j = b + Len(part) /\ StandsAt(part, path, b)}
<1> DEFINE starred == written \o <<Star>>
<1>1. /\ starred \in Expressions /\ <<Star>> \in Expressions /\ part \in Expressions
      /\ Len(written) \in Nat /\ Len(starred) = Len(written) + 1
      /\ starred[Len(written) + 1] = Star
    BY DEF Expressions
<1>2. Part(written, part) = starred \o part
    BY DEF Part
<1>3. Reached(starred, path)[Len(written)] = EndsOf(written, path)
    BY <1>1, ReachedBefore DEF EndsOf
<1>4. EndsOf(starred, path) = After(EndsOf(written, path), Star, path)
    <2> HIDE DEF starred
    <2>0. Len(starred) \in Nat
        BY <1>1
    <2>1. \A k \in 1 .. Len(starred) :
            Reached(starred, path)[k] = After(Reached(starred, path)[k - 1], starred[k], path)
        BY <2>0, ReachedSteps
    <2>2. Len(starred) \in 1 .. Len(starred) /\ Len(starred) - 1 = Len(written)
        BY <1>1
    <2> QED
        BY <1>1, <1>3, <2>1, <2>2 DEF EndsOf
<1> HIDE DEF starred
<1>5. EndsOf(starred, path) =
        {b \in 0 .. Len(path) : \E i \in EndsOf(written, path) : Runs(path, i, b)}
    BY <1>4 DEF After
<1>6. EndsOf(Part(written, part), path) =
        {j \in 0 .. Len(path) : \E b \in EndsOf(starred, path) :
            j = b + Len(part) /\ StandsAt(part, path, b)}
    BY <1>1, <1>2, LiteralsStand
<1> QED
    BY <1>5, <1>6

\* The first k parts of a pattern stand in the path, one after the other.
StandTo(pattern, path, k, at) ==
    /\ at \in [1 .. k -> 0 .. Len(path)] /\ at[1] = 0
    /\ \A i \in 1 .. k : at[i] + Len(pattern[i]) =< Len(path) /\ StandsAt(pattern[i], path, at[i])
    /\ \A i \in 2 .. k : Runs(path, at[i - 1] + Len(pattern[i - 1]), at[i])

\* Where the k-th part can end.
Stands(pattern, path, k) ==
    {j \in 0 .. Len(path) : \E at \in [1 .. k -> 0 .. Len(path)] :
        StandTo(pattern, path, k, at) /\ j = at[k] + Len(pattern[k])}

LEMMA WrittenIsNotEmpty ==
    ASSUME NEW pattern \in Seq(Seq(Characters)), pattern # <<>>, pattern[1] # <<>>
    PROVE  \A k \in 1 .. Len(pattern) : Written(pattern)[k] # <<>>
<1>1. Len(pattern) \in Nat \ {0} /\ \A k \in 1 .. Len(pattern) : pattern[k] \in Seq(Characters)
    OBVIOUS
<1> DEFINE W == Written(pattern)
           S == {k \in 0 .. Len(pattern) : k = 0 \/ W[k] # <<>>}
<1>2. ASSUME NEW k \in 1 .. Len(pattern), k - 1 \in S PROVE k \in S
    <2>1. W[k] = Part(W[k - 1], pattern[k]) /\ W[k - 1] \in Expressions
        BY <1>1, WrittenSteps
    <2>2. k - 1 = 0 => W[k - 1] = <<>>
        BY WrittenSteps
    <2> HIDE DEF W
    <2>3. CASE k = 1
        <3>1. Part(<<>>, pattern[1]) = pattern[1]
            BY <1>1 DEF Part
        <3> QED
            BY <2>1, <2>2, <2>3, <3>1
    <2>4. CASE k # 1
        <3>1. W[k - 1] # <<>>
            BY <1>2, <2>4
        <3>2. W[k - 1] \o <<Star>> \o pattern[k] # <<>>
            <4>1. pattern[k] \in Seq(Characters) /\ W[k - 1] \in Expressions
                BY <1>1, <2>1
            <4>2. Len(W[k - 1] \o <<Star>> \o pattern[k]) = Len(W[k - 1]) + 1 + Len(pattern[k])
                BY <4>1 DEF Expressions
            <4>3. Len(W[k - 1]) \in Nat /\ Len(pattern[k]) \in Nat
                BY <4>1 DEF Expressions
            <4> QED
                BY <4>2, <4>3
        <3>3. W[k] = W[k - 1] \o <<Star>> \o pattern[k]
            BY <2>1, <3>1 DEF Part
        <3>4. W[k] # <<>>
            BY <3>2, <3>3
        <3> QED
            BY <1>1, <3>4
    <2> QED
        BY <2>3, <2>4
<1>3. 0 .. Len(pattern) \subseteq S
    <2>1. 0 \in S
        BY <1>1
    <2> HIDE DEF S
    <2> QED
        BY <1>1, <1>2, <2>1, UpTo
<1> QED
    BY <1>1, <1>3

\* After k parts the expression leads to where the k-th ends, for every way
\* the first k can stand in the path.
LEMMA WrittenStands ==
    ASSUME NEW pattern \in Seq(Seq(Characters)), pattern # <<>>, pattern[1] # <<>>,
           NEW path, Len(path) \in Nat, NEW n \in 1 .. Len(pattern)
    PROVE  EndsOf(Written(pattern)[n], path) = Stands(pattern, path, n)
<1> DEFINE W == Written(pattern)
           l == Len(path)
           Stood(k) == {j \in 0 .. l : \E at \in [1 .. k -> 0 .. l] :
                          StandTo(pattern, path, k, at) /\ j = at[k] + Len(pattern[k])}
           S == {k \in 0 .. Len(pattern) : k = 0 \/ EndsOf(W[k], path) = Stood(k)}
<1>1. /\ Len(pattern) \in Nat \ {0}
      /\ \A k \in 1 .. Len(pattern) : pattern[k] \in Seq(Characters) /\ Len(pattern[k]) \in Nat
    OBVIOUS
<1>2. \A k \in 1 .. Len(pattern) :
        W[k] = Part(W[k - 1], pattern[k]) /\ W[k - 1] \in Expressions /\ W[k] # <<>>
    <2> TAKE k \in 1 .. Len(pattern)
    <2>1. k - 1 \in 0 .. Len(pattern)
        BY <1>1
    <2> QED
        BY <2>1, WrittenSteps, WrittenIsNotEmpty
<1>3. W[0] = <<>>
    BY WrittenSteps
<1> HIDE DEF W
<1>4. EndsOf(W[1], path) = Stood(1)
    <2>1. EndsOf(W[1], path) =
            {j \in 0 .. l : j = 0 + Len(pattern[1]) /\ StandsAt(pattern[1], path, 0)}
        BY <1>1, <1>2, <1>3, FirstPart
    <2>2. ASSUME NEW j \in 0 .. l, j = 0 + Len(pattern[1]), StandsAt(pattern[1], path, 0)
          PROVE  j \in Stood(1)
        <3> DEFINE at == [k \in 1 .. 1 |-> 0]
        <3>1. at \in [1 .. 1 -> 0 .. l] /\ StandTo(pattern, path, 1, at) /\ j = at[1] + Len(pattern[1])
            BY <2>2, <1>1 DEF StandTo
        <3> HIDE DEF at
        <3> QED
            BY <3>1
    <2>3. ASSUME NEW j \in Stood(1)
          PROVE  j = 0 + Len(pattern[1]) /\ StandsAt(pattern[1], path, 0)
        BY <1>1 DEF StandTo
    <2> QED
        BY <2>1, <2>2, <2>3
<1>5. ASSUME NEW k \in 2 .. Len(pattern), EndsOf(W[k - 1], path) = Stood(k - 1)
      PROVE  EndsOf(W[k], path) = Stood(k)
    <2>1. /\ k \in 1 .. Len(pattern) /\ k - 1 \in 1 .. Len(pattern) /\ k \in 2 .. k
          /\ W[k - 1] \in Expressions /\ W[k - 1] # <<>> /\ W[k] = Part(W[k - 1], pattern[k])
          /\ pattern[k] \in Seq(Characters)
        <3>1. k \in 1 .. Len(pattern) /\ k - 1 \in 1 .. Len(pattern) /\ k \in 2 .. k
            BY <1>1
        <3>2. W[k - 1] # <<>>
            BY <3>1, <1>2
        <3> QED
            BY <3>1, <3>2, <1>1, <1>2
    <2>2. EndsOf(W[k], path) =
            {j \in 0 .. l : \E b \in 0 .. l :
                /\ \E i \in Stood(k - 1) : Runs(path, i, b)
                /\ j = b + Len(pattern[k]) /\ StandsAt(pattern[k], path, b)}
        <3> HIDE DEF Stood
        <3>1. EndsOf(Part(W[k - 1], pattern[k]), path) =
                {j \in 0 .. Len(path) : \E b \in 0 .. Len(path) :
                    /\ \E i \in EndsOf(W[k - 1], path) : Runs(path, i, b)
                    /\ j = b + Len(pattern[k]) /\ StandsAt(pattern[k], path, b)}
            BY <2>1, NextPart
        <3> QED
            BY <1>5, <2>1, <3>1
    <2>3. ASSUME NEW j \in 0 .. l, NEW b \in 0 .. l, NEW i \in Stood(k - 1), Runs(path, i, b),
                 j = b + Len(pattern[k]), StandsAt(pattern[k], path, b)
          PROVE  j \in Stood(k)
        <3>1. PICK at \in [1 .. k - 1 -> 0 .. l] :
                StandTo(pattern, path, k - 1, at) /\ i = at[k - 1] + Len(pattern[k - 1])
            BY <2>3
        <3> DEFINE to == [x \in 1 .. k |-> IF x = k THEN b ELSE at[x]]
        <3>2. /\ to \in [1 .. k -> 0 .. l] /\ to[k] = b
              /\ \A x \in 1 .. k - 1 : to[x] = at[x]
            <4>1. \A x \in 1 .. k : x = k \/ x \in 1 .. k - 1
                BY <1>1
            <4>2. \A x \in 1 .. k - 1 : x \in 1 .. k /\ x # k
                BY <1>1
            <4>3. to \in [1 .. k -> 0 .. l]
                BY <4>1
            <4>4. to[k] = b
                BY <1>1
            <4>5. \A x \in 1 .. k - 1 : to[x] = at[x]
                BY <4>2
            <4> QED
                BY <4>3, <4>4, <4>5
        <3> HIDE DEF to
        <3>3. to[1] = 0
            BY <2>1, <3>1, <3>2 DEF StandTo
        <3>4. \A x \in 1 .. k : to[x] + Len(pattern[x]) =< l /\ StandsAt(pattern[x], path, to[x])
            <4> TAKE x \in 1 .. k
            <4>1. CASE x = k
                BY <4>1, <2>3, <3>2
            <4>2. CASE x \in 1 .. k - 1
                BY <4>2, <3>1, <3>2 DEF StandTo
            <4> QED
                BY <4>1, <4>2
        <3>5. \A x \in 2 .. k : Runs(path, to[x - 1] + Len(pattern[x - 1]), to[x])
            <4> TAKE x \in 2 .. k
            <4>1. CASE x = k
                BY <4>1, <2>1, <2>3, <3>1, <3>2
            <4>2. CASE x \in 2 .. k - 1
                BY <4>2, <3>1, <3>2 DEF StandTo
            <4> QED
                BY <4>1, <4>2
        <3>6. StandTo(pattern, path, k, to)
            BY <3>2, <3>3, <3>4, <3>5 DEF StandTo
        <3> QED
            BY <2>3, <3>2, <3>6
    <2>4. ASSUME NEW j \in Stood(k)
          PROVE  \E b \in 0 .. l :
                    /\ \E i \in Stood(k - 1) : Runs(path, i, b)
                    /\ j = b + Len(pattern[k]) /\ StandsAt(pattern[k], path, b)
        <3>1. PICK at \in [1 .. k -> 0 .. l] :
                StandTo(pattern, path, k, at) /\ j = at[k] + Len(pattern[k])
            BY <2>4
        <3> DEFINE to == [x \in 1 .. k - 1 |-> at[x]]
                   i == at[k - 1] + Len(pattern[k - 1])
        <3>2. to \in [1 .. k - 1 -> 0 .. l] /\ \A x \in 1 .. k - 1 : to[x] = at[x]
            OBVIOUS
        <3> HIDE DEF to
        <3>3. StandTo(pattern, path, k - 1, to)
            <4>1. 1 \in 1 .. k - 1 /\ \A x \in 1 .. k - 1 : x \in 1 .. k
                BY <1>1
            <4>2. \A x \in 2 .. k - 1 : x \in 2 .. k /\ x \in 1 .. k - 1 /\ x - 1 \in 1 .. k - 1
                BY <1>1
            <4>3. to \in [1 .. k - 1 -> 0 .. Len(path)] /\ to[1] = 0
                BY <3>1, <3>2, <4>1 DEF StandTo
            <4>4. \A x \in 1 .. k - 1 : to[x] + Len(pattern[x]) =< Len(path) /\ StandsAt(pattern[x], path, to[x])
                BY <3>1, <3>2, <4>1 DEF StandTo
            <4>5. \A x \in 2 .. k - 1 : Runs(path, to[x - 1] + Len(pattern[x - 1]), to[x])
                BY <3>1, <3>2, <4>2 DEF StandTo
            <4> QED
                BY <4>3, <4>4, <4>5 DEF StandTo
        <3>4. i \in 0 .. l
            <4>1. k - 1 \in 1 .. k
                BY <1>1
            <4>2. at[k - 1] \in 0 .. l /\ Len(pattern[k - 1]) \in Nat /\ i =< l
                BY <1>1, <2>1, <3>1, <4>1 DEF StandTo
            <4> DEFINE a == at[k - 1]
                       m == Len(pattern[k - 1])
            <4>3. a \in 0 .. l /\ m \in Nat /\ a + m =< l
                BY <4>2
            <4> HIDE DEF a, m
            <4>4. a + m \in 0 .. l
                BY <4>3
            <4> QED
                BY <4>4 DEF a, m
        <3>5. i = to[k - 1] + Len(pattern[k - 1])
            <4>1. k - 1 \in 1 .. k - 1
                BY <1>1
            <4>2. to[k - 1] = at[k - 1]
                BY <3>2, <4>1
            <4> QED
                BY <4>2
        <3>6. Runs(path, i, at[k]) /\ StandsAt(pattern[k], path, at[k]) /\ at[k] \in 0 .. l
            <4>1. k \in 1 .. k /\ k \in 2 .. k
                BY <1>1
            <4> QED
                BY <3>1, <4>1 DEF StandTo
        <3> HIDE DEF i
        <3>7. i \in Stood(k - 1)
            BY <3>2, <3>3, <3>4, <3>5
        <3> HIDE DEF Stood
        <3> QED
            BY <3>1, <3>6, <3>7
    <2>5. \A j \in Stood(k) : j \in 0 .. l
        OBVIOUS
    <2> HIDE DEF Stood
    <2> QED
        BY <2>2, <2>3, <2>4, <2>5
<1>6. ASSUME NEW k \in 1 .. Len(pattern), k - 1 \in S PROVE k \in S
    <2> HIDE DEF Stood
    <2>1. CASE k = 1
        BY <1>4, <2>1
    <2>2. CASE k # 1
        BY <1>5, <1>6, <2>2
    <2> QED
        BY <2>1, <2>2
<1>7. 0 .. Len(pattern) \subseteq S
    <2>1. 0 \in S
        BY <1>1
    <2> HIDE DEF S
    <2> QED
        BY <1>1, <1>6, <2>1, UpTo
<1>8. EndsOf(W[n], path) = Stood(n)
    <2> HIDE DEF Stood
    <2> QED
        BY <1>1, <1>7
<1> QED
    BY <1>8 DEF W, Stands

-----------------------------------------------------------------------------
(* What an entry admits, and what it says *)

LEMMA StandsIsSubSeq ==
    ASSUME NEW Values, NEW path \in Seq(Values), NEW part \in Seq(Characters),
           NEW i \in Nat, i + Len(part) =< Len(path)
    PROVE  SubSeq(path, i + 1, i + Len(part)) = part <=> StandsAt(part, path, i)
<1> DEFINE cut == SubSeq(path, i + 1, i + Len(part))
<1>1. /\ cut \in Seq(Values) /\ Len(cut) = Len(part) /\ Len(part) \in Nat
      /\ \A x \in 1 .. Len(part) : cut[x] = path[i + x]
    <2> DEFINE m == i + 1
               n == i + Len(part)
    <2>1. /\ m \in 1 .. Len(path) + 1 /\ n \in m - 1 .. Len(path) /\ Len(path) \in Nat
          /\ Len(part) \in Nat /\ n - m + 1 = Len(part) /\ m \in Int /\ n \in Int
          /\ \A x \in m .. n : path[x] \in Values
          /\ \A x \in 1 .. Len(part) : m + x - 1 = i + x
        OBVIOUS
    <2> HIDE DEF m, n
    <2>2. /\ SubSeq(path, m, n) \in Seq(Values) /\ Len(SubSeq(path, m, n)) = (IF m =< n THEN n - m + 1 ELSE 0)
          /\ \A x \in 1 .. n - m + 1 : SubSeq(path, m, n)[x] = path[m + x - 1]
        BY <2>1, SubSeqProperties
    <2> QED
        BY <2>1, <2>2 DEF m, n
<1> HIDE DEF cut
<1>2. cut = part => StandsAt(part, path, i)
    BY <1>1 DEF StandsAt
<1>3. StandsAt(part, path, i) => cut = part
    <2> SUFFICES ASSUME StandsAt(part, path, i) PROVE cut = part
        OBVIOUS
    <2>1. \A x \in 1 .. Len(part) : cut[x] = part[x]
        BY <1>1 DEF StandsAt
    <2> QED
        BY <1>1, <2>1, SeqEqual
<1> QED
    BY <1>2, <1>3 DEF cut

\* The expression pathPattern compiles for a pattern that does not start with
\* a star matches exactly the paths in which the parts of the pattern stand,
\* the first at the start, the last at the end, in their order, and a star
\* for what is between two of them (credentials.go:194).
THEOREM PatternMatchesAsRead ==
    ASSUME NEW pattern \in Seq(Seq(Characters)), pattern # <<>>, pattern[1] # <<>>,
           NEW path \in Seq(STRING)
    PROVE  MatchString(PathPattern(pattern), path) <=> Placed(pattern, path)
<1> DEFINE K == Len(pattern)
           l == Len(path)
<1>1. /\ K \in Nat \ {0} /\ K \in 1 .. K /\ l \in Nat /\ DOMAIN pattern = 1 .. K
      /\ \A k \in 1 .. K : pattern[k] \in Seq(Characters) /\ Len(pattern[k]) \in Nat
    OBVIOUS
<1>2. MatchString(PathPattern(pattern), path) <=>
        \E at \in [1 .. K -> 0 .. l] : StandTo(pattern, path, K, at) /\ l = at[K] + Len(pattern[K])
    <2>1. EndsOf(Written(pattern)[K], path) = Stands(pattern, path, K)
        BY <1>1, WrittenStands
    <2> QED
        BY <1>1, <2>1 DEF MatchString, PathPattern, EndsOf, Stands
<1>3. ASSUME NEW at \in [1 .. K -> 0 .. l]
      PROVE  StandTo(pattern, path, K, at) /\ l = at[K] + Len(pattern[K]) <=>
               /\ at[1] = 0 /\ at[K] + Len(pattern[K]) = l
               /\ \A k \in 1 .. K :
                    /\ at[k] + Len(pattern[k]) =< l
                    /\ SubSeq(path, at[k] + 1, at[k] + Len(pattern[k])) = pattern[k]
               /\ \A k \in 2 .. K : Runs(path, at[k - 1] + Len(pattern[k - 1]), at[k])
    <2>1. \A k \in 1 .. K : at[k] \in Nat
        BY <1>1
    <2>2. ASSUME NEW k \in 1 .. K, at[k] + Len(pattern[k]) =< l
          PROVE  SubSeq(path, at[k] + 1, at[k] + Len(pattern[k])) = pattern[k]
                    <=> StandsAt(pattern[k], path, at[k])
        BY <1>1, <2>1, <2>2, StandsIsSubSeq
    <2> QED
        BY <2>2 DEF StandTo
<1> QED
    BY <1>1, <1>2, <1>3 DEF Placed

\* A path hasDotSegment lets through has no segment of one or two dots.
LEMMA ClimbsHasDots ==
    ASSUME NEW path \in Seq(STRING), ~Stays(path)
    PROVE  HasDotSegment(path)
<1> DEFINE l == Len(path)
<1>0. l \in Nat
    OBVIOUS
<1>1. PICK i \in 1 .. l, j \in 2 .. l + 1 :
        /\ path[i] = "/" /\ (j = l + 1 \/ path[j] = "/")
        /\ {path[k] : k \in i + 1 .. j - 1} = {"."} /\ ~(j - i > 3)
    BY DEF Stays
<1>2. PICK k \in i + 1 .. j - 1 : path[k] = "."
    BY <1>1
<1> DEFINE a == i + 1
           b == j - 1
<1>3. /\ a \in 1 .. l /\ b \in 1 .. l /\ (b = a \/ b = a + 1)
      /\ path[a - 1] = "/" /\ (b = l \/ path[b + 1] = "/")
    BY <1>0, <1>1, <1>2
<1>4. path[a] = "." /\ path[b] = "." /\ "." \in STRING
    <2>1. a \in i + 1 .. j - 1 /\ b \in i + 1 .. j - 1
        BY <1>0, <1>1, <1>2
    <2>2. path[a] = "." /\ path[b] = "."
        BY <1>1, <2>1
    <2> HIDE DEF a, b
    <2>3. path[a] \in STRING
        BY <1>3
    <2> QED
        BY <2>2, <2>3
<1> HIDE DEF a, b
<1>5. SubSeq(path, a, b) \in {<<".">>, <<".", ".">>}
    <2>1. CASE b = a
        <3>1. Len(SubSeq(path, a, b)) = 1 /\ SubSeq(path, a, b)[1] = "." /\ SubSeq(path, a, b) \in Seq(STRING)
            BY <1>0, <1>3, <1>4, <2>1
        <3> DEFINE dot == <<".">>
                   segment == SubSeq(path, a, b)
        <3>2. dot \in Seq(STRING) /\ Len(dot) = 1 /\ dot[1] = "."
            BY <1>4
        <3> HIDE DEF dot, segment
        <3>3. \A x \in 1 .. Len(segment) : segment[x] = dot[x]
            BY <3>1, <3>2 DEF segment
        <3>4. segment = dot
            BY <3>1, <3>2, <3>3, SeqEqual DEF segment
        <3> QED
            BY <3>4 DEF dot, segment
    <2>2. CASE b = a + 1
        <3>1. /\ Len(SubSeq(path, a, b)) = 2 /\ SubSeq(path, a, b) \in Seq(STRING)
              /\ SubSeq(path, a, b)[1] = "." /\ SubSeq(path, a, b)[2] = "."
            BY <1>0, <1>3, <1>4, <2>2
        <3> DEFINE dots == <<".", ".">>
                   segment == SubSeq(path, a, b)
        <3>2. dots \in Seq(STRING) /\ Len(dots) = 2 /\ dots[1] = "." /\ dots[2] = "."
            BY <1>4
        <3> HIDE DEF dots, segment
        <3>3. \A x \in 1 .. Len(segment) : segment[x] = dots[x]
            <4>1. Len(segment) = 2 /\ segment[1] = "." /\ segment[2] = "."
                BY <3>1 DEF segment
            <4>2. \A x \in 1 .. 2 : x = 1 \/ x = 2
                OBVIOUS
            <4> QED
                BY <3>2, <4>1, <4>2
        <3>4. segment = dots
            BY <3>1, <3>2, <3>3, SeqEqual DEF segment
        <3> QED
            BY <3>4 DEF dots, segment
    <2> QED
        BY <1>3, <2>1, <2>2
<1> QED
    BY <1>0, <1>3, <1>5 DEF HasDotSegment

\* hasDotSegment refuses exactly the paths with a segment of one or two dots,
\* of the paths that start at a slash (credentials.go:185).
THEOREM DotSegmentsAsRead ==
    ASSUME NEW path \in Seq(STRING), path = <<>> \/ path[1] = "/"
    PROVE  HasDotSegment(path) <=> ~Stays(path)
<1> SUFFICES ASSUME HasDotSegment(path) PROVE ~Stays(path)
    BY ClimbsHasDots
<1> DEFINE l == Len(path)
<1>0. l \in Nat
    OBVIOUS
<1>1. PICK i \in 1 .. l, j \in 1 .. l :
        /\ i = 1 \/ path[i - 1] = "/"
        /\ j = l \/ path[j + 1] = "/"
        /\ SubSeq(path, i, j) \in {<<".">>, <<".", ".">>}
    BY DEF HasDotSegment
<1>2. Len(SubSeq(path, i, j)) = IF i =< j THEN j - i + 1 ELSE 0
    BY <1>0
<1>3. i =< j /\ j - i =< 1
    BY <1>0, <1>1, <1>2
<1>4. \A k \in i .. j : path[k] = "."
    <2>1. \A k \in i .. j : path[k] = SubSeq(path, i, j)[k - i + 1] /\ k - i + 1 \in {1, 2}
        BY <1>0, <1>3
    <2>2. CASE SubSeq(path, i, j) = <<".">>
        BY <1>2, <1>3, <2>1, <2>2
    <2>3. CASE SubSeq(path, i, j) = <<".", ".">>
        BY <2>1, <2>3
    <2> QED
        BY <1>1, <2>2, <2>3
<1>5. i # 1
    BY <1>3, <1>4
<1> DEFINE a == i - 1
           b == j + 1
<1>6. /\ a \in 1 .. l /\ b \in 2 .. l + 1 /\ ~(b - a > 3)
      /\ path[a] = "/" /\ (b = l + 1 \/ path[b] = "/")
    BY <1>0, <1>1, <1>3, <1>5
<1>7. {path[k] : k \in a + 1 .. b - 1} = {"."}
    <2>1. a + 1 = i /\ b - 1 = j /\ i \in i .. j
        BY <1>0, <1>3
    <2> QED
        BY <1>4, <2>1
<1> HIDE DEF a, b
<1> QED
    BY <1>6, <1>7 DEF Stays

\* The comparison RulesAgree makes on bounded inputs, for every set of entries
\* and of paths: the rules admit what a reader of the entries expects
\* (credentials.go:185, credentials.go:194).
THEOREM EntriesAgree ==
    ASSUME NEW patterns \in SUBSET (Seq(Seq(Characters)) \ {<<>>}),
           \A pattern \in patterns : pattern[1] # <<>>,
           NEW paths \in SUBSET Seq(STRING), \A path \in paths : path = <<>> \/ path[1] = "/"
    PROVE  Agree(patterns, paths)
<1>1. \A path \in paths : HasDotSegment(path) <=> ~Stays(path)
    BY DotSegmentsAsRead
<1>2. \A pattern \in patterns : \A path \in paths :
        MatchString(PathPattern(pattern), path) <=> Placed(pattern, path)
    BY PatternMatchesAsRead
<1> QED
    BY <1>1, <1>2 DEF Agree

-----------------------------------------------------------------------------
(* The handlers that run *)

Running == {r \in Requests : pc[r] \notin {"new", "over"}}

\* TypeOK, with the journal as sequences of lines.
Lines == [status : Statuses, uri : {"placeholder", "value"}]
Types == TypeOK /\ journal \in [Requests -> Seq(Lines)]

\* Nothing was sent or seen of a request that is not judged; what was chosen
\* for one that is passed the judgement; a refusal ends a request that was
\* not sent.
JudgedAt(r) ==
    /\ pc[r] \in {"new", "judge"} => seen[r] = {} /\ sent[r] = {} /\ told[r] = 0
    /\ pc[r] = "read" => sent[r] = {} /\ told[r] = 0
    /\ pc[r] \in {"read", "sent", "answering"} \/ sent[r] # {} =>
         Verdict(r) = 200 /\ chosen[r] \in Covers[r]
    /\ \A pair \in sent[r] : pair[1] = chosen[r] /\ (pair[2] # "header" =>
         chosen[r] \in Substitutes /\ pair[2] \in Mentions[r])
    /\ sent[r] # {} => told[r] \in {0, 200, 502}

Judgement == \A r \in Requests : JudgedAt(r)

HandlerInv ==
    /\ Types /\ Judgement
    /\ IsFiniteSet(Running) /\ SlotsCounted
    /\ EchoScrubbed /\ JournalledOnce

-----------------------------------------------------------------------------
(* The slots *)

\* A handler that starts takes a slot.
LEMMA Enters ==
    ASSUME HandlerInv, NEW r \in Requests, Admit(r)
    PROVE  IsFiniteSet(Running)' /\ SlotsCounted'
<1>1. r \notin Running /\ Running' = Running \cup {r}
    BY DEF Running, HandlerInv, Types, TypeOK, Admit, Goto
<1>2. IsFiniteSet(Running') /\ Cardinality(Running') = Cardinality(Running) + 1
    BY <1>1, FS_AddElement DEF HandlerInv
<1> QED
    BY <1>2, BoundAssumption DEF HandlerInv, Types, TypeOK, SlotsCounted, Admit, Running

\* One that returns gives its slot back.
LEMMA Leaves ==
    ASSUME HandlerInv, NEW r \in Requests, pc[r] \notin {"new", "over"}, Return(r)
    PROVE  IsFiniteSet(Running)' /\ SlotsCounted' /\ slots' \in Nat
<1>1. r \in Running /\ Running' = Running \ {r}
    BY DEF Running, HandlerInv, Types, TypeOK, Return, Goto
<1>2. /\ IsFiniteSet(Running') /\ Cardinality(Running') = Cardinality(Running) - 1
      /\ Cardinality(Running') \in Nat
    BY <1>1, FS_RemoveElement, FS_CardinalityType DEF HandlerInv
<1> QED
    BY <1>2, BoundAssumption DEF HandlerInv, Types, TypeOK, SlotsCounted, Return, Running

\* Any other step of a handler leaves it running, or refused without a slot.
LEMMA Goes ==
    ASSUME HandlerInv, NEW r \in Requests, NEW label \in PCs, Goto(r, label),
           pc[r] \in {"new", "over"} <=> label \in {"new", "over"}, UNCHANGED slots
    PROVE  IsFiniteSet(Running)' /\ SlotsCounted'
<1>1. Running' = Running
    BY DEF Running, HandlerInv, Types, TypeOK, Goto
<1> QED
    BY <1>1 DEF HandlerInv, SlotsCounted, Running

-----------------------------------------------------------------------------
(* One handler at a time *)

\* What EchoScrubbed says of a pair the guest sees.
MaySee(r, pair) ==
    chosen[r] \in Scrubbed =>
        \/ pair[1] \in {"stream", "trailer"}
        \/ pair = <<"brim", "key">>
        \/ /\ pair[2] = "escaped" /\ chosen[r] \in Substitutes
           /\ Mentions[r] \cap EscapedIn[chosen[r]] # {}

\* The escaped form comes from a uri that substitute rewrote.
LEMMA EchoesGot ==
    ASSUME HandlerInv, NEW r \in Requests
    PROVE  /\ Echoes(r) \subseteq Tokens
           /\ "escaped" \in Echoes(r) =>
                chosen[r] \in Substitutes /\ Mentions[r] \cap EscapedIn[chosen[r]] # {}
<1> DEFINE From(pair) == IF pair[2] \in EscapedIn[pair[1]] THEN {"escaped"} ELSE {"value", "key"}
<1>1. \A x \in Echoes(r) : \E pair \in sent[r] : x \in From(pair)
    BY DEF Echoes
<1>2. Echoes(r) \subseteq Tokens
    BY <1>1 DEF Tokens
<1>3. ASSUME "escaped" \in Echoes(r)
      PROVE  chosen[r] \in Substitutes /\ Mentions[r] \cap EscapedIn[chosen[r]] # {}
    <2>1. PICK pair \in sent[r] : pair[2] \in EscapedIn[pair[1]]
        BY <1>1, <1>3
    <2>2. pair[1] = chosen[r] /\ pair[1] \in Credentials
        BY <2>1 DEF HandlerInv, Judgement, JudgedAt, Types, TypeOK
    <2>3. pair[2] # "header"
        BY <2>1, <2>2, CredentialAssumption DEF Uri
    <2>4. chosen[r] \in Substitutes /\ pair[2] \in Mentions[r]
        BY <2>3 DEF HandlerInv, Judgement, JudgedAt
    <2> QED
        BY <2>1, <2>2, <2>4
<1> QED
    BY <1>2, <1>3

\* What the proxy lets the guest see of an echo.
LEMMA ScrubbedEcho ==
    ASSUME HandlerInv, NEW r \in Requests, NEW echo \in SUBSET Echoes(r), NEW length \in Lengths
    PROVE  /\ \A x \in Scrub(echo, r) :
                x \in Tokens /\ \A place : MaySee(r, <<place, x>>)
           /\ Passed(r, echo, length) \in SUBSET (Places \X Tokens)
           /\ \A pair \in Passed(r, echo, length) : MaySee(r, pair)
<1>1. /\ echo \subseteq Tokens
      /\ "escaped" \in echo =>
           chosen[r] \in Substitutes /\ Mentions[r] \cap EscapedIn[chosen[r]] # {}
    BY EchoesGot
<1>2. ASSUME NEW x \in Scrub(echo, r) PROVE x \in Tokens /\ \A place : MaySee(r, <<place, x>>)
    BY <1>1 DEF Scrub, ScrubPass, Tokens, MaySee
<1>3. CASE length = "measured"
    BY <1>2, <1>3 DEF Passed, Places
<1>4. CASE length = "brim"
    <2>1. ASSUME NEW x \in ScrubPass(echo, r, "value") PROVE x \in Tokens /\ MaySee(r, <<"brim", x>>)
        BY <1>1 DEF ScrubPass, Tokens, MaySee
    <2>2. Passed(r, echo, length) = {"brim"} \X ScrubPass(echo, r, "value")
        BY <1>4 DEF Passed
    <2> QED
        BY <1>2, <2>1, <2>2 DEF Places
<1>5. CASE length = "unmeasured"
    <2>1. Passed(r, echo, length) = {"stream"} \X echo
        BY <1>5 DEF Passed
    <2> QED
        BY <1>1, <1>2, <2>1 DEF Places, MaySee
<1> QED
    BY <1>3, <1>4, <1>5 DEF Lengths

\* A line more in the journal of a request.
LEMMA OneLine ==
    ASSUME HandlerInv, NEW r \in Requests, NEW code \in Statuses, Record(r, code),
           pc[r] # "over", Goto(r, "over")
    PROVE  journal' \in [Requests -> Seq(Lines)] /\ JournalledOnce'
<1> DEFINE line == [status |-> code, uri |-> "placeholder"]
<1>1. journal \in [Requests -> Seq(Lines)] /\ line \in Lines
    BY DEF HandlerInv, Types, Lines
<1>2. Len(journal[r]) = 0 /\ journal[r] \in Seq(Lines)
    BY <1>1 DEF HandlerInv, JournalledOnce
<1>3. /\ Append(journal[r], line) \in Seq(Lines)
      /\ Len(Append(journal[r], line)) = 1 /\ Append(journal[r], line)[1] = line
    BY <1>1, <1>2
<1>4. journal' = [journal EXCEPT ![r] = Append(@, line)]
    BY DEF Record
<1>5. journal' \in [Requests -> Seq(Lines)]
    BY <1>1, <1>3, <1>4
<1>6. ASSUME NEW q \in Requests
      PROVE  /\ Len(journal'[q]) = IF pc'[q] = "over" THEN 1 ELSE 0
             /\ \A i \in DOMAIN journal'[q] : journal'[q][i].uri = "placeholder"
    <2>1. CASE q = r
        BY <2>1, <1>1, <1>3, <1>4 DEF HandlerInv, Types, TypeOK, Goto
    <2>2. CASE q # r
        BY <2>2, <1>1, <1>4 DEF HandlerInv, Types, TypeOK, Goto, JournalledOnce
    <2> QED
        BY <2>1, <2>2
<1> QED
    BY <1>5, <1>6 DEF JournalledOnce

\* No line while the handler goes on.
LEMMA NoLine ==
    ASSUME HandlerInv, NEW r \in Requests, NEW label \in PCs \ {"over"},
           pc[r] # "over", Goto(r, label), UNCHANGED journal
    PROVE  journal' \in [Requests -> Seq(Lines)] /\ JournalledOnce'
BY DEF HandlerInv, Types, TypeOK, JournalledOnce, Goto, PCs

\* TypeOK but for the journal, whose lines the sequences hold.
LEMMA LinesTyped ==
    ASSUME NEW j \in [Requests -> Seq(Lines)]
    PROVE  \A r \in Requests : \A i \in DOMAIN j[r] :
             j[r][i] \in [status : Statuses, uri : {"placeholder", "value"}]
<1> TAKE r \in Requests
<1>1. j[r] \in Seq(Lines)
    OBVIOUS
<1>2. \A i \in 1 .. Len(j[r]) : j[r][i] \in Lines
    BY <1>1
<1>3. DOMAIN j[r] = 1 .. Len(j[r])
    BY <1>1
<1> QED
    BY <1>2, <1>3 DEF Lines

\* The rest of TypeOK.
Rest ==
    /\ pc \in [Requests -> PCs] /\ slots \in Nat
    /\ chosen \in [Requests -> Credentials \cup {NoCredential}]
    /\ status \in [Requests -> Statuses] /\ told \in [Requests -> Statuses]
    /\ uri \in [Requests -> {"placeholder", "value"}]
    /\ sent \in [Requests -> SUBSET (Credentials \X (Uri \cup {"header", "body"}))]
    /\ seen \in [Requests -> SUBSET (Places \X Tokens)]

\* What the judgement settles is a credential the entries cover.
LEMMA CoversAreCredentials ==
    ASSUME NEW r \in Requests
    PROVE  Covers[r] \subseteq Credentials /\ Verdict(r) \in {200, 403, 404}
BY DEF Covers, Candidates, Verdict

\* What EchoScrubbed says of a request.
EchoAt(r) == \A pair \in seen[r] : MaySee(r, pair)

\* A step of one handler leaves the others as they are.
LEMMA OthersJudged ==
    ASSUME HandlerInv, NEW r \in Requests, JudgedAt(r)', EchoAt(r)',
           \A q \in Requests \ {r} :
             pc'[q] = pc[q] /\ seen'[q] = seen[q] /\ chosen'[q] = chosen[q]
             /\ sent'[q] = sent[q] /\ told'[q] = told[q]
    PROVE  Judgement' /\ EchoScrubbed'
<1>1. ASSUME NEW q \in Requests PROVE JudgedAt(q)' /\ EchoAt(q)'
    <2>1. CASE q # r
        BY <2>1 DEF HandlerInv, Judgement, JudgedAt, EchoScrubbed, EchoAt, MaySee, Verdict
    <2> QED
        BY <2>1
<1> QED
    BY <1>1 DEF Judgement, EchoScrubbed, EchoAt, MaySee

-----------------------------------------------------------------------------
LEMMA HandlersStart == Init => HandlerInv
<1> SUFFICES ASSUME Init PROVE HandlerInv
    OBVIOUS
<1>1. Running = {} /\ IsFiniteSet(Running) /\ Cardinality(Running) = 0
    BY FS_EmptySet DEF Init, Running
<1>2. Rest /\ journal \in [Requests -> Seq(Lines)]
    BY DEF Init, Rest, PCs, Statuses, Lines
<1>3. Types
    BY <1>2, LinesTyped DEF Types, TypeOK, Rest
<1>4. Judgement /\ EchoScrubbed /\ JournalledOnce
    BY DEF Init, Judgement, JudgedAt, EchoScrubbed, JournalledOnce
<1>5. SlotsCounted
    BY <1>1, BoundAssumption DEF Init, SlotsCounted, Running
<1> QED
    BY <1>1, <1>3, <1>4, <1>5 DEF HandlerInv

\* A step of a handler keeps the invariant.
LEMMA HandlersStep == HandlerInv /\ [Next]_vars => HandlerInv'
<1> SUFFICES ASSUME HandlerInv, [Next]_vars PROVE HandlerInv'
    OBVIOUS
<1>t. Rest /\ journal \in [Requests -> Seq(Lines)]
    BY DEF HandlerInv, Types, TypeOK, Rest
<1>s. SUFFICES ASSUME Next PROVE HandlerInv'
    <2>1. CASE UNCHANGED vars
        <3>1. Running' = Running
            BY <2>1 DEF vars, Running
        <3>2. Types' /\ SlotsCounted' /\ IsFiniteSet(Running)'
            BY <2>1, <3>1 DEF vars, HandlerInv, Types, TypeOK, SlotsCounted
        <3>3. Judgement' /\ EchoScrubbed' /\ JournalledOnce'
            BY <2>1 DEF vars, HandlerInv, Judgement, JudgedAt, EchoScrubbed, JournalledOnce, Verdict
        <3> QED
            BY <3>2, <3>3 DEF HandlerInv
    <2> QED
        BY <2>1
<1>p. PICK r \in Requests : Step(r) \/ \E echo \in SUBSET Echoes(r) : Interim(r, echo)
    BY <1>s DEF Next
<1>q. ASSUME Rest', journal' \in [Requests -> Seq(Lines)], JournalledOnce',
             IsFiniteSet(Running)', SlotsCounted', Judgement', EchoScrubbed'
      PROVE  HandlerInv'
    BY <1>q, LinesTyped DEF HandlerInv, Types, TypeOK, Rest
<1>j. JudgedAt(r) /\ EchoAt(r)
    BY DEF HandlerInv, Judgement, EchoScrubbed, EchoAt, MaySee
<1>1. CASE TooMany(r)
    <2>1. IsFiniteSet(Running)' /\ SlotsCounted'
        BY <1>1, Goes DEF TooMany, PCs
    <2>2. journal' \in [Requests -> Seq(Lines)] /\ JournalledOnce'
        BY <1>1, OneLine DEF TooMany, Refuse, Statuses
    <2>3. Rest'
        BY <1>1, <1>t DEF TooMany, Refuse, Rest, Goto, PCs, Statuses
    <2>4. Judgement' /\ EchoScrubbed'
        <3>1. JudgedAt(r)' /\ EchoAt(r)'
            BY <1>1, <1>t, <1>j DEF TooMany, Refuse, Rest, Goto, JudgedAt, EchoAt, MaySee, Verdict
        <3> QED
            BY <1>1, <1>t, <3>1, OthersJudged DEF TooMany, Refuse, Rest, Goto
    <2> QED
        BY <2>1, <2>2, <2>3, <2>4, <1>q
<1>2. CASE Admit(r)
    <2>1. IsFiniteSet(Running)' /\ SlotsCounted'
        BY <1>2, Enters
    <2>2. journal' \in [Requests -> Seq(Lines)] /\ JournalledOnce'
        BY <1>2, NoLine DEF Admit, PCs
    <2>3. Rest'
        BY <1>2, <1>t DEF Admit, Rest, Goto, PCs
    <2>4. Judgement' /\ EchoScrubbed'
        <3>1. JudgedAt(r)' /\ EchoAt(r)'
            BY <1>2, <1>t, <1>j DEF Admit, Rest, Goto, JudgedAt, EchoAt, MaySee, Verdict
        <3> QED
            BY <1>2, <1>t, <3>1, OthersJudged DEF Admit, Rest, Goto
    <2> QED
        BY <2>1, <2>2, <2>3, <2>4, <1>q
<1>3. CASE JudgedBad(r)
    <2>1. IsFiniteSet(Running)' /\ SlotsCounted'
        BY <1>3, Leaves DEF JudgedBad
    <2>c. Verdict(r) \in Statuses
        BY CoversAreCredentials DEF Statuses
    <2>2. journal' \in [Requests -> Seq(Lines)] /\ JournalledOnce'
        BY <1>3, <2>c, OneLine DEF JudgedBad, Refuse, Return
    <2>3. Rest'
        BY <1>3, <1>t, <2>c, Leaves DEF JudgedBad, Refuse, Return, Rest, Goto, PCs
    <2>4. Judgement' /\ EchoScrubbed'
        <3>1. JudgedAt(r)' /\ EchoAt(r)'
            BY <1>3, <1>t, <1>j DEF JudgedBad, Refuse, Return, Rest, Goto, JudgedAt, EchoAt, MaySee, Verdict
        <3> QED
            BY <1>3, <1>t, <3>1, OthersJudged DEF JudgedBad, Refuse, Return, Rest, Goto
    <2> QED
        BY <2>1, <2>2, <2>3, <2>4, <1>q
<1>4. CASE JudgedGood(r)
    <2>0. PICK c \in Covers[r] : chosen' = [chosen EXCEPT ![r] = c]
        BY <1>4 DEF JudgedGood
    <2>1. IsFiniteSet(Running)' /\ SlotsCounted'
        BY <1>4, Goes DEF JudgedGood, PCs
    <2>2. journal' \in [Requests -> Seq(Lines)] /\ JournalledOnce'
        BY <1>4, NoLine DEF JudgedGood, PCs
    <2>3. Rest'
        BY <1>4, <2>0, <1>t, CoversAreCredentials DEF JudgedGood, Rest, Goto, PCs
    <2>4. Judgement' /\ EchoScrubbed'
        <3>1. JudgedAt(r)' /\ EchoAt(r)'
            BY <1>4, <2>0, <1>t, <1>j DEF JudgedGood, Rest, Goto, JudgedAt, EchoAt, MaySee, Verdict
        <3> QED
            BY <1>4, <2>0, <1>t, <3>1, OthersJudged DEF JudgedGood, Rest, Goto
    <2> QED
        BY <2>1, <2>2, <2>3, <2>4, <1>q
<1>5. CASE BodyUnreadable(r)
    <2>1. IsFiniteSet(Running)' /\ SlotsCounted'
        BY <1>5, Leaves DEF BodyUnreadable
    <2>2. journal' \in [Requests -> Seq(Lines)] /\ JournalledOnce'
        BY <1>5, OneLine DEF BodyUnreadable, Refuse, Return, Statuses
    <2>n. slots' \in Nat
        BY <1>5, Leaves DEF BodyUnreadable
    <2>3. Rest'
        BY <1>5, <1>t, <2>n DEF BodyUnreadable, Refuse, Return, Rest, Goto, PCs, Statuses
    <2>4. Judgement' /\ EchoScrubbed'
        <3>1. JudgedAt(r)' /\ EchoAt(r)'
            BY <1>5, <1>t, <1>j DEF BodyUnreadable, Refuse, Return, Rest, Goto, JudgedAt, EchoAt, MaySee, Verdict
        <3> QED
            BY <1>5, <1>t, <3>1, OthersJudged DEF BodyUnreadable, Refuse, Return, Rest, Goto
    <2> QED
        BY <2>1, <2>2, <2>3, <2>4, <1>q
<1>6. CASE Forward(r)
    <2>0. Verdict(r) = 200 /\ chosen[r] \in Covers[r] /\ chosen[r] \in Credentials
        BY <1>6, <1>j, CoversAreCredentials DEF Forward, JudgedAt
    <2>1. IsFiniteSet(Running)' /\ SlotsCounted'
        BY <1>6, Goes DEF Forward, PCs
    <2>2. journal' \in [Requests -> Seq(Lines)] /\ JournalledOnce'
        BY <1>6, NoLine DEF Forward, PCs
    <2>s. PICK places \in SUBSET (Uri \cup {"header", "body"}) :
            /\ sent' = [sent EXCEPT ![r] = {<<chosen[r], place>> : place \in places}]
            /\ \A place \in places : place # "header" => chosen[r] \in Substitutes /\ place \in Mentions[r]
        <3>1. Rewritten(r) \subseteq Mentions[r] /\ (Rewritten(r) # {} => chosen[r] \in Substitutes)
            BY DEF Rewritten
        <3>2. {"header"} \cup Rewritten(r) \in SUBSET (Uri \cup {"header", "body"})
            BY <3>1, RequestAssumption
        <3> QED
            BY <1>6, <3>1, <3>2 DEF Forward
    <2>3. Rest'
        BY <1>6, <1>t, <2>0, <2>s DEF Forward, Rest, Goto, PCs
    <2>4. Judgement' /\ EchoScrubbed'
        <3>1. JudgedAt(r)' /\ EchoAt(r)'
            BY <1>6, <2>0, <2>s, <1>t, <1>j DEF Forward, Rest, Goto, JudgedAt, EchoAt, MaySee, Verdict
        <3> QED
            BY <1>6, <2>0, <2>s, <1>t, <3>1, OthersJudged DEF Forward, Rest, Goto
    <2> QED
        BY <2>1, <2>2, <2>3, <2>4, <1>q
<1>7. ASSUME NEW echo \in SUBSET Echoes(r), NEW length \in Lengths, Respond(r, echo, length)
      PROVE  HandlerInv'
    <2> DEFINE shown == ({"header"} \X Scrub(echo, r)) \cup Passed(r, echo, length)
                          \cup ({"trailer"} \X echo)
    <2>0. shown \in SUBSET (Places \X Tokens)
        <3>1. echo \subseteq Tokens /\ Scrub(echo, r) \subseteq Tokens
              /\ Passed(r, echo, length) \in SUBSET (Places \X Tokens)
            BY EchoesGot, ScrubbedEcho
        <3> QED
            BY <3>1 DEF Places
    <2>s. \A pair \in shown : MaySee(r, pair)
        <3>1. \A pair \in {"trailer"} \X echo : MaySee(r, pair)
            BY DEF MaySee
        <3>2. \A pair \in {"header"} \X Scrub(echo, r) : MaySee(r, pair)
            BY ScrubbedEcho
        <3> QED
            BY <3>1, <3>2, ScrubbedEcho
    <2>e. seen' = [seen EXCEPT ![r] = @ \cup shown]
        BY <1>7 DEF Respond, See
    <2> HIDE DEF shown
    <2>1. IsFiniteSet(Running)' /\ SlotsCounted'
        BY <1>7, Goes DEF Respond, PCs
    <2>2. journal' \in [Requests -> Seq(Lines)] /\ JournalledOnce'
        BY <1>7, NoLine DEF Respond, PCs
    <2>3. Rest'
        BY <1>7, <1>t, <2>0, <2>e DEF Respond, Rest, Goto, PCs, Statuses
    <2>4. Judgement' /\ EchoScrubbed'
        <3>1. JudgedAt(r)' /\ EchoAt(r)'
            <4>1. JudgedAt(r)'
                BY <1>7, <2>s, <2>e, <1>t, <1>j DEF Respond, Rest, Goto, JudgedAt, Verdict
            <4>2. \A pair : MaySee(r, pair)' = MaySee(r, pair)
                BY <1>7, <2>s, <2>e, <1>t, <1>j DEF Respond, MaySee
            <4>3. EchoAt(r)'
                BY <1>7, <2>s, <2>e, <1>t, <1>j, <4>2 DEF Respond, Rest, EchoAt
            <4> QED
                BY <4>1, <4>3
        <3> QED
            BY <1>7, <2>s, <2>e, <1>t, <3>1, OthersJudged DEF Respond, Rest, Goto
    <2> QED
        BY <2>1, <2>2, <2>3, <2>4, <1>q
<1>8. CASE BodyLost(r)
    <2>1. IsFiniteSet(Running)' /\ SlotsCounted'
        BY <1>8, Goes DEF BodyLost, PCs
    <2>2. journal' \in [Requests -> Seq(Lines)] /\ JournalledOnce'
        BY <1>8, NoLine DEF BodyLost, PCs
    <2>3. Rest'
        BY <1>8, <1>t DEF BodyLost, Rest, Goto, PCs, Statuses
    <2>4. Judgement' /\ EchoScrubbed'
        <3>1. JudgedAt(r)' /\ EchoAt(r)'
            <4>1. JudgedAt(r)'
                BY <1>8, <1>t, <1>j DEF BodyLost, Rest, Goto, JudgedAt, Verdict
            <4>2. \A pair : MaySee(r, pair)' = MaySee(r, pair)
                BY <1>8, <1>t, <1>j DEF BodyLost, MaySee
            <4>3. EchoAt(r)'
                BY <1>8, <1>t, <1>j, <4>2 DEF BodyLost, Rest, EchoAt
            <4> QED
                BY <4>1, <4>3
        <3> QED
            BY <1>8, <1>t, <3>1, OthersJudged DEF BodyLost, Rest, Goto
    <2> QED
        BY <2>1, <2>2, <2>3, <2>4, <1>q
<1>9. CASE Unreachable(r)
    <2>1. IsFiniteSet(Running)' /\ SlotsCounted'
        BY <1>9, Goes DEF Unreachable, PCs
    <2>2. journal' \in [Requests -> Seq(Lines)] /\ JournalledOnce'
        BY <1>9, NoLine DEF Unreachable, PCs
    <2>3. Rest'
        BY <1>9, <1>t DEF Unreachable, Rest, Goto, PCs, Statuses
    <2>4. Judgement' /\ EchoScrubbed'
        <3>1. JudgedAt(r)' /\ EchoAt(r)'
            <4>1. JudgedAt(r)'
                BY <1>9, <1>t, <1>j DEF Unreachable, Rest, Goto, JudgedAt, Verdict
            <4>2. \A pair : MaySee(r, pair)' = MaySee(r, pair)
                BY <1>9, <1>t, <1>j DEF Unreachable, MaySee
            <4>3. EchoAt(r)'
                BY <1>9, <1>t, <1>j, <4>2 DEF Unreachable, Rest, EchoAt
            <4> QED
                BY <4>1, <4>3
        <3> QED
            BY <1>9, <1>t, <3>1, OthersJudged DEF Unreachable, Rest, Goto
    <2> QED
        BY <2>1, <2>2, <2>3, <2>4, <1>q
<1>10. CASE HangUp(r) \/ Served(r)
    <2>0. /\ pc[r] \in {"sent", "answering"} /\ Record(r, status[r]) /\ Return(r)
          /\ UNCHANGED <<chosen, status, told, uri, sent, seen>>
        BY <1>10 DEF HangUp, Served
    <2>1. IsFiniteSet(Running)' /\ SlotsCounted'
        BY <2>0, Leaves
    <2>2. journal' \in [Requests -> Seq(Lines)] /\ JournalledOnce'
        BY <2>0, <1>t, OneLine DEF Return, Rest
    <2>3. Rest'
        BY <2>0, Leaves, <1>t DEF Return, Rest, Goto, PCs
    <2>4. Judgement' /\ EchoScrubbed'
        <3>1. JudgedAt(r)' /\ EchoAt(r)'
            <4>1. JudgedAt(r)'
                BY <2>0, <1>t, <1>j DEF Return, Rest, Goto, JudgedAt, Verdict
            <4>2. \A pair : MaySee(r, pair)' = MaySee(r, pair)
                BY <2>0, <1>t, <1>j DEF Return, MaySee
            <4>3. EchoAt(r)'
                BY <2>0, <1>t, <1>j, <4>2 DEF Return, Rest, EchoAt
            <4> QED
                BY <4>1, <4>3
        <3> QED
            BY <2>0, <1>t, <3>1, OthersJudged DEF Return, Rest, Goto
    <2> QED
        BY <2>1, <2>2, <2>3, <2>4, <1>q
<1>11. ASSUME NEW echo \in SUBSET Echoes(r), Interim(r, echo) PROVE HandlerInv'
    <2> DEFINE shown == {"interim"} \X Scrub(echo, r)
    <2>0. shown \in SUBSET (Places \X Tokens)
        <3>1. Scrub(echo, r) \subseteq Tokens
            BY ScrubbedEcho DEF Lengths
        <3> QED
            BY <3>1 DEF Places
    <2>s. \A pair \in shown : MaySee(r, pair)
        BY ScrubbedEcho DEF Lengths
    <2>e. seen' = [seen EXCEPT ![r] = @ \cup shown]
        BY <1>11 DEF Interim, See
    <2> HIDE DEF shown
    <2>1. IsFiniteSet(Running)' /\ SlotsCounted'
        BY <1>11 DEF Interim, HandlerInv, Running, SlotsCounted
    <2>2. journal' \in [Requests -> Seq(Lines)] /\ JournalledOnce'
        BY <1>11, <1>t DEF Interim, HandlerInv, JournalledOnce
    <2>3. Rest'
        BY <1>11, <1>t, <2>0, <2>e DEF Interim, Rest
    <2>4. Judgement' /\ EchoScrubbed'
        <3>1. JudgedAt(r)' /\ EchoAt(r)'
            BY <1>11, <2>e, <2>s, <1>t, <1>j DEF Interim, Rest, Goto, JudgedAt, EchoAt, MaySee, Verdict
        <3> QED
            BY <1>11, <2>e, <2>s, <1>t, <3>1, OthersJudged DEF Interim, Rest, Goto
    <2> QED
        BY <2>1, <2>2, <2>3, <2>4, <1>q
<1> QED
    BY <1>p, <1>1, <1>2, <1>3, <1>4, <1>5, <1>6, <1>7, <1>8, <1>9, <1>10, <1>11 DEF Step

LEMMA HandlersInvariant == Spec => []HandlerInv
BY HandlersStart, HandlersStep, PTL DEF Spec

-----------------------------------------------------------------------------
(* The credential of a request *)

\* The credentials whose entries cover a request are those that admit it as
\* the entries read.
LEMMA CoversAsRead ==
    ASSUME NEW r \in Requests
    PROVE  Covers[r] = Admitting[r]
<1>1. ASSUME NEW c \in Credentials, NEW entry \in Allow[c]
      PROVE  RuleCovers(entry, Target[r]) <=>
               /\ entry.methods = {} \/ \E name \in entry.methods : name = Target[r].method.name
               /\ entry.pattern = NoPath \/ Placed(entry.pattern, Target[r].path)
    <2>1. CASE entry.pattern = NoPath
        BY <2>1 DEF RuleCovers
    <2>2. CASE entry.pattern # NoPath
        <3>1. /\ entry.pattern \in Seq(Seq(Characters)) /\ entry.pattern # <<>>
              /\ entry.pattern[1] # <<>> /\ Target[r].path \in Seq(STRING)
            BY <2>2, AllowAssumption, RequestAssumption DEF NoPath, Characters
        <3>2. MatchString(PathPattern(entry.pattern), Target[r].path)
                <=> Placed(entry.pattern, Target[r].path)
            BY <3>1, PatternMatchesAsRead
        <3> QED
            BY <2>2, <3>2 DEF RuleCovers
    <2> QED
        BY <2>1, <2>2
<1>2. ASSUME NEW c \in Credentials
      PROVE  Allowed(Allow[c], Target[r]) /\ DomainOf[c] = Target[r].host.name
               <=> Admits(c, Target[r])
    BY <1>1 DEF Allowed, Admits
<1> QED
    BY <1>2 DEF Covers, Candidates, Admitting

\* A value is sent only in a request that one credential of its host admits,
\* it is that credential's, and no segment of the path climbs.
LEMMA SentByOne == HandlerInv => OneCredential
<1> SUFFICES ASSUME HandlerInv, NEW r \in Requests, sent[r] # {}
             PROVE  /\ \A pair \in sent[r] : Admitting[r] = {pair[1]}
                    /\ r \in Straight /\ told[r] \in {0, 200, 502}
    BY DEF OneCredential
<1>1. /\ Verdict(r) = 200 /\ chosen[r] \in Covers[r] /\ told[r] \in {0, 200, 502}
      /\ \A pair \in sent[r] : pair[1] = chosen[r]
    BY DEF HandlerInv, Judgement, JudgedAt
<1>2. r \notin Dotted /\ Cardinality(Covers[r]) = 1
    BY <1>1 DEF Verdict
<1>3. Covers[r] = {chosen[r]}
    <2>1. IsFiniteSet(Covers[r])
        BY CoversAreCredentials, CredentialAssumption, FS_Subset
    <2>2. PICK c : Covers[r] = {c}
        BY <1>2, <2>1, FS_Singleton
    <2> QED
        BY <1>1, <2>2
<1>4. r \in Straight
    <2>1. Target[r].path \in Seq(STRING) /\ ~HasDotSegment(Target[r].path)
        BY <1>2, RequestAssumption DEF Dotted
    <2> QED
        BY <2>1, ClimbsHasDots DEF Straight
<1> QED
    BY <1>1, <1>3, <1>4, CoversAsRead

-----------------------------------------------------------------------------
(* What the handler promises *)

\* The slots of inFlight count the handlers that run, whichever way each of
\* them returns, and there are never more than the limit (credentials.go:110).
THEOREM SlotsComeBack == Spec => []SlotsCounted
<1>1. HandlerInv => SlotsCounted
    BY DEF HandlerInv
<1> QED
    BY <1>1, HandlersInvariant, PTL

\* A value leaves only in a request exactly one credential of its host admits
\* as its entries read, for every set of entries and every path
\* (credentials.go:128).
THEOREM OneCredentialEach == Spec => []OneCredential
BY SentByOne, HandlersInvariant, PTL

\* No echo hands the guest the value or the key in it, in an interim answer, a
\* header or a body that was held; what gets past is the body that was not
\* held, the trailer, the key in a body the first pass made too long, and what
\* the escaping of a uri made of the key (credentials.go:244).
THEOREM EchoesScrubbed == Spec => []EchoScrubbed
<1>1. HandlerInv => EchoScrubbed
    BY DEF HandlerInv
<1> QED
    BY <1>1, HandlersInvariant, PTL

\* A request that ended has one line in the journal, one that runs has none,
\* and no line carries the value (credentials.go:102).
THEOREM OneLineEach == Spec => []JournalledOnce
<1>1. HandlerInv => JournalledOnce
    BY DEF HandlerInv
<1> QED
    BY <1>1, HandlersInvariant, PTL
=============================================================================
