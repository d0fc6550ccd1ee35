--------------------------- MODULE HashingEmbedder ---------------------------
(***************************************************************************)
(* internal/cache/embedder.go: the deterministic embedder, by the hashing  *)
(* trick.  A text is the sequence of its words in lower case; a word of    *)
(* Tokens is one of ASCII letters and digits, and everything else in a     *)
(* text separates words.  Which bucket and sign a token has (FNV) is a     *)
(* constant.  Vectors stay integers here: they are normalized where two of *)
(* them are compared.                                                      *)
(***************************************************************************)
EXTENDS Integers, SequencesExt

CONSTANTS
    Tokens,   \* words of a-z and 0-9
    Dim,      \* HashingEmbedder.dim
    Hash      \* hashToken

ASSUME DimAssumption  == Dim \in Nat \ {0}
ASSUME HashAssumption == Hash \in [Tokens -> (0..Dim - 1) \X {-1, 1}]

tokenize(text) == SelectSeq(text, LAMBDA word : word \in Tokens)

\* One token: its bucket goes up or down by one.
Add(vec, tok) == [vec EXCEPT ![Hash[tok][1]] = @ + Hash[tok][2]]

\* The loop of Embed.
Counts(toks) == FoldLeft(Add, [i \in 0..Dim - 1 |-> 0], toks)

Embed(text) == Counts(tokenize(text))

Dot(u, v) == FoldFunction(+, 0, [i \in 0..Dim - 1 |-> u[i] * v[i]])

\* cosineDot of the normalized vectors, in percent.  The zero vector cannot be
\* normalized and is near to nothing, not even to itself.
cosineDot(u, v) ==
    LET n == Dot(u, u) * Dot(v, v)
        d == 10000 * Dot(u, v) * Dot(u, v)
        c == CHOOSE k \in 0..100 :
                k * k * n <= d /\ (k < 100 => d < (k + 1) * (k + 1) * n)
    IN  IF n = 0 THEN 0 ELSE IF Dot(u, v) < 0 THEN -c ELSE c
=============================================================================
