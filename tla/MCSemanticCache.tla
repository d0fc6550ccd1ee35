-------------------------- MODULE MCSemanticCache --------------------------
(***************************************************************************)
(* SemanticCache for TLC, with the similarities that HashingEmbedder gives *)
(* to a few prompts as flattenPrompt writes them: their role, then their   *)
(* words.  The words of hello and thanks are in Greek letters, and the     *)
(* prompt of a request without messages is blank.                          *)
(***************************************************************************)
EXTENDS SemanticCache, HashingEmbedder

CONSTANTS c1, c2, question, paraphrase, hello, thanks, blank

MCClients == {c1, c2}

MCText == (question   :> <<"user", "explain", "tcp">>)
       @@ (paraphrase :> <<"user", "please", "explain", "tcp">>)
       @@ (hello      :> <<"user", "kalimera">>)
       @@ (thanks     :> <<"user", "efcharisto">>)
       @@ (blank      :> <<>>)

MCTokens == {"user", "please", "explain", "tcp"}

MCHash == ("user" :> <<0, 1>>)   @@ ("please" :> <<1, -1>>)
       @@ ("explain" :> <<2, 1>>) @@ ("tcp" :> <<3, -1>>)

MCPrompts == {question, paraphrase, blank}
MCBlank   == {blank}

MCSimilarity ==
    [pq \in Prompts \X Prompts |->
        LET pair == {pq[1], pq[2]}
        IN  IF blank \in pair THEN 0
            ELSE IF pq[1] = pq[2] THEN 100 ELSE 86]

\* These tables are the embedder's.
ASSUME TablesAssumption ==
    \A p, q \in Prompts :
        /\ MCSimilarity[<<p, q>>] = cosineDot(Embed(MCText[p]), Embed(MCText[q]))
        /\ p \in MCBlank <=> Embed(MCText[p]) = Embed(<<>>)

\* Of words in other letters nothing is hashed: prompts that have only their
\* role in common embed alike.
ASSUME ForeignAssumption == Embed(MCText[hello]) = Embed(MCText[thanks])

ClientSymmetry == Permutations(MCClients)
=============================================================================
