----------------------------- MODULE MCVerdict -----------------------------
(* The verdict flow: payloads for the verdict table, a few for liveness,   *)
(* and every one of up to two results for the duplicated checkpoint.       *)
EXTENDS VerdictClaims, TLC

\* All submissions of at most two checkpoint results.
MCAllPayloads ==
  [known : BOOLEAN, bundleOk : BOOLEAN,
   cps : UNION {[1 .. n -> [id : Cid, res : Result]] : n \in 0 .. 2}]

MCPayload(v) ==
  [known |-> TRUE, bundleOk |-> TRUE, cps |-> <<[id |-> "a", res |-> v]>>]

\* A passing and a failing submission, and one for an unknown revision.
MCFewPayloads ==
  {MCPayload("pass"), MCPayload("fail"), [MCPayload("pass") EXCEPT !.known = FALSE]}

MCCheck(i, v) == [id |-> i, res |-> v]
MCTrusted(s) == [known |-> TRUE, bundleOk |-> TRUE, cps |-> s]

\* Payloads that meet every line of the verdict table over the required
\* checkpoints "a" and "b": complete with a repeated result, in two orders,
\* failed and incomplete, incomplete with an unknown checkpoint, unclear, and
\* not to be trusted.
MCPayloads ==
  LET a == MCCheck("a", "pass")
      b == MCCheck("b", "pass")
  IN {MCTrusted(s) : s \in
        {<<a, a, b>>, <<a, b, a>>, <<MCCheck("a", "fail")>>,
         <<a, MCCheck("x", "pass")>>, <<a, MCCheck("b", "other")>>}}
     \union {[MCTrusted(<<a, b>>) EXCEPT !.known = FALSE],
             [MCTrusted(<<a, b>>) EXCEPT !.bundleOk = FALSE]}

MCSymmetry == Permutations(Ref) \union Permutations(Worker)
=============================================================================
