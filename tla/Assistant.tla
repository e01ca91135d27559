----------------------------- MODULE Assistant -----------------------------
(***************************************************************************)
(* What the gateway to the text and vision assistants makes of a reply: a  *)
(* draft of checkpoints and questions, or one result per checkpoint of an  *)
(* inspected image.  Wording is reduced to what the gateway reads in it:   *)
(* what the administrator counted, whether a part is to be centred, and    *)
(* what the wording of a checkpoint or of a question mentions.             *)
(***************************************************************************)
EXTENDS Naturals, Sequences, FiniteSets

CONSTANTS
  NoCode,   \* a checkpoint without code or label
  NoCount   \* an observation, or an analyzer's report, without a number

InScope == {"counting", "defect_detection"}
Method == InScope \union {"alignment", "presence_check"}
Seen == {"pass", "fail", "not_visible", "low_confidence"}

\* A reply reaches the gateway, or the call fails, or its envelope or its
\* JSON is malformed.
Failure == {"not_configured", "timeout", "unavailable"}
Malformed == {"no_json", "invalid_json", "not_object"}
Post(config, call) ==
  IF ~config THEN "not_configured"
  ELSE IF call \in {"timeout", "unavailable"} THEN call ELSE "answered"
ContentText(call) == call # "envelope"
CleanJson(call) == call \notin Malformed
Readable(config, call) ==
  Post(config, call) = "answered" /\ ContentText(call) /\ CleanJson(call)

-----------------------------------------------------------------------------
(* A draft: checkpoints [code, label, title, body, method, value, says, cv], *)
(* where code and label mention `title`, description and criteria `body`;    *)
(* and questions [code, field, mentions, words], `words` being the labels    *)
(* that occur in the wording.                                                *)

\* What the gateway knows how to count, in its order.  A text [counts, phrased,
\* mentions, centre] gives counts of some of it.
CountConcepts == <<"petal", "pearl", "rhinestone">>
Concept == {CountConcepts[i] : i \in 1 .. 3}

\* An unknown method becomes defect_detection, and a number the checkpoint
\* itself states (an exact count, a bound) becomes its expected value.
ValidateCheckpoint(cp) ==
  [cp EXCEPT !.method = IF cp.says = "count" THEN "counting"
                        ELSE IF @ \in Method THEN @ ELSE "defect_detection",
             !.value = IF @ = "none" /\ cp.says # "nothing" THEN "own" ELSE @]

Mentions(cp) == cp.title \union cp.body

\* The fact of the administrator's text that decides on a checkpoint: of what
\* the text counts and the checkpoint mentions, the first in the gateway's
\* order; else the centred part.
Claim(cp, text) ==
  LET counted == {i \in 1 .. 3 : CountConcepts[i] \in text.counts \intersect Mentions(cp)}
  IN IF counted # {} THEN CountConcepts[CHOOSE i \in counted : \A j \in counted : i <= j]
     ELSE IF "centre" \in Mentions(cp) /\ text.centre # "none" THEN "centre" ELSE "nothing"

\* The bound of a centred part, when the text has one.
CentreBound(text) == IF text.centre = "bounded" THEN "bound" ELSE "none"

\* A count has the concept it is of for its value.
Authoritative(cp, text) ==
  CASE Claim(cp, text) = "nothing" -> cp
    [] Claim(cp, text) = "centre" ->
         [cp EXCEPT !.method = "alignment", !.value = CentreBound(text), !.cv = "matching", !.body = {}]
    [] OTHER -> [cp EXCEPT !.method = "counting", !.value = Claim(cp, text), !.cv = "matching"]

\* The checkpoints that are kept: a second one that the same fact decides on is
\* dropped.
Kept(cps, text) ==
  LET claim(i) == Claim(cps[i], text)
      kept == {i \in DOMAIN cps :
                 ~(claim(i) # "nothing" /\ \E j \in 1 .. i - 1 : claim(j) = claim(i))}
      rank(i) == Cardinality({j \in kept : j <= i})
  IN [k \in 1 .. Cardinality(kept) |-> cps[CHOOSE i \in kept : rank(i) = k]]

\* Mutant of EnforceText: a count stays as the model typed it if it has one.
EnforceMissing(cps, text) ==
  LET kept == Kept(cps, text)
  IN [k \in DOMAIN kept |-> IF kept[k].value = "none" THEN Authoritative(kept[k], text) ELSE kept[k]]

\* Facts in the administrator's text override the model's typing.
EnforceText(cps, text) ==
  LET kept == Kept(cps, text) IN [k \in DOMAIN kept |-> Authoritative(kept[k], text)]

\* What a draft asks, whatever the model asked: the count of a counting
\* checkpoint it did not ask for, the tolerance of a part to be centred without
\* a bound.
CountQuestions(cps, asked) ==
  {[code |-> cps[i].code, field |-> "value", mentions |-> cps[i].title, words |-> {cps[i].label}] :
     i \in {j \in DOMAIN cps : /\ cps[j].method = "counting" /\ cps[j].value = "none"
                              /\ ~\E q \in asked : q.code = cps[j].code /\ q.field = "value"}}
Centred(cps) == {i \in DOMAIN cps : cps[i].method = "alignment" /\ "centre" \in cps[i].title}
ToleranceQuestion(cps) ==
  [code |-> cps[CHOOSE i \in Centred(cps) : \A j \in Centred(cps) : i <= j].code,
   field |-> "tolerance", mentions |-> {"centre"}, words |-> {"offset"}]

\* Question q names the resolved checkpoint cp: by its code, or because the
\* label of cp is a word of the question.
Redundant(q, cp) == cp.value # "none" /\ (q.code = cp.code \/ cp.label \in q.words)

Questions(cps, asked, text) ==
  LET unresolved == text.centre = "asked" /\ Centred(cps) # {}
      all == asked \union CountQuestions(cps, asked)
      others == IF unresolved THEN {q \in all : "centre" \notin q.mentions} ELSE all
  IN {q \in others \union (IF unresolved THEN {ToleranceQuestion(cps)} ELSE {}) :
        /\ \A i \in DOMAIN cps : ~Redundant(q, cps[i])
        /\ ~(q.field = "analyzer" /\ q.mentions \intersect text.counts # {})}

\* A reply whose checkpoints all have an identity becomes a draft.
NormalizeResult(reply, text) ==
  LET cps == EnforceText([i \in DOMAIN reply.cps |-> ValidateCheckpoint(reply.cps[i])], text)
  IN [intent |-> reply.intent, named |-> reply.named,
      cps |-> cps, qs |-> Questions(cps, reply.qs, text)]
Identified(reply) == \A i \in DOMAIN reply.cps : reply.cps[i].code # NoCode

\* What a failed call returns.
NoReply == [intent |-> "error"]

\* The text assistant's draft, or NoReply.
AuthorText(reply, text, config) ==
  IF Readable(config, reply.call) /\ Identified(reply) THEN NormalizeResult(reply, text) ELSE NoReply

\* Text that says nothing the gateway recognises.
NoText == [counts |-> {}, phrased |-> {}, mentions |-> {}, centre |-> "none"]

\* A reference photo is only described: its checkpoints are discarded.
AuthorImage(reply, config) ==
  IF Readable(config, reply.call) /\ Identified(reply)
  THEN [NormalizeResult(reply, NoText) EXCEPT !.cps = <<>>] ELSE NoReply

\* A scanned page is read; `legible` is whether the model returned any text.
ExtractImageText(page, config) == Readable(config, page.call) /\ page.legible

-----------------------------------------------------------------------------
(* An inspected image: a contract of checkpoints [code, method], the        *)
(* counts of the CV analysis and the model's results [code, result, saw,    *)
(* cv], cv being what the model says of the CV count.                       *)

\* The first analyzer of a point that reports a number counts for it; of two
\* entries for one point the later one counts.
CvCounts(points) ==
  LET counted == {i \in DOMAIN points : \E k \in DOMAIN points[i].counts : points[i].counts[k] # NoCount}
      last(c) == CHOOSE i \in counted : points[i].code = c /\ \A j \in counted : points[j].code = c => j <= i
      first(s) == s[CHOOSE k \in DOMAIN s : s[k] # NoCount /\ \A l \in 1 .. k - 1 : s[l] = NoCount]
  IN [c \in {points[i].code : i \in counted} |-> first(points[last(c)].counts)]

Codes(contract) == {contract[i].code : i \in DOMAIN contract}
Hint(contract, c) == contract[CHOOSE i \in DOMAIN contract : contract[i].code = c].method

\* The model answers for a checkpoint it was not given, twice for one, with no
\* valid result, or says that it agrees with a count it contradicts.
Refused(contract, answer, cv) ==
  \E i \in DOMAIN answer :
    \/ answer[i].code \notin Codes(contract)
    \/ \E j \in 1 .. i - 1 : answer[j].code = answer[i].code
    \/ answer[i].result \notin Seen
    \/ /\ answer[i].cv = "agrees" /\ answer[i].code \in DOMAIN cv
       /\ answer[i].saw \notin {NoCount, cv[answer[i].code]}

\* Mutant of Judged: without a CV count the model's own count is taken.
JudgedByModel(item, method, cv) ==
  IF method = "counting" /\ item.code \in DOMAIN cv
  THEN [code |-> item.code, saw |-> cv[item.code],
        result |-> IF item.cv = "disagrees" /\ item.result = "pass" THEN "low_confidence" ELSE item.result]
  ELSE [code |-> item.code, saw |-> item.saw, result |-> item.result]

\* The CV count is the observation; a pass the model disputes, and any result
\* without a CV count, goes to a human.
Judged(item, method, cv) ==
  IF method # "counting" THEN [code |-> item.code, saw |-> item.saw, result |-> item.result]
  ELSE IF item.code \in DOMAIN cv
       THEN [code |-> item.code, saw |-> cv[item.code],
             result |-> IF item.cv = "disagrees" /\ item.result = "pass" THEN "low_confidence"
                        ELSE item.result]
       ELSE [code |-> item.code, saw |-> item.saw, result |-> "low_confidence"]

\* One result per checkpoint of the contract; what the model left out was not
\* visible.
NormalizeInspection(contract, answer, cv) ==
  [i \in DOMAIN contract |->
     LET given == {k \in DOMAIN answer : answer[k].code = contract[i].code}
     IN IF given = {} THEN [code |-> contract[i].code, saw |-> NoCount, result |-> "not_visible"]
        ELSE Judged(answer[CHOOSE k \in given : TRUE], contract[i].method, cv)]

Excluded(cp) == [code |-> cp.code, saw |-> NoCount, result |-> "low_confidence"]

\* The model sees only the checkpoints within its scope; a human sees the rest.
InspectImage(contract, call, config, answer, points) ==
  LET cv == CvCounts(points)
      sent == [i \in {j \in DOMAIN contract : contract[j].method \in InScope} |-> contract[i]]
      judged == NormalizeInspection(sent, answer, cv)
      of(c) == judged[CHOOSE i \in DOMAIN sent : sent[i].code = c]
  IN [ok |-> /\ contract # <<>>
             /\ sent = <<>> \/ (Readable(config, call) /\ ~Refused(sent, answer, cv)),
      results |-> [i \in DOMAIN contract |->
                     IF contract[i].method \in InScope THEN of(contract[i].code)
                     ELSE Excluded(contract[i])]]
=============================================================================
