------------------------------ MODULE Retrieval ------------------------------
(***************************************************************************)
(* What a recall and a context trace select from the stored records        *)
(* (AgentMemory._recall, AlwaysAvailableMemory.recall,                     *)
(* _build_context_response), and what the preflight keeps of it.           *)
(*                                                                         *)
(* A corpus is given best first: which of two current records ranks higher *)
(* is a matter of vectors and keyed tokens and is left free.  A score is   *)
(* the band it falls in: 0 is below a threshold, 1 is gated by its         *)
(* confidence band, 2 is open.  Scores of one band are within the          *)
(* ambiguity margin.  Time has the points 0 and 1.                         *)
(***************************************************************************)
EXTENDS Naturals, Sequences, FiniteSets, Functions, SequencesExt

CONSTANTS
  MaxStored,   \* the records of the corpus a recall searches
  MaxLinked    \* the records of the corpus a context trace follows; two are roots

ASSUME RetrievalAssumption == MaxStored \in Nat \ {0} /\ MaxLinked \in Nat \ {0, 1}

VARIABLES
  request,   \* the records, and what is asked of them
  answer     \* the answer, or how far the trace has come

retrievalVars == <<request, answer>>

Forever == 2   \* superseded_at of a record that is not superseded
Now == 2     \* no as_of was asked for

\* The prefix of a sequence with at most n elements.
Upto(s, n) == SubSeq(s, 1, IF Len(s) < n THEN Len(s) ELSE n)

\* What is left of the list s of records when only those in S are kept.
Only(s, S) ==
  LET kept[n \in 0 .. Len(s)] ==
        IF n = 0 THEN <<>>
        ELSE IF s[n] \in S THEN Append(kept[n - 1], s[n]) ELSE kept[n - 1]
  IN kept[Len(s)]

----------------------------------------------------------------------------
(* Recall *)

\* In effect at the time asked for.
InEffect(r, asOf) == asOf # Now => r.from <= asOf /\ asOf < r.until

\* temporal_current: not superseded, or in effect at the time asked for.
TemporalCurrent(r, asOf) == asOf = Now => r.until = Forever

\* Above the relevance and answerability thresholds, and not expired.
Eligible(r) == r.score > 0 /\ r.state # "expired"

\* _verify_record_integrity: the record's tag is that of its fields.
Intact(r) == r.state # "altered"

\* get_record: the payload of an intact record decrypts.
Decrypts(r) == r.state # "sealed"

\* _lexical_matches, and the semantic candidates likewise: the records of the
\* corpus, without those that fail their integrity check.  Each has some
\* score.  The limit on their number is larger than the corpus.
Matches(stored) ==
  Only([i \in DOMAIN stored |-> i], {i \in DOMAIN stored : Intact(stored[i])})

\* retrieval_candidates, and of those the ones that _recall keeps.
SemanticCandidates(stored, asOf) ==
  Only(Matches(stored),
       {i \in DOMAIN stored : InEffect(stored[i], asOf) /\ Eligible(stored[i])})

\* availability_candidates
OfflineCandidates(stored, asOf) ==
  Only(Matches(stored), {i \in DOMAIN stored : InEffect(stored[i], asOf)})

\* _mmr_rank, and the sort of availability_candidates, over positions in
\* the corpus: the current records come first.
Ranked(stored, asOf, candidates) ==
  LET current == {i \in DOMAIN stored : TemporalCurrent(stored[i], asOf)}
  IN  Only(candidates, current) \o Only(candidates, DOMAIN stored \ current)

\* _is_competing_pair.
Competing(stored, asOf, i, j) ==
  /\ i # j
  /\ TemporalCurrent(stored[i], asOf) /\ TemporalCurrent(stored[j], asOf)
  /\ stored[i].topic = stored[j].topic

RankedOnly(stored, asOf, ranked) == ranked

\* _prioritize_competing_candidates: each current candidate is followed by
\* the first of its rivals among the candidates that are left.
Prioritized(stored, asOf, ranked) ==
  LET P[rest \in Seq(DOMAIN stored)] ==
        IF rest = <<>> THEN <<>>
        ELSE LET c == Head(rest)
                 rivals == {i \in DOMAIN Tail(rest) :
                              Competing(stored, asOf, c, Tail(rest)[i])}
             IN  IF rivals = {} THEN <<c>> \o P[Tail(rest)]
                 ELSE LET p == CHOOSE i \in rivals : \A j \in rivals : i <= j
                      IN  <<c, Tail(rest)[p]>> \o P[RemoveAt(Tail(rest), p)]
  IN  P[ranked]

\* The results kept: for one result two are scanned, and the second one is
\* kept when the two compete.
Kept(stored, topK, asOf, found) ==
  LET scanned == Upto(found, IF topK = 1 THEN 2 ELSE topK)
      expanded == /\ topK = 1
                  /\ Len(scanned) = 2
                  /\ Competing(stored, asOf, scanned[1], scanned[2])
  IN  Upto(scanned, IF expanded THEN 2 ELSE topK)

\* AgentMemory._recall: what is expired or below a threshold is left out
\* before the ranking, what does not decrypt after it.
SemanticResults(stored, topK, asOf) ==
  LET candidates == SemanticCandidates(stored, asOf)
      ranked == Prioritized(stored, asOf, Ranked(stored, asOf, candidates))
  IN  Kept(stored, topK, asOf,
           Only(ranked, {i \in DOMAIN stored : Decrypts(stored[i])}))

\* AlwaysAvailableMemory.recall: both are left out after the ranking.
OfflineResults(stored, topK, asOf) ==
  LET candidates == OfflineCandidates(stored, asOf)
      ranked == Prioritized(stored, asOf, Ranked(stored, asOf, candidates))
      given == {i \in DOMAIN stored : Eligible(stored[i]) /\ Decrypts(stored[i])}
  IN  Kept(stored, topK, asOf, Only(ranked, given))

\* _annotate_competing_memories: the results marked possible_conflict.
Conflicting(stored, asOf, results) ==
  {i \in Range(results) :
     \E j \in Range(results) : Competing(stored, asOf, i, j)}

\* ranking_ambiguous: the two best are of different topics and too close.
Ambiguous(stored, results) ==
  /\ Len(results) >= 2
  /\ stored[results[1]].score <= stored[results[2]].score
  /\ stored[results[1]].topic # stored[results[2]].topic

\* check_generation_gate: the results whose payload is given out, to a caller
\* that does not ask for inferential ones with allow_inferential.
GivenOut(stored, results) == {i \in Range(results) : stored[i].score = 2}

\* The answer of a recall.  Offline, no result is gated and no ranking is
\* called ambiguous.
Recalled(stored, topK, asOf, results, offline) ==
  [kind |-> "recall", topK |-> topK, asOf |-> asOf,
   results |-> results,
   conflicting |-> Conflicting(stored, asOf, results),
   ambiguous |-> ~offline /\ Ambiguous(stored, results),
   payloads |-> IF offline THEN Range(results) ELSE GivenOut(stored, results),
   degraded |-> offline]

\* build_preflight_evidence with adaptive_results: the first result alone,
\* unless the answer is ambiguous or contested.  A degraded answer raises.
PreflightEvidence(recall) ==
  IF recall.ambiguous \/ recall.conflicting # {}
  THEN recall.results
  ELSE Upto(recall.results, 1)

----------------------------------------------------------------------------
(* Context trace *)

\* The roots are expanded: each counts as included, a gated one is not
\* followed.
ContextStart(links, roots, gated) ==
  LET From(i) == [n \in DOMAIN links[i] |->
                    [to |-> links[i][n], depth |-> 1, path |-> <<i>>]]
  IN  [kind |-> "trace",
       queue |-> FlattenSeq([n \in DOMAIN roots |->
                    IF roots[n] \in gated THEN <<>> ELSE From(roots[n])]),
       visited |-> Range(roots),
       evidence |-> {},
       incomplete |-> Range(roots) \cap gated # {}]

QueuedFirst(rest, new) == new \o rest

\* The links of a record just included join the end of the queue.
Queued(rest, new) == rest \o new

\* One turn of the loop.  bad are the records that are missing, expired or
\* not authentic.
Followed(r, t) ==
  LET e == Head(t.queue)
      rest == [t EXCEPT !.queue = Tail(@)]
      new == IF e.depth < r.depth
             THEN [n \in DOMAIN r.links[e.to] |->
                     [to |-> r.links[e.to][n], depth |-> e.depth + 1,
                      path |-> Append(e.path, e.to)]]
             ELSE <<>>
      onPath == e.to \in Range(e.path)
      included == [rest EXCEPT !.visited = @ \cup {e.to},
                               !.evidence = @ \cup {e.to},
                               !.queue = Queued(@, new)]
      flagged == [rest EXCEPT !.incomplete = TRUE]
  IN  IF onPath THEN flagged
      ELSE IF e.to \in t.visited THEN rest
      ELSE IF e.to \in r.bad THEN flagged
      ELSE included

----------------------------------------------------------------------------
(* The requests *)

\* A record that cannot be authenticated, expired or is below a threshold
\* has only what the ranking looks at.
Records ==
  {r \in [topic : 1..2, score : 0..2, from : 0..1, until : 1..2,
          state : {"sound", "expired", "altered", "sealed"}] :
     /\ r.from < r.until
     /\ r.score = 0 \/ r.state # "sound" =>
          /\ r.from = 0 /\ r.until = Forever
          /\ r.score = 0 <=> r.state = "sound"
          /\ r.score # 1}

RecallRequests ==
  [kind : {"recall"}, stored : [1..MaxStored -> Records]]

\* A record links to records that were stored before it; 1 is the latest.
Linkages ==
  {[i \in 1..MaxLinked |->
      Only([j \in 1..MaxLinked |-> j], {j \in 1..MaxLinked : <<i, j>> \in g})] :
     g \in SUBSET {e \in (1..MaxLinked) \X (1..MaxLinked) : e[1] < e[2]}}

ContextRequests ==
  [kind : {"context"}, links : Linkages,
   roots : {<<1>>, <<1, 2>>, <<2, 1>>}, gated : {{}, {2}},
   bad : {{}} \cup {{i} : i \in 3..MaxLinked},
   depth : 1..2, limit : {2, 8}]

NoAnswer == [kind |-> "none"]

RetrievalInit ==
  /\ request \in RecallRequests \cup ContextRequests
  /\ answer = NoAnswer

----------------------------------------------------------------------------
(* The operations *)

Recall(topK, asOf, offline) ==
  /\ request.kind = "recall" /\ answer = NoAnswer
  /\ LET results == IF offline
                    THEN OfflineResults(request.stored, topK, asOf)
                    ELSE SemanticResults(request.stored, topK, asOf)
     IN  answer' = Recalled(request.stored, topK, asOf, results, offline)
  /\ UNCHANGED request

\* preview_context, up to the loop of _build_context_response.
BeginContext ==
  /\ request.kind = "context" /\ answer = NoAnswer
  /\ answer' = ContextStart(request.links, request.roots, request.gated)
  /\ UNCHANGED request

\* The caller's limit on evidence; MAX_CONTEXT_EDGES is above the number of links
\* that MaxLinked records can have.
MoreLinks ==
  answer.queue # <<>> /\ Cardinality(answer.evidence) < request.limit

FollowLink ==
  /\ answer.kind = "trace" /\ MoreLinks
  /\ answer' = Followed(request, answer)
  /\ UNCHANGED request

\* The response: links left in the queue make it incomplete.
EndContext ==
  /\ answer.kind = "trace" /\ ~MoreLinks
  /\ answer' = [kind |-> "context", evidence |-> answer.evidence,
                incomplete |-> answer.incomplete \/ answer.queue # <<>>]
  /\ UNCHANGED request

RetrievalNext ==
  \/ \E topK \in 1..3, asOf \in 0..2, offline \in BOOLEAN :
       Recall(topK, asOf, offline)
  \/ BeginContext \/ FollowLink \/ EndContext

RetrievalSpec == RetrievalInit /\ [][RetrievalNext]_retrievalVars

----------------------------------------------------------------------------
(* Properties *)

\* When the best result of a recall has a rival, a current record of its own
\* topic, then whatever number of results was asked for a rival stands right
\* behind it and both are marked as a possible conflict, and the preflight
\* keeps the two (a record that fails its integrity check hides no rival);
\* and no result is outside the time asked for, expired, below
\* the threshold or not authentic.  (A rival that turns out unreadable takes
\* the place of the next one, and offline a rival below the threshold does:
\* those answers are held to the second half only.)
RivalsTogether ==
  answer.kind = "recall" =>
    LET stored == request.stored
        results == answer.results
        rivals == {i \in DOMAIN stored :
                     /\ InEffect(stored[i], answer.asOf) /\ Eligible(stored[i])
                     /\ Intact(stored[i])
                     /\ Competing(stored, answer.asOf, results[1], i)}
    IN  /\ \A i \in Range(results) :
             /\ InEffect(stored[i], answer.asOf) /\ Eligible(stored[i])
             /\ stored[i].state = "sound"
        /\ /\ results # <<>> /\ ~answer.degraded
           /\ rivals # {} /\ \A i \in rivals : stored[i].state = "sound"
           => /\ Len(results) >= 2 /\ results[2] \in rivals
              /\ {results[1], results[2]} \subseteq answer.conflicting
              /\ answer.topK = 2 => PreflightEvidence(answer) = results

\* The reference: what the roots that are followed reach over records that
\* can be read, in at most so many links.
Reached(r) ==
  LET R[n \in 0 .. r.depth] ==
        IF n = 0 THEN Range(r.roots) \ r.gated
        ELSE R[n - 1]
               \cup UNION {Range(r.links[i]) : i \in R[n - 1] \ r.bad}
  IN  R[r.depth]

\* A context trace that does not call itself incomplete has found everything
\* that its roots reach within the depth asked for, whichever way round the
\* records are linked: a record first met at the depth limit must not hide
\* what follows it on a shorter way.  It never includes a record that is
\* missing, expired or not authentic.
ContextComplete ==
  answer.kind = "context" =>
    /\ answer.evidence \subseteq Reached(request) \ request.bad
    /\ ~answer.incomplete =>
         Reached(request) \subseteq answer.evidence \cup Range(request.roots)
=============================================================================
