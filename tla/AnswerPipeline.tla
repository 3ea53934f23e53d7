--------------------------- MODULE AnswerPipeline ---------------------------
(***************************************************************************)
(* One question from the request to the rating of its answer               *)
(* (app/rag/answer.py, guardrails.py, app/api/routes/chat.py): two         *)
(* searches, routing, a clarifying question, the model's answer and its    *)
(* citations, the rows of the audit log, the cached result that answers a  *)
(* colleague, and feedback, beside changes of access.                      *)
(*                                                                         *)
(* Callers with the same fingerprint are a group.  A change of access and  *)
(* its new acl_version are one step, and cached results do not age: what   *)
(* happens when they are not and do is the subject of AnswerCache.         *)
(***************************************************************************)
EXTENDS Routing, SequencesExt

CONSTANTS
  Groups,      \* fingerprints
  Users,
  Admin,       \* the administrator, who may ask as any group
  Group,       \* the group of each user
  Seeded,      \* what each group may read to begin with
  Questions,   \* questions, as condensed
  Asked,       \* scopes clients send
  Changing,    \* the groups and documents whose access changes
  Suspicious,  \* documents that read like instructions to the model
  Scores,      \* fused scores a chunk may have
  MaxAsks,     \* bound on questions asked
  MaxMarks,    \* bound on the citations of an answer
  MaxRatings,  \* bound on ratings sent
  MaxChanges   \* bound on changes of access

ASSUME AdminAssumption  == Admin \in Users
ASSUME GroupAssumption  == Group \in [Users -> Groups]
ASSUME SeededAssumption == Seeded \in [Groups -> SUBSET Docs]
ASSUME ChangingAssumption == Changing \subseteq Groups \X Docs
ASSUME DocsAssumption   == IsFiniteSet(Docs)
ASSUME QuestionsAssumption == Questions # {}
ASSUME AskedAssumption  ==
  Asked \subseteq Capabilities(Docs) \cup {NoCapability, ALL_CAPABILITIES}
ASSUME ScoresAssumption == Scores \subseteq Nat \ {0}
ASSUME BoundsAssumption == {MaxAsks, MaxChanges} \subseteq Nat

VARIABLES
  readable,  \* what visible_docs is for each group
  version,   \* acl_version
  cache,     \* _CACHE
  log,       \* audit_events, in the order of their ids
  request,   \* the request each user has under way
  shown,     \* what each user was shown last
  asks       \* how much of MaxAsks is used

vars == <<readable, version, cache, log, request, shown, asks>>

Invented == "invented"   \* a citation of anything that is not in the context
NoTurn == 0

-----------------------------------------------------------------------------
(***************************************************************************)
(* Results, rows, requests.                                                *)
(***************************************************************************)

\* AnswerResult; marks are the citations left in the text.
Result(text, marks, sources, choices, turn) ==
  [text |-> text, marks |-> marks, sources |-> sources, choices |-> choices,
   turn |-> turn]

Nothing == Result("nothing", {}, {}, {}, NoTurn)

\* audit_events; about: the question, or the turn that is rated.
Row(event, actor, about, documents) ==
  [event |-> event, actor |-> actor, about |-> about, documents |-> documents]

QueryEvents == {"query", "query_refused"}

\* reach is history: what the group could read since the request began.
Idle ==
  [pc |-> "idle", group |-> CHOOSE g \in Groups : TRUE,
   question |-> CHOOSE q \in Questions : TRUE, asked |-> NoCapability,
   scope |-> NoCapability, version |-> 0, found |-> {},
   context |-> {}, dropped |-> {}, reach |-> {}]

Init ==
  /\ readable = Seeded
  /\ version = 1
  /\ cache = <<>>
  /\ log = <<>>
  /\ request = [u \in Users |-> Idle]
  /\ shown = [u \in Users |-> [result |-> Nothing, asked |-> NoCapability,
                               cached |-> FALSE, reach |-> {}]]
  /\ asks = 0

\* Mutant: the scope is not part of the key.
CacheKeyWithoutScope(r) ==
  [question |-> r.question, group |-> r.group, version |-> r.version]

\* Mutant: neither is the caller.
CacheKeyWithoutCaller(r) ==
  [question |-> r.question, version |-> r.version, asked |-> r.asked]

CacheKey(r) ==
  [question |-> r.question, group |-> r.group, version |-> r.version,
   asked |-> r.asked]

\* What the client puts on the screen; a retraction over the stream comes
\* without the id of its turn.
Deliver(u, r, result, cached) ==
  /\ request' = [request EXCEPT ![u] = Idle]
  /\ \E turn \in {result.turn} \cup
                 (IF result.text = "unverified" /\ ~cached THEN {NoTurn} ELSE {}) :
       shown' = [shown EXCEPT ![u] =
         [result |-> [result EXCEPT !.turn = turn], asked |-> r.asked,
          cached |-> cached, reach |-> r.reach]]

\* The rows are committed and the result is cached.
Answer(u, r, result, rows) ==
  /\ log' = log \o rows
  /\ cache' = [k \in DOMAIN cache \cup {CacheKey(r)} |->
                 IF k = CacheKey(r) THEN result ELSE cache[k]]
  /\ Deliver(u, r, result, FALSE)

-----------------------------------------------------------------------------
(***************************************************************************)
(* The request.                                                            *)
(***************************************************************************)

\* answer_question and stream_answer, up to the lookup.
Lookup(u, r) ==
  /\ IF CacheKey(r) \in DOMAIN cache
     THEN Deliver(u, r, cache[CacheKey(r)], TRUE)
     ELSE request' = [request EXCEPT ![u] = r] /\ UNCHANGED shown
  /\ asks' = asks + 1
  /\ UNCHANGED <<readable, version, cache, log>>

Asking(g, q, c) ==
  [Idle EXCEPT !.pc = "search", !.group = g, !.question = q, !.asked = c,
               !.scope = SearchScope(c), !.version = version,
               !.reach = readable[g]]

Ask(u, q, c) ==
  /\ request[u].pc = "idle"
  /\ asks < MaxAsks
  /\ Lookup(u, Asking(Group[u], q, c))

InScope(g, c) == {d \in readable[g] : c = NoCapability \/ Capability[d] = c}

\* compare_roles, one role: a first search, with the scope as it was sent, and
\* a question only if there is anything to answer it from.
Compare(g, q, c) ==
  LET r == Asking(g, q, c)
  IN  /\ request[Admin].pc = "idle"
      /\ asks < MaxAsks
      /\ IF InScope(g, c) # {} THEN Lookup(Admin, r)
         ELSE /\ Deliver(Admin, r, [Nothing EXCEPT !.text = "refusal"], FALSE)
              /\ asks' = asks + 1
              /\ UNCHANGED <<readable, version, cache, log>>

Proceeds(u, pc, r) ==
  /\ request' = [request EXCEPT ![u] = [r EXCEPT !.pc = pc]]
  /\ UNCHANGED <<readable, version, cache, log, shown, asks>>

\* hybrid_search: some of what may be read, and something if there is anything.
HybridSearch(u) ==
  LET r == request[u]
  IN  /\ r.pc \in {"search", "search again"}
      /\ \E found \in SUBSET InScope(r.group, r.scope) :
           /\ InScope(r.group, r.scope) # {} => found # {}
           /\ Proceeds(u, IF r.pc = "search" THEN "verify" ELSE "verify again",
                       [r EXCEPT !.found = found])

\* verify_chunks: the context a search leaves, once G4 has dropped what is not
\* readable.
Verified(r) ==
  [r EXCEPT !.context = r.found \cap readable[r.group],
            !.dropped = r.found \ readable[r.group], !.found = {}]

\* Mutant: an empty second search replaces the first context.
VerifyScopedAlways(u) ==
  request[u].pc = "verify again" /\ Proceeds(u, "complete", Verified(request[u]))

\* After the second search; if it is empty the first context stands.
VerifyScoped(u) ==
  LET r == request[u]
  IN  /\ r.pc = "verify again"
      /\ Proceeds(u, "complete",
                  IF Verified(r).context = {} THEN [r EXCEPT !.found = {}]
                  ELSE Verified(r))

-----------------------------------------------------------------------------
(***************************************************************************)
(* Citations, and the rows an answer leaves.                               *)
(***************************************************************************)

\* validate_citations.
CitationsOk(raw, context) ==
  raw.marks \subseteq context /\ raw.text # "claims"

Retracted(raw, context) == ~CitationsOk(raw, context) /\ raw.marks \cap context = {}

\* Mutant: markers outside the context stay in the text.
FinalTextUnstripped(raw, context) ==
  IF Retracted(raw, context) THEN [text |-> "unverified", marks |-> {}]
  ELSE [text |-> IF raw.text = "refusal" THEN "refusal" ELSE "answer",
        marks |-> raw.marks]

\* strip_citations, or UNVERIFIED_TEXT when nothing can be traced.
FinalText(raw, context) ==
  IF Retracted(raw, context) THEN [text |-> "unverified", marks |-> {}]
  ELSE [text |-> IF raw.text = "refusal" THEN "refusal" ELSE "answer",
        marks |-> raw.marks \cap context]

If(condition, row) == IF condition THEN <<row>> ELSE <<>>

AnomalyRows(u, r) ==
  SetToSeq({Row("security_anomaly", u, r.question, {d}) : d \in r.dropped})

RejectionRow(u, r, raw) ==
  If(~CitationsOk(raw, r.context), Row("citation_rejected", u, r.question, {}))

QueryRow(u, r, text) ==
  Row(IF text = "refusal" THEN "query_refused" ELSE "query", u, r.question,
      r.context)

\* Mutant: the turn is the first row written.
FinaliseFirstRow(u, r, raw) ==
  LET final == FinalText(raw, r.context)
      rows  == RejectionRow(u, r, raw) \o AnomalyRows(u, r)
               \o <<QueryRow(u, r, final.text)>>
  IN  Answer(u, r, Result(final.text, final.marks, final.marks, {}, Len(log) + 1),
             rows)

\* _finalise.
Finalise(u, r, raw) ==
  LET final == FinalText(raw, r.context)
      rows  == RejectionRow(u, r, raw)
               \o If(r.context \cap Suspicious # {},
                     Row("injection_detected", u, r.question, r.context \cap Suspicious))
               \o AnomalyRows(u, r)
               \o <<QueryRow(u, r, final.text)>>
      sources == IF final.text = "answer" THEN raw.marks \cap r.context ELSE {}
  IN  Answer(u, r, Result(final.text, final.marks, sources, {},
                          Len(log) + Len(rows)), rows)

\* _finalise_clarification: one row, whatever G4 dropped.
FinaliseClarification(u, r, choices) ==
  Answer(u, r, Result("choice", {}, {}, choices, Len(log) + 1),
         <<QueryRow(u, r, "choice")>>)

Refusal == [text |-> "refusal", marks |-> {}]

\* What G4 leaves of the first search.  An empty context is refused; a choice
\* already made stands; otherwise route_question decides on the scores.
RouteQuestion(u) ==
  LET r == Verified(request[u])
  IN  /\ r.pc = "verify"
      /\ IF r.context = {}
         THEN Finalise(u, r, Refusal)
              /\ UNCHANGED <<readable, version, asks>>
         ELSE IF r.asked # NoCapability THEN Proceeds(u, "complete", r)
         ELSE \E scores \in [r.context -> Scores] :
                LET decision == Route(r.question, scores)
                IN  IF decision.choices # {}
                    THEN /\ FinaliseClarification(u, r, decision.choices)
                         /\ UNCHANGED <<readable, version, asks>>
                    ELSE IF decision.named
                    THEN Proceeds(u, "search again",
                                  [r EXCEPT !.scope = decision.capability])
                    ELSE Proceeds(u, "complete", r)

\* What the model may write; a refusal with a citation in it is an answer, and
\* more than two hundred characters without one are claims.
RawAnswers(context) ==
  {Refusal, [text |-> "claims", marks |-> {}]}
    \cup [text : {"answer"}, marks : UNION {kSubset(n, context \cup {Invented}) : n \in 0..MaxMarks}]

Complete(u) ==
  /\ request[u].pc = "complete"
  /\ \E raw \in RawAnswers(request[u].context) : Finalise(u, request[u], raw)
  /\ UNCHANGED <<readable, version, asks>>

\* The model or the database gives up, or a streaming client hangs up, even
\* after it was sent the text: nothing is recorded.
Abandon(u) ==
  /\ request[u].pc # "idle"
  /\ request' = [request EXCEPT ![u] = Idle]
  /\ UNCHANGED <<readable, version, cache, log, shown, asks>>

-----------------------------------------------------------------------------
(***************************************************************************)
(* Feedback, and access.                                                   *)
(***************************************************************************)

\* Mutant: only answers can be rated.
OutcomeOfAnswersOnly(u, turn) ==
  IF log[turn].event # "query" THEN "not found"
  ELSE IF log[turn].actor # u THEN "forbidden" ELSE "recorded"

Outcome(u, turn) ==
  IF log[turn].event \notin QueryEvents THEN "not found"
  ELSE IF log[turn].actor # u THEN "forbidden" ELSE "recorded"

\* submit_feedback: what is rated is read back from the row of the question;
\* 404 and 403 leave nothing behind.
SubmitFeedback(u, turn) ==
  /\ Len(SelectSeq(log, LAMBDA row : row.event = "feedback")) < MaxRatings
  /\ Outcome(u, turn) = "recorded"
  /\ log' = Append(log, Row("feedback", u, turn, log[turn].documents))
  /\ UNCHANGED <<readable, version, cache, request, shown, asks>>

\* A document comes within a group's reach or leaves it; requests under way
\* may see it.
ChangeAccess(g, d) ==
  /\ version <= MaxChanges
  /\ readable' = [readable EXCEPT ![g] = IF d \in @ THEN @ \ {d} ELSE @ \cup {d}]
  /\ version' = version + 1
  /\ request' = [u \in Users |->
       IF request[u].pc # "idle" /\ request[u].group = g
       THEN [request[u] EXCEPT !.reach = @ \cup readable'[g]] ELSE request[u]]
  /\ UNCHANGED <<cache, log, shown, asks>>

RequestStep(u) ==
  \/ HybridSearch(u)
  \/ VerifyScoped(u)
  \/ RouteQuestion(u)
  \/ Complete(u)

Next ==
  \/ \E u \in Users, q \in Questions, c \in Asked : Ask(u, q, c)
  \/ \E g \in Groups, q \in Questions, c \in Asked : Compare(g, q, c)
  \/ \E u \in Users : RequestStep(u)
  \/ \E u \in Users : Abandon(u)
  \/ \E u \in Users, turn \in DOMAIN log : SubmitFeedback(u, turn)
  \/ \E change \in Changing : ChangeAccess(change[1], change[2])

Spec == Init /\ [][Next]_vars
-----------------------------------------------------------------------------
(***************************************************************************)
(* Properties.                                                             *)
(***************************************************************************)

Texts == {"nothing", "answer", "refusal", "unverified", "choice"}

ResultType(result) ==
  /\ result.text \in Texts
  /\ result.marks \cup result.sources \subseteq Docs \cup {Invented}
  /\ result.choices \subseteq Capabilities(Docs)
  /\ Cardinality(result.choices) \in {0, 2, 3}
  /\ result.text = "choice" <=> result.choices # {}
  /\ result.turn \in 0..Len(log)

(***************************************************************************)
(* Type invariant; a clarifying question offers two or three capabilities. *)
(***************************************************************************)
TypeOK ==
  /\ readable \in [Groups -> SUBSET Docs]
  /\ version \in 1..(MaxChanges + 1)
  /\ \A k \in DOMAIN cache : ResultType(cache[k])
  /\ \A i \in DOMAIN log :
       /\ log[i].actor \in Users
       /\ log[i].documents \subseteq Docs
       /\ log[i].event \in QueryEvents \cup
            {"citation_rejected", "injection_detected", "security_anomaly", "feedback"}
  /\ \A u \in Users :
       /\ DOMAIN request[u] = DOMAIN Idle
       /\ request[u].pc \in {"idle", "search", "verify", "search again",
                             "verify again", "complete"}
       /\ request[u].pc = "complete" => request[u].context # {}
       /\ ResultType(shown[u].result)
  /\ asks \in 0..MaxAsks

(***************************************************************************)
(* "A clarifying question can never name a capability they cannot read"    *)
(* (routing.py), nor an answer a source: whatever a caller is shown, fresh *)
(* or made for a colleague, after one search or two, was readable to them  *)
(* while they waited.                                                      *)
(***************************************************************************)
NamesOnlyReadable ==
  \A u \in Users :
    /\ shown[u].result.sources \subseteq shown[u].reach
    /\ shown[u].result.choices \subseteq Capabilities(shown[u].reach)

(***************************************************************************)
(* Every marker left in an answer leads to one of the sources beside it,   *)
(* and what is not an answer has neither (G6).                             *)
(***************************************************************************)
MarksLeadToSources ==
  \A u \in Users :
    /\ shown[u].result.marks = shown[u].result.sources
    /\ shown[u].result.text # "answer" => shown[u].result.sources = {}

(***************************************************************************)
(* Who has chosen is not asked again: neither a chosen capability nor "*"  *)
(* is ever met with another clarifying question, from the cache or not.    *)
(***************************************************************************)
ChoiceIsFinal ==
  \A u \in Users :
    shown[u].asked # NoCapability => shown[u].result.text # "choice"

(***************************************************************************)
(* The turn of an answer is the row of its question: of that answer's      *)
(* kind, with every source it names among the documents used, and, unless  *)
(* it came from the cache, in the name of who asked.                       *)
(***************************************************************************)
TurnIsOnRecord ==
  \A u \in Users :
    LET result == shown[u].result
        row    == log[result.turn]
    IN  result.turn # NoTurn =>
          /\ row.event = IF result.text = "refusal" THEN "query_refused" ELSE "query"
          /\ result.sources \subseteq row.documents
          /\ ~shown[u].cached => row.actor = u

(***************************************************************************)
(* An answer made for its reader can be rated by its reader, be it a       *)
(* refusal or a clarifying question, and nobody else's can.                *)
(***************************************************************************)
OwnAnswersAreRated ==
  /\ \A u \in Users :
       shown[u].result.turn # NoTurn /\ ~shown[u].cached
         => Outcome(u, shown[u].result.turn) = "recorded"
  /\ \A i \in DOMAIN log :
       log[i].event = "feedback" => log[log[i].about].actor = log[i].actor
=============================================================================
