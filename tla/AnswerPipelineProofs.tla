------------------------ MODULE AnswerPipelineProofs ------------------------
(***************************************************************************)
(* What a reader is shown, for any documents, groups, users, questions and *)
(* scores, any number of questions, ratings and changes of access: it was  *)
(* readable to them, its marks lead to its sources, its turn is on record  *)
(* and can be rated by who it was made for, and a choice is final.         *)
(***************************************************************************)
EXTENDS AnswerPipeline, FiniteSetTheorems, SequenceTheorems, Induction, TLAPS

Stages == {"idle", "search", "verify", "search again", "verify again", "complete"}

Events ==
  QueryEvents \cup {"citation_rejected", "injection_detected", "security_anomaly"}

ResultRecords ==
  [text : Texts, marks : SUBSET Docs, sources : SUBSET Docs, choices : SUBSET Nat,
   turn : Nat]

\* A row that answering writes, and any row.
AnswerRow ==
  [event : Events, actor : Users, about : Questions \cup Nat, documents : SUBSET Docs]
AnyRow ==
  [event : Events \cup {"feedback"}, actor : Users, about : Questions \cup Nat,
   documents : SUBSET Docs]

Requested ==
  [pc : Stages, group : Groups, question : Questions, asked : Int, scope : Int,
   version : Nat, found : SUBSET Docs, context : SUBSET Docs, dropped : SUBSET Docs,
   reach : SUBSET Docs]

Keys == [question : Questions, group : Groups, version : Nat, asked : Int]

Displayed ==
  [result : ResultRecords, asked : Int, cached : BOOLEAN, reach : SUBSET Docs]

Typed ==
  /\ readable \in [Groups -> SUBSET Docs]
  /\ version \in Nat
  /\ DOMAIN cache \subseteq Keys
  /\ \A k \in DOMAIN cache : cache[k] \in ResultRecords
  /\ log \in Seq(AnyRow)
  /\ request \in [Users -> Requested]
  /\ shown \in [Users -> Displayed]

-----------------------------------------------------------------------------
(***************************************************************************)
(* What is true of a result, wherever it is kept.                          *)
(***************************************************************************)

Traceable(result) ==
  result.marks = result.sources /\ (result.text # "answer" => result.sources = {})

Final(result, scope) == scope # NoCapability => result.text # "choice"

NamesIn(result, docs) ==
  result.sources \subseteq docs /\ result.choices \subseteq Capabilities(docs)

OnRecord(result, rows) ==
  result.turn # NoTurn =>
    /\ result.turn \in 1..Len(rows)
    /\ rows[result.turn].event =
         IF result.text = "refusal" THEN "query_refused" ELSE "query"
    /\ result.sources \subseteq rows[result.turn].documents

\* What is cached under the current version can still be read by who asks for it.
CacheInv ==
  \A k \in DOMAIN cache :
    /\ Traceable(cache[k])
    /\ Final(cache[k], k.asked)
    /\ k.version <= version
    /\ k.version = version => NamesIn(cache[k], readable[k.group])
    /\ OnRecord(cache[k], log)

\* reach covers all that may be read and all that has been found readable; the
\* context of a request that the version has not left behind is still readable.
Reaches(r) ==
  /\ r.version <= version
  /\ r.context \subseteq r.reach
  /\ readable[r.group] \subseteq r.reach
  /\ r.version = version => r.context \subseteq readable[r.group]

RequestInv == \A u \in Users : request[u].pc # "idle" => Reaches(request[u])

ShownInv ==
  \A u \in Users :
    /\ Traceable(shown[u].result)
    /\ Final(shown[u].result, shown[u].asked)
    /\ NamesIn(shown[u].result, shown[u].reach)
    /\ OnRecord(shown[u].result, log)
    /\ shown[u].result.turn # NoTurn /\ ~shown[u].cached
         => log[shown[u].result.turn].actor = u

FeedbackInv ==
  \A i \in 1..Len(log) : log[i].event = "feedback" =>
    /\ log[i].about \in 1..Len(log)
    /\ log[log[i].about].actor = log[i].actor

PipelineInv == Typed /\ CacheInv /\ RequestInv /\ ShownInv /\ FeedbackInv

-----------------------------------------------------------------------------
LEMMA IdleTyped == Idle \in Requested /\ Idle.pc = "idle" /\ Idle.context = {}
<1>1. Groups # {}
  BY AdminAssumption, GroupAssumption
<1>2. (CHOOSE g \in Groups : TRUE) \in Groups
  BY <1>1
<1>3. (CHOOSE q \in Questions : TRUE) \in Questions
  BY QuestionsAssumption
<1> QED BY <1>2, <1>3 DEF Idle, Requested, Stages, NoCapability

LEMMA CapabilitiesTyped ==
  ASSUME NEW docs \in SUBSET Docs
  PROVE  /\ Capabilities(docs) \subseteq Nat
         /\ \A more \in SUBSET Docs : docs \subseteq more
              => Capabilities(docs) \subseteq Capabilities(more)
BY CapabilityAssumption DEF Capabilities, Key

LEMMA NamesInMore ==
  ASSUME NEW result, NEW docs \in SUBSET Docs, NEW more \in SUBSET Docs,
         NamesIn(result, docs), docs \subseteq more
  PROVE  NamesIn(result, more)
BY CapabilitiesTyped DEF NamesIn

LEMMA NothingTyped ==
  ASSUME NEW text \in {"nothing", "refusal"}
  PROVE  LET result == [Nothing EXCEPT !.text = text]
         IN  /\ result \in ResultRecords
             /\ result.text = text /\ result.marks = {} /\ result.sources = {}
             /\ result.choices = {} /\ result.turn = NoTurn
BY DEF Nothing, Result, ResultRecords, Texts, NoTurn

LEMMA InitPipeline == Init => PipelineInv
<1> SUFFICES ASSUME Init PROVE PipelineInv
  OBVIOUS
<1>1. Nothing = [Nothing EXCEPT !.text = "nothing"]
  BY DEF Nothing, Result
<1>2. /\ Nothing \in ResultRecords /\ Nothing.text = "nothing" /\ Nothing.marks = {}
      /\ Nothing.sources = {} /\ Nothing.choices = {} /\ Nothing.turn = NoTurn
  BY <1>1, NothingTyped
<1>3. Typed
  <2>1. DOMAIN cache = {} /\ log \in Seq(AnyRow)
    BY DEF Init
  <2>2. [result |-> Nothing, asked |-> NoCapability, cached |-> FALSE, reach |-> {}]
          \in Displayed
    BY <1>2 DEF Displayed, NoCapability
  <2> QED BY <2>1, <2>2, IdleTyped, SeededAssumption DEF Init, Typed
<1>4. CacheInv
  <2>1. DOMAIN cache = {}
    BY DEF Init
  <2> QED BY <2>1 DEF CacheInv
<1>5. RequestInv
  BY IdleTyped DEF Init, RequestInv
<1>6. ShownInv
  <2> SUFFICES ASSUME NEW u \in Users
               PROVE  /\ shown[u].result = Nothing
                      /\ NamesIn(Nothing, shown[u].reach)
    BY <1>2 DEF ShownInv, Traceable, Final, OnRecord
  <2> QED BY <1>2 DEF Init, NamesIn
<1>7. FeedbackInv
  BY DEF Init, FeedbackInv
<1> QED BY <1>3, <1>4, <1>5, <1>6, <1>7 DEF PipelineInv

-----------------------------------------------------------------------------
(***************************************************************************)
(* The log only grows, and what is on record stays on record.              *)
(***************************************************************************)
LEMMA LogGrows ==
  ASSUME NEW rows \in Seq(AnyRow), NEW more \in Seq(AnyRow)
  PROVE  /\ rows \o more \in Seq(AnyRow)
         /\ Len(rows) \in Nat /\ Len(more) \in Nat
         /\ Len(rows \o more) = Len(rows) + Len(more)
         /\ \A i \in 1..Len(rows) : (rows \o more)[i] = rows[i]
         /\ \A i \in 1..Len(more) : (rows \o more)[Len(rows) + i] = more[i]
OBVIOUS

LEMMA OnRecordGrows ==
  ASSUME NEW rows \in Seq(AnyRow), NEW more \in Seq(AnyRow), NEW result,
         OnRecord(result, rows)
  PROVE  OnRecord(result, rows \o more)
<1> DEFINE all == rows \o more
<1>1. /\ Len(rows) \in Nat /\ Len(more) \in Nat
      /\ Len(all) = Len(rows) + Len(more)
      /\ \A i \in 1..Len(rows) : all[i] = rows[i]
  BY LogGrows
<1> HIDE DEF all
<1>2. 1..Len(rows) \subseteq 1..Len(all)
  BY <1>1
<1>3. OnRecord(result, all)
  BY <1>1, <1>2 DEF OnRecord
<1> QED BY <1>3 DEF all

LEMMA FeedbackGrows ==
  ASSUME Typed, FeedbackInv, NEW rows \in Seq(AnswerRow), log' = log \o rows
  PROVE  FeedbackInv' /\ log' \in Seq(AnyRow)
<1>1. log \in Seq(AnyRow)
  BY DEF Typed
<1>2. rows \in Seq(AnyRow)
  <2>1. AnswerRow \subseteq AnyRow
    BY DEF AnswerRow, AnyRow
  <2> QED BY <2>1, SeqMonotonic
<1>3. /\ Len(log) \in Nat /\ Len(rows) \in Nat
      /\ Len(log') = Len(log) + Len(rows)
      /\ \A i \in 1..Len(log) : log'[i] = log[i]
      /\ \A i \in 1..Len(rows) : log'[Len(log) + i] = rows[i]
      /\ log' \in Seq(AnyRow)
  BY <1>1, <1>2, LogGrows
<1>4. ASSUME NEW i \in 1..Len(log'), log'[i].event = "feedback"
      PROVE  /\ log'[i].about \in 1..Len(log')
             /\ log'[log'[i].about].actor = log'[i].actor
  <2>1. CASE i \in 1..Len(log)
    <3>1. log'[i] = log[i] /\ log[i].about \in 1..Len(log)
          /\ log[log[i].about].actor = log[i].actor
      BY <1>3, <1>4, <2>1 DEF FeedbackInv
    <3> QED BY <1>3, <3>1
  <2>2. CASE i \notin 1..Len(log)
    <3>1. i - Len(log) \in 1..Len(rows)
      BY <1>3, <2>2
    <3>2. log'[i] = rows[i - Len(log)]
      BY <1>3, <3>1
    <3>3. rows[i - Len(log)].event # "feedback"
      <4>1. rows[i - Len(log)] \in AnswerRow
        BY <3>1, ElementOfSeq
      <4> QED BY <4>1 DEF AnswerRow, Events, QueryEvents
    <3> QED BY <1>4, <3>2, <3>3
  <2> QED BY <2>1, <2>2
<1> QED BY <1>3, <1>4 DEF FeedbackInv

(***************************************************************************)
(* A result reaches its reader.                                            *)
(***************************************************************************)
LEMMA Delivered ==
  ASSUME Typed, RequestInv, ShownInv,
         NEW u \in Users, NEW r \in Requested, NEW result \in ResultRecords,
         NEW cached \in BOOLEAN, NEW rows \in Seq(AnyRow),
         Deliver(u, r, result, cached), log' = log \o rows,
         UNCHANGED <<readable, version>>,
         Traceable(result), Final(result, r.asked), NamesIn(result, r.reach),
         OnRecord(result, log'),
         result.turn # NoTurn /\ ~cached => log'[result.turn].actor = u
  PROVE  /\ RequestInv' /\ ShownInv'
         /\ request' \in [Users -> Requested] /\ shown' \in [Users -> Displayed]
<1>0. log \in Seq(AnyRow) /\ request \in [Users -> Requested]
      /\ shown \in [Users -> Displayed]
  BY DEF Typed
<1>1. request' = [request EXCEPT ![u] = Idle]
  BY DEF Deliver
<1>2. PICK turn \in {result.turn, NoTurn} :
        shown' = [shown EXCEPT ![u] =
          [result |-> [result EXCEPT !.turn = turn], asked |-> r.asked,
           cached |-> cached, reach |-> r.reach]]
  BY DEF Deliver
<1> DEFINE out == [result EXCEPT !.turn = turn]
           new == [result |-> out, asked |-> r.asked, cached |-> cached, reach |-> r.reach]
<1>3. /\ out \in ResultRecords
      /\ out.text = result.text /\ out.marks = result.marks /\ out.sources = result.sources
      /\ out.choices = result.choices /\ out.turn = turn
  <2>1. turn \in Nat
    BY DEF ResultRecords, NoTurn
  <2> QED BY <2>1 DEF ResultRecords
<1>4. new \in Displayed
  BY <1>3 DEF Displayed, Requested
<1>5. /\ Traceable(out) /\ Final(out, r.asked) /\ NamesIn(out, r.reach)
      /\ OnRecord(out, log')
      /\ out.turn # NoTurn /\ ~cached => log'[out.turn].actor = u
  <2> HIDE DEF out
  <2> QED BY <1>3 DEF Traceable, Final, NamesIn, OnRecord
<1>6. request' \in [Users -> Requested] /\ shown' \in [Users -> Displayed]
  <2> HIDE DEF new
  <2>1. shown' = [shown EXCEPT ![u] = new]
    BY <1>2 DEF new
  <2> QED BY <1>0, <1>1, <1>4, <2>1, IdleTyped
<1>7. RequestInv'
  BY <1>0, <1>1, IdleTyped DEF RequestInv, Reaches
<1>8. ShownInv'
  <2> SUFFICES ASSUME NEW v \in Users
               PROVE  /\ Traceable(shown'[v].result)
                      /\ Final(shown'[v].result, shown'[v].asked)
                      /\ NamesIn(shown'[v].result, shown'[v].reach)
                      /\ OnRecord(shown'[v].result, log')
                      /\ shown'[v].result.turn # NoTurn /\ ~shown'[v].cached
                           => log'[shown'[v].result.turn].actor = v
    BY DEF ShownInv
  <2>1. CASE v = u
    <3>1. shown'[v] = new
      BY <1>0, <1>2, <2>1
    <3>2. shown'[v].result = out /\ shown'[v].asked = r.asked
          /\ shown'[v].cached = cached /\ shown'[v].reach = r.reach
      BY <3>1
    <3> HIDE DEF out
    <3> QED BY <2>1, <1>5, <3>2
  <2>2. CASE v # u
    <3>1. shown'[v] = shown[v]
      BY <1>0, <1>2, <2>2
    <3>2. /\ Traceable(shown[v].result)
          /\ Final(shown[v].result, shown[v].asked)
          /\ NamesIn(shown[v].result, shown[v].reach)
          /\ OnRecord(shown[v].result, log)
          /\ shown[v].result.turn # NoTurn /\ ~shown[v].cached
               => log[shown[v].result.turn].actor = v
      BY DEF ShownInv
    <3>3. OnRecord(shown[v].result, log')
      BY <1>0, <3>2, OnRecordGrows
    <3>4. \A i \in 1..Len(log) : log'[i] = log[i]
      BY <1>0, LogGrows
    <3> QED BY <3>1, <3>2, <3>3, <3>4 DEF OnRecord
  <2> QED BY <2>1, <2>2
<1> QED BY <1>6, <1>7, <1>8

(***************************************************************************)
(* A result is recorded, cached and delivered.                             *)
(***************************************************************************)
LEMMA QueryRowTyped ==
  ASSUME NEW u \in Users, NEW r \in Requested, NEW text
  PROVE  /\ QueryRow(u, r, text) \in AnswerRow
         /\ QueryRow(u, r, text).actor = u
         /\ QueryRow(u, r, text).documents = r.context
         /\ QueryRow(u, r, text).event =
              IF text = "refusal" THEN "query_refused" ELSE "query"
BY DEF QueryRow, Row, AnswerRow, Events, QueryEvents, Requested

LEMMA Answered ==
  ASSUME PipelineInv,
         NEW u \in Users, NEW r \in Requested, NEW result \in ResultRecords,
         NEW rows \in Seq(AnswerRow),
         Answer(u, r, result, rows), UNCHANGED <<readable, version>>,
         Reaches(r), Traceable(result), Final(result, r.asked),
         NamesIn(result, r.context),
         rows # <<>>, result.turn = Len(log) + Len(rows),
         rows[Len(rows)] = QueryRow(u, r, result.text)
  PROVE  PipelineInv'
<1> USE DEF PipelineInv
<1>1. log' = log \o rows /\ Deliver(u, r, result, FALSE)
  BY DEF Answer
<1>2. log \in Seq(AnyRow) /\ rows \in Seq(AnyRow)
  <2>1. AnswerRow \subseteq AnyRow
    BY DEF AnswerRow, AnyRow
  <2> QED BY <2>1, SeqMonotonic DEF Typed
<1>3. /\ Len(log) \in Nat /\ Len(rows) \in Nat \ {0}
      /\ Len(log') = Len(log) + Len(rows)
      /\ log'[Len(log) + Len(rows)] = rows[Len(rows)]
      /\ log' \in Seq(AnyRow)
  <2>1. /\ log' \in Seq(AnyRow) /\ Len(log) \in Nat /\ Len(rows) \in Nat
        /\ Len(log') = Len(log) + Len(rows)
        /\ \A i \in 1..Len(rows) : log'[Len(log) + i] = rows[i]
    BY <1>1, <1>2, LogGrows
  <2>2. Len(rows) # 0
    BY <1>2
  <2> QED BY <2>1, <2>2
<1>4. OnRecord(result, log') /\ log'[result.turn].actor = u
  BY <1>3, QueryRowTyped DEF OnRecord, NamesIn
<1>5. FeedbackInv'
  BY <1>1, FeedbackGrows
<1>6. r.context \in SUBSET Docs /\ r.reach \in SUBSET Docs /\ r.group \in Groups
      /\ r.version \in Nat /\ CacheKey(r) \in Keys
      /\ CacheKey(r).asked = r.asked /\ CacheKey(r).version = r.version
      /\ CacheKey(r).group = r.group
  BY DEF Requested, CacheKey, Keys
<1>7. NamesIn(result, r.reach)
  BY <1>6, NamesInMore DEF Reaches
<1>8. /\ RequestInv' /\ ShownInv'
      /\ request' \in [Users -> Requested] /\ shown' \in [Users -> Displayed]
  BY <1>1, <1>2, <1>4, <1>7, Delivered
<1>9. /\ DOMAIN cache' = DOMAIN cache \cup {CacheKey(r)}
      /\ cache'[CacheKey(r)] = result
      /\ \A k \in DOMAIN cache : k # CacheKey(r) => cache'[k] = cache[k]
  BY DEF Answer
<1>10. Typed'
  BY <1>3, <1>6, <1>8, <1>9 DEF Typed
<1>11. CacheInv'
  <2> SUFFICES ASSUME NEW k \in DOMAIN cache'
               PROVE  /\ Traceable(cache'[k]) /\ Final(cache'[k], k.asked)
                      /\ k.version <= version
                      /\ k.version = version => NamesIn(cache'[k], readable[k.group])
                      /\ OnRecord(cache'[k], log')
    BY DEF CacheInv
  <2>1. CASE k = CacheKey(r)
    <3>1. ASSUME r.version = version PROVE NamesIn(result, readable[r.group])
      <4>1. readable[r.group] \in SUBSET Docs /\ r.context \subseteq readable[r.group]
        BY <1>6, <3>1 DEF Typed, Reaches
      <4> QED BY <1>6, <4>1, NamesInMore
    <3>2. r.version <= version
      BY DEF Reaches
    <3> QED BY <2>1, <3>1, <3>2, <1>4, <1>6, <1>9
  <2>2. CASE k # CacheKey(r)
    <3>1. k \in DOMAIN cache /\ cache'[k] = cache[k]
      BY <1>9, <2>2
    <3>2. /\ Traceable(cache[k]) /\ Final(cache[k], k.asked)
          /\ k.version <= version
          /\ k.version = version => NamesIn(cache[k], readable[k.group])
          /\ OnRecord(cache[k], log)
      BY <3>1 DEF CacheInv
    <3>3. OnRecord(cache[k], log')
      BY <1>1, <1>2, <3>2, OnRecordGrows
    <3> QED BY <3>1, <3>2, <3>3
  <2> QED BY <2>1, <2>2
<1> QED BY <1>5, <1>8, <1>10, <1>11

(***************************************************************************)
(* A request begins: it is answered from the cache or goes on.             *)
(***************************************************************************)
LEMMA AskingTyped ==
  ASSUME Typed, NEW g \in Groups, NEW q \in Questions, NEW c \in Asked
  PROVE  LET r == Asking(g, q, c)
         IN  /\ r \in Requested /\ r.pc = "search" /\ r.group = g /\ r.asked = c
             /\ r.version = version /\ r.context = {} /\ r.reach = readable[g]
             /\ CacheKey(r).asked = c /\ CacheKey(r).version = version
             /\ CacheKey(r).group = g
<1>1. c \in Int /\ SearchScope(c) \in Int
  <2>1. Capabilities(Docs) \subseteq Nat
    BY CapabilitiesTyped
  <2> QED BY <2>1, AskedAssumption DEF SearchScope, NoCapability, ALL_CAPABILITIES
<1>2. readable[g] \in SUBSET Docs /\ version \in Nat
  BY DEF Typed
<1>3. CacheKey(Asking(g, q, c)).asked = Asking(g, q, c).asked
      /\ CacheKey(Asking(g, q, c)).version = Asking(g, q, c).version
      /\ CacheKey(Asking(g, q, c)).group = Asking(g, q, c).group
  BY DEF CacheKey
<1> QED BY <1>1, <1>2, <1>3, IdleTyped DEF Asking, Requested, Stages

LEMMA LookupStep ==
  ASSUME PipelineInv, NEW u \in Users, NEW g \in Groups, NEW q \in Questions,
         NEW c \in Asked, Lookup(u, Asking(g, q, c))
  PROVE  PipelineInv'
<1> DEFINE r == Asking(g, q, c)
<1> USE DEF PipelineInv
<1>1. /\ r \in Requested /\ r.pc = "search" /\ r.group = g /\ r.asked = c
      /\ r.version = version /\ r.context = {} /\ r.reach = readable[g]
      /\ CacheKey(r).asked = c /\ CacheKey(r).version = version
      /\ CacheKey(r).group = g
  BY AskingTyped
<1>2. UNCHANGED <<readable, version, cache, log>>
  BY DEF Lookup
<1>3. CASE CacheKey(r) \in DOMAIN cache
  <2> DEFINE result == cache[CacheKey(r)]
  <2>1. Deliver(u, r, result, TRUE)
    BY <1>3 DEF Lookup
  <2> HIDE DEF r
  <2>2. /\ result \in ResultRecords
        /\ Traceable(result) /\ Final(result, r.asked) /\ NamesIn(result, r.reach)
        /\ OnRecord(result, log)
    BY <1>1, <1>3 DEF Typed, CacheInv
  <2>3. log' = log \o <<>> /\ <<>> \in Seq(AnyRow)
    BY <1>2 DEF Typed
  <2> HIDE DEF result
  <2>4. /\ RequestInv' /\ ShownInv'
        /\ request' \in [Users -> Requested] /\ shown' \in [Users -> Displayed]
    <3>1. TRUE \in BOOLEAN /\ OnRecord(result, log')
      BY <1>2, <2>2
    <3> QED BY <1>1, <1>2, <2>1, <2>2, <2>3, <3>1, Delivered
  <2> QED BY <1>2, <2>4 DEF Typed, CacheInv, FeedbackInv
<1>4. CASE CacheKey(r) \notin DOMAIN cache
  <2>1. request' = [request EXCEPT ![u] = r] /\ UNCHANGED shown
    BY <1>4 DEF Lookup
  <2> HIDE DEF r
  <2>2. Reaches(r)
    BY <1>1 DEF Reaches, Typed
  <2> QED BY <1>1, <1>2, <2>1, <2>2
          DEF Typed, CacheInv, RequestInv, Reaches, ShownInv, FeedbackInv
<1> QED BY <1>3, <1>4

LEMMA CompareStep ==
  ASSUME PipelineInv, NEW g \in Groups, NEW q \in Questions, NEW c \in Asked,
         Compare(g, q, c)
  PROVE  PipelineInv'
<1> DEFINE r == Asking(g, q, c)
           result == [Nothing EXCEPT !.text = "refusal"]
<1> USE DEF PipelineInv
<1>1. CASE InScope(g, c) # {}
  BY <1>1, LookupStep, AdminAssumption DEF Compare
<1>2. CASE InScope(g, c) = {}
  <2>1. Deliver(Admin, r, result, FALSE) /\ UNCHANGED <<readable, version, cache, log>>
    BY <1>2 DEF Compare
  <2>2. r \in Requested
    BY AskingTyped
  <2>3. /\ result \in ResultRecords
        /\ result.text = "refusal" /\ result.marks = {} /\ result.sources = {}
        /\ result.choices = {} /\ result.turn = NoTurn
    BY NothingTyped
  <2> HIDE DEF r, result
  <2>4. log' = log \o <<>> /\ <<>> \in Seq(AnyRow)
    BY <2>1 DEF Typed
  <2>5. /\ Traceable(result) /\ Final(result, r.asked) /\ NamesIn(result, r.reach)
        /\ OnRecord(result, log')
    BY <2>3 DEF Traceable, Final, NamesIn, OnRecord
  <2>6. /\ RequestInv' /\ ShownInv'
        /\ request' \in [Users -> Requested] /\ shown' \in [Users -> Displayed]
    BY <2>1, <2>2, <2>3, <2>4, <2>5, AdminAssumption, Delivered
  <2> QED BY <2>1, <2>6 DEF Typed, CacheInv, FeedbackInv
<1> QED BY <1>1, <1>2

-----------------------------------------------------------------------------
(***************************************************************************)
(* A request goes on to its next stage.                                    *)
(***************************************************************************)
LEMMA ProceedsStep ==
  ASSUME PipelineInv, NEW u \in Users, NEW r \in Requested, NEW pc \in Stages,
         Proceeds(u, pc, r), Reaches(r)
  PROVE  PipelineInv'
<1> DEFINE next == [r EXCEPT !.pc = pc]
<1> USE DEF PipelineInv
<1>1. /\ request' = [request EXCEPT ![u] = next]
      /\ UNCHANGED <<readable, version, cache, log, shown>>
  BY DEF Proceeds
<1>2. next \in Requested /\ Reaches(next)
  BY DEF Requested, Reaches
<1> HIDE DEF next
<1>3. Typed'
  BY <1>1, <1>2 DEF Typed
<1>4. RequestInv'
  BY <1>1, <1>2 DEF Typed, RequestInv, Reaches
<1> QED BY <1>1, <1>3, <1>4 DEF CacheInv, ShownInv, FeedbackInv

LEMMA ScopedReaches ==
  ASSUME NEW r \in Requested, NEW scope \in Nat, Reaches(r)
  PROVE  [r EXCEPT !.scope = scope] \in Requested /\ Reaches([r EXCEPT !.scope = scope])
<1>1. scope \in Int
  OBVIOUS
<1> QED BY <1>1 DEF Requested, Reaches

LEMMA VerifiedReaches ==
  ASSUME PipelineInv, NEW u \in Users, request[u].pc # "idle"
  PROVE  LET r == Verified(request[u])
         IN  /\ r \in Requested /\ Reaches(r) /\ r.pc = request[u].pc
             /\ r.asked = request[u].asked /\ r.context \subseteq readable[r.group]
<1> DEFINE q == request[u]
<1>1. q \in Requested /\ Reaches(q) /\ readable \in [Groups -> SUBSET Docs]
  BY DEF PipelineInv, Typed, RequestInv
<1>2. q.found \in SUBSET Docs /\ q.group \in Groups /\ readable[q.group] \in SUBSET Docs
  BY <1>1 DEF Requested
<1> HIDE DEF q
<1>3. /\ Verified(q) \in Requested
      /\ Verified(q).pc = q.pc /\ Verified(q).asked = q.asked
      /\ Verified(q).group = q.group /\ Verified(q).version = q.version
      /\ Verified(q).reach = q.reach
      /\ Verified(q).context = q.found \cap readable[q.group]
  BY <1>1, <1>2 DEF Verified, Requested
<1>4. Reaches(Verified(q))
  BY <1>1, <1>3 DEF Reaches
<1> QED BY <1>3, <1>4 DEF q

LEMMA HybridSearchStep ==
  ASSUME PipelineInv, NEW u \in Users, HybridSearch(u)
  PROVE  PipelineInv'
<1> DEFINE r == request[u]
<1>1. PICK found \in SUBSET InScope(r.group, r.scope) :
        Proceeds(u, IF r.pc = "search" THEN "verify" ELSE "verify again",
                 [r EXCEPT !.found = found])
  BY DEF HybridSearch
<1>2. r \in Requested /\ Reaches(r) /\ readable \in [Groups -> SUBSET Docs]
  BY DEF HybridSearch, PipelineInv, Typed, RequestInv
<1>3. found \in SUBSET Docs
  BY <1>2 DEF InScope, Requested
<1> DEFINE next == [r EXCEPT !.found = found]
           pc == IF r.pc = "search" THEN "verify" ELSE "verify again"
<1>4. next \in Requested /\ Reaches(next) /\ pc \in Stages
  BY <1>2, <1>3 DEF Requested, Reaches, Stages
<1>5. Proceeds(u, pc, next)
  BY <1>1
<1> HIDE DEF next, pc
<1> QED BY <1>4, <1>5, ProceedsStep

LEMMA VerifyScopedStep ==
  ASSUME PipelineInv, NEW u \in Users, VerifyScoped(u)
  PROVE  PipelineInv'
<1> DEFINE r == request[u]
           next == IF Verified(r).context = {} THEN [r EXCEPT !.found = {}]
                   ELSE Verified(r)
<1>1. Proceeds(u, "complete", next) /\ r.pc = "verify again"
  BY DEF VerifyScoped
<1>2. Verified(r) \in Requested /\ Reaches(Verified(r))
  BY <1>1, VerifiedReaches
<1>3. r \in Requested /\ Reaches(r)
  BY <1>1 DEF PipelineInv, Typed, RequestInv
<1>4. [r EXCEPT !.found = {}] \in Requested /\ Reaches([r EXCEPT !.found = {}])
  BY <1>3 DEF Requested, Reaches
<1>5. next \in Requested /\ Reaches(next) /\ "complete" \in Stages
  BY <1>2, <1>4 DEF Stages
<1> HIDE DEF next
<1> QED BY <1>1, <1>5, ProceedsStep

(***************************************************************************)
(* Routing offers, or goes to, what the documents found are about.         *)
(***************************************************************************)
LEMMA NamedInIsOne ==
  ASSUME NEW question, NEW capabilities \in SUBSET Nat
  PROVE  NamedIn(question, capabilities) \in capabilities \cup {NoCapability}
<1> DEFINE exact   == capabilities \cap Exact[question]
           longest == {c \in exact : \A e \in exact \ {c} : <<e, c>> \in Within}
           matched == capabilities \cap Alike[question]
           named   == IF exact # {} THEN longest ELSE matched
<1>1. named \subseteq capabilities
  OBVIOUS
<1>2. NamedIn(question, capabilities) =
        IF Cardinality(named) = 1 THEN CHOOSE c \in named : TRUE ELSE NoCapability
  BY DEF NamedIn
<1> HIDE DEF named
<1>3. Cardinality(named) = 1 => named # {}
  BY FS_EmptySet
<1> QED BY <1>1, <1>2, <1>3

LEMMA RouteChoices ==
  ASSUME NEW question, NEW docs \in SUBSET Docs, NEW scores, DOMAIN scores = docs
  PROVE  LET decision == Route(question, scores)
         IN  /\ decision.choices \subseteq Capabilities(docs)
             /\ decision.named => decision.capability \in Nat
<1> DEFINE scored == Capabilities(docs)
           leader == Strongest(scores)
           grand  == Grand(scores)
           named  == NamedIn(question, scored)
           spread == {c \in scored :
                        AtLeast(Total(scores, c), MIN_CANDIDATE_SHARE, grand)}
           rivals == {c \in spread \ {leader} :
                        AtLeast(Total(scores, c), RIVAL_RATIO, Total(scores, leader))}
           close  == {c \in scored : c = leader \/ c \in rivals}
<1>1. Route(question, scores) \in
        {AnswerFrom(NoCapability), AnswerFrom(leader),
         Clarify(FirstFew(scores, close)), Clarify(FirstFew(scores, spread))}
      \/ Route(question, scores) = Naming(named)
  BY DEF Route
<1>2. FirstFew(scores, close) \subseteq scored /\ FirstFew(scores, spread) \subseteq scored
  BY DEF FirstFew
<1>3. named \in Nat
  BY NamedInIsOne, CapabilitiesTyped DEF NoCapability
<1> HIDE DEF scored, leader, grand, named, spread, rivals, close
<1>4. \A c, S : /\ AnswerFrom(c).choices = {} /\ ~AnswerFrom(c).named
                /\ Naming(c).choices = {} /\ Naming(c).capability = c
                /\ Clarify(S).choices = S /\ ~Clarify(S).named
  BY DEF AnswerFrom, Naming, Clarify
<1> QED BY <1>1, <1>2, <1>3, <1>4 DEF scored

-----------------------------------------------------------------------------
(***************************************************************************)
(* Scores are numbers, so that one capability leads and the others have a  *)
(* place behind it.                                                        *)
(***************************************************************************)

\* The function that adds up f over the subsets of S (MapThenSumSet).
Sums(h, f, S) ==
  h = [s \in SUBSET S |->
         IF s = {} THEN 0
         ELSE LET x == CHOOSE x \in s : TRUE IN f[x] + h[s \ {x}]]

\* The sets of at most n elements are added up right.
SumsUpTo(h, f, S, n) ==
  \A s \in SUBSET S : Cardinality(s) <= n =>
    h[s] = IF s = {} THEN 0
           ELSE LET x == CHOOSE x \in s : TRUE IN f[x] + h[s \ {x}]

LEMMA SmallerSubset ==
  ASSUME NEW S, IsFiniteSet(S), NEW s \in SUBSET S, s # {}
  PROVE  LET x == CHOOSE x \in s : TRUE
         IN  /\ x \in s /\ s \ {x} \in SUBSET S
             /\ Cardinality(s) \in Nat \ {0}
             /\ Cardinality(s \ {x}) \in Nat
             /\ Cardinality(s \ {x}) = Cardinality(s) - 1
<1> DEFINE x == CHOOSE x \in s : TRUE
<1>1. x \in s
  OBVIOUS
<1>2. IsFiniteSet(s) /\ Cardinality(s) \in Nat
  BY FS_Subset, FS_CardinalityType
<1>3. Cardinality(s) # 0
  BY <1>2, FS_EmptySet
<1> HIDE DEF x
<1>4. Cardinality(s \ {x}) = Cardinality(s) - 1
  BY <1>1, <1>2, FS_RemoveElement
<1> QED BY <1>1, <1>2, <1>3, <1>4 DEF x

LEMMA SumsExists ==
  ASSUME NEW S, IsFiniteSet(S), NEW f
  PROVE  \E h : Sums(h, f, S)
<1> DEFINE N == {n \in Nat : \E h : h = [s \in SUBSET S |-> h[s]] /\ SumsUpTo(h, f, S, n)}
<1>1. 0 \in N
  <2> DEFINE h == [s \in SUBSET S |-> 0]
  <2>1. h = [s \in SUBSET S |-> h[s]]
    OBVIOUS
  <2>2. SumsUpTo(h, f, S, 0)
    <3> SUFFICES ASSUME NEW s \in SUBSET S, Cardinality(s) <= 0, s # {} PROVE FALSE
      BY DEF SumsUpTo
    <3>1. Cardinality(s) \in Nat \ {0}
      BY SmallerSubset, Zenon
    <3> QED BY <3>1
  <2> QED BY <2>1, <2>2
<1>2. ASSUME NEW n \in Nat, n \in N PROVE n + 1 \in N
  <2>1. PICK h : h = [s \in SUBSET S |-> h[s]] /\ SumsUpTo(h, f, S, n)
    BY <1>2
  <2> DEFINE Of(s, k) == LET x == CHOOSE x \in s : TRUE IN f[x] + k[s \ {x}]
             g == [s \in SUBSET S |-> IF Cardinality(s) <= n \/ s = {} THEN h[s] ELSE Of(s, h)]
  <2>2. g = [s \in SUBSET S |-> g[s]]
    OBVIOUS
  <2>3. ASSUME NEW s \in SUBSET S, s # {}, Cardinality(s) <= n + 1
        PROVE  g[s] = Of(s, h) /\ Of(s, g) = Of(s, h)
    <3> DEFINE x == CHOOSE x \in s : TRUE
    <3>1. /\ s \ {x} \in SUBSET S /\ Cardinality(s) \in Nat
          /\ Cardinality(s \ {x}) \in Nat /\ Cardinality(s \ {x}) = Cardinality(s) - 1
      BY <2>3, SmallerSubset
    <3> HIDE DEF x
    <3>2. Cardinality(s \ {x}) <= n
      BY <2>3, <3>1
    <3>3. g[s \ {x}] = h[s \ {x}]
      BY <3>1, <3>2
    <3>4. g[s] = Of(s, h)
      BY <2>1, <2>3 DEF SumsUpTo
    <3> QED BY <3>3, <3>4 DEF x
  <2>4. g[{}] = 0
    <3>1. Cardinality({}) = 0 /\ {} \in SUBSET S /\ 0 <= n
      BY FS_EmptySet
    <3>2. h[{}] = 0
      BY <2>1, <3>1 DEF SumsUpTo
    <3> QED BY <3>1, <3>2
  <2> HIDE DEF g
  <2>5. SumsUpTo(g, f, S, n + 1)
    BY <2>3, <2>4 DEF SumsUpTo
  <2> QED BY <2>2, <2>5
<1> HIDE DEF N
<1>3. Cardinality(S) \in N
  BY <1>1, <1>2, NatSetInduction, FS_CardinalityType
<1>4. PICK h : h = [s \in SUBSET S |-> h[s]] /\ SumsUpTo(h, f, S, Cardinality(S))
  BY <1>3 DEF N
<1>5. \A s \in SUBSET S : Cardinality(s) <= Cardinality(S)
  BY FS_Subset
<1>6. \A s \in SUBSET S :
        h[s] = IF s = {} THEN 0
               ELSE LET x == CHOOSE x \in s : TRUE IN f[x] + h[s \ {x}]
  BY <1>4, <1>5 DEF SumsUpTo
<1>7. Sums(h, f, S)
  BY <1>4, <1>6 DEF Sums
<1> QED BY <1>7

LEMMA SumsTyped ==
  ASSUME NEW S, IsFiniteSet(S), NEW f, \A x \in S : f[x] \in Nat, NEW h, Sums(h, f, S)
  PROVE  h[S] \in Nat
<1> DEFINE N == {n \in Nat : \A s \in SUBSET S : Cardinality(s) = n => h[s] \in Nat}
           Of(s) == LET x == CHOOSE x \in s : TRUE IN f[x] + h[s \ {x}]
<1>0. \A s \in SUBSET S : h[s] = IF s = {} THEN 0 ELSE Of(s)
  <2> DEFINE g == [s \in SUBSET S |-> IF s = {} THEN 0 ELSE Of(s)]
  <2>1. h = g
    BY Zenon DEF Sums
  <2>2. \A s \in SUBSET S : g[s] = IF s = {} THEN 0 ELSE Of(s)
    OBVIOUS
  <2> HIDE DEF g
  <2> QED BY <2>1, <2>2
<1>1. 0 \in N
  <2> SUFFICES ASSUME NEW s \in SUBSET S, Cardinality(s) = 0 PROVE h[s] \in Nat
    OBVIOUS
  <2>1. s = {}
    <3> SUFFICES ASSUME s # {} PROVE FALSE
      OBVIOUS
    <3>1. Cardinality(s) \in Nat \ {0}
      BY SmallerSubset, Zenon
    <3> QED BY <3>1
  <2> HIDE DEF Of
  <2> QED BY <1>0, <2>1
<1>2. ASSUME NEW n \in Nat, n \in N PROVE n + 1 \in N
  <2> SUFFICES ASSUME NEW s \in SUBSET S, Cardinality(s) = n + 1 PROVE h[s] \in Nat
    OBVIOUS
  <2>1. s # {}
    BY FS_EmptySet
  <2> DEFINE x == CHOOSE x \in s : TRUE
  <2>2. x \in S /\ s \ {x} \in SUBSET S /\ Cardinality(s \ {x}) = n
    BY <2>1, SmallerSubset
  <2>3. h[s] = f[x] + h[s \ {x}]
    BY <1>0, <2>1
  <2> HIDE DEF x
  <2> QED BY <1>2, <2>2, <2>3
<1> HIDE DEF N
<1>3. Cardinality(S) \in N
  BY <1>1, <1>2, NatSetInduction, FS_CardinalityType
<1> QED BY <1>3 DEF N

LEMMA TotalTyped ==
  ASSUME NEW docs \in SUBSET Docs, NEW chunks \in [docs -> Nat], NEW c
  PROVE  Total(chunks, c) \in Nat
<1> DEFINE S == {d \in DOMAIN chunks : Key(d) = c}
           R(h) == h = [s \in SUBSET S |->
                          IF s = {} THEN 0
                          ELSE LET x == CHOOSE x \in s : TRUE IN chunks[x] + h[s \ {x}]]
           h == CHOOSE h : R(h)
<1>1. IsFiniteSet(S) /\ \A d \in S : chunks[d] \in Nat
  <2>1. S \in SUBSET Docs
    OBVIOUS
  <2> QED BY <2>1, DocsAssumption, FS_Subset
<1>2. \E k : R(k)
  <2>1. \E k : Sums(k, chunks, S)
    <3> HIDE DEF S
    <3> QED BY <1>1, SumsExists
  <2> QED BY <2>1, Zenon DEF Sums
<1>3. R(h)
  BY <1>2, Zenon
<1>4. Total(chunks, c) = h[S]
  BY Zenon DEF Total, MapThenSumSet, MapThenFoldSet
<1> HIDE DEF h, S
<1>5. Sums(h, chunks, S)
  BY <1>3, Zenon DEF Sums
<1> QED BY <1>1, <1>4, <1>5, SumsTyped

\* Of two capabilities one is stronger, and never both.
LEMMA StrongerOrders ==
  ASSUME NEW docs \in SUBSET Docs, NEW chunks \in [docs -> Nat]
  PROVE  /\ \A a \in Nat : ~Stronger(chunks, a, a)
         /\ \A a, b \in Nat : a # b => Stronger(chunks, a, b) \/ Stronger(chunks, b, a)
         /\ \A a, b, c \in Nat : Stronger(chunks, a, b) /\ Stronger(chunks, b, c)
              => Stronger(chunks, a, c)
<1>1. \A c : Total(chunks, c) \in Nat
  BY TotalTyped
<1> QED BY <1>1 DEF Stronger

\* How many of S come before c.
Place(chunks, S, c) == Cardinality({e \in S : Stronger(chunks, e, c)})

LEMMA PlacesAreTaken ==
  ASSUME NEW docs \in SUBSET Docs, NEW chunks \in [docs -> Nat],
         NEW S \in SUBSET Nat, IsFiniteSet(S)
  PROVE  [c \in S |-> Place(chunks, S, c)] \in Bijection(S, 0..(Cardinality(S) - 1))
<1> DEFINE n == Cardinality(S)
           Ahead(c) == {e \in S : Stronger(chunks, e, c)}
           place == [c \in S |-> Place(chunks, S, c)]
<1>1. n \in Nat
  BY FS_CardinalityType
<1>2. ASSUME NEW c \in S
      PROVE  IsFiniteSet(Ahead(c)) /\ Place(chunks, S, c) \in 0..(n - 1)
  <2>1. Ahead(c) \in SUBSET S /\ Ahead(c) # S
    BY StrongerOrders
  <2> HIDE DEF Ahead
  <2>2. /\ IsFiniteSet(Ahead(c)) /\ Cardinality(Ahead(c)) <= n
        /\ Cardinality(Ahead(c)) # n
    BY <2>1, FS_Subset
  <2>3. Cardinality(Ahead(c)) \in Nat
    BY <2>2, FS_CardinalityType
  <2> QED BY <1>1, <2>2, <2>3 DEF Place, Ahead
<1>3. ASSUME NEW a \in S, NEW b \in S, Stronger(chunks, a, b)
      PROVE  Place(chunks, S, a) # Place(chunks, S, b)
  <2>1. Ahead(a) \in SUBSET Ahead(b) /\ Ahead(a) # Ahead(b)
    <3>1. a \in Nat /\ b \in Nat /\ S \subseteq Nat
      OBVIOUS
    <3>2. Ahead(a) \subseteq Ahead(b)
      BY <1>3, <3>1, StrongerOrders
    <3>3. a \in Ahead(b) /\ a \notin Ahead(a)
      BY <1>3, <3>1, StrongerOrders
    <3> QED BY <3>2, <3>3
  <2>2. IsFiniteSet(Ahead(b))
    BY <1>2
  <2> HIDE DEF Ahead
  <2>3. Cardinality(Ahead(a)) # Cardinality(Ahead(b))
    BY <2>1, <2>2, FS_Subset
  <2> QED BY <2>3 DEF Place, Ahead
<1>4. place \in Injection(S, 0..(n - 1))
  <2>1. place \in [S -> 0..(n - 1)]
    BY <1>2
  <2>2. \A a, b \in S : a # b => Place(chunks, S, a) # Place(chunks, S, b)
    BY <1>3, StrongerOrders
  <2> QED BY <2>1, <2>2 DEF Injection, IsInjective
<1> HIDE DEF place
<1>5. IsFiniteSet(0..(n - 1)) /\ Cardinality(0..(n - 1)) = n
  <2> HIDE DEF n
  <2>1. 0 \in Int /\ n - 1 \in Int
    BY <1>1
  <2>2. IsFiniteSet(0..(n - 1))
        /\ Cardinality(0..(n - 1)) = IF 0 > n - 1 THEN 0 ELSE (n - 1) - 0 + 1
    BY <2>1, FS_Interval
  <2> QED BY <1>1, <2>2
<1>6. place \in Surjection(S, 0..(n - 1))
  BY <1>4, <1>5, FS_Injection
<1> QED BY <1>4, <1>6 DEF place, Bijection

LEMMA FirstFewAreThree ==
  ASSUME NEW docs \in SUBSET Docs, NEW chunks \in [docs -> Nat],
         NEW S \in SUBSET Nat, IsFiniteSet(S)
  PROVE  Cardinality(FirstFew(chunks, S)) =
           IF Cardinality(S) < MAX_CANDIDATES THEN Cardinality(S) ELSE MAX_CANDIDATES
<1> DEFINE n == Cardinality(S)
           m == IF n < 3 THEN n ELSE 3
           place == [c \in S |-> Place(chunks, S, c)]
           F == FirstFew(chunks, S)
           first == [c \in F |-> place[c]]
<1>1. n \in Nat /\ m \in Nat
  BY FS_CardinalityType
<1>2. place \in Injection(S, 0..(n - 1)) /\ place \in Surjection(S, 0..(n - 1))
  BY PlacesAreTaken DEF Bijection
<1>3. F = {c \in S : place[c] < 3}
  BY DEF FirstFew, Place, MAX_CANDIDATES
<1> HIDE DEF F, place
<1>4. \A i \in 0..(n - 1) : i < 3 <=> i \in 0..(m - 1)
  BY <1>1
<1>5. first \in Bijection(F, 0..(m - 1))
  <2>1. first \in [F -> 0..(m - 1)]
    BY <1>2, <1>3, <1>4 DEF Injection
  <2>2. first \in Injection(F, 0..(m - 1))
    BY <1>2, <1>3, <2>1 DEF Injection, IsInjective
  <2>3. first \in Surjection(F, 0..(m - 1))
    <3>1. ASSUME NEW i \in 0..(m - 1) PROVE \E c \in F : first[c] = i
      <4>1. i \in 0..(n - 1) /\ i < 3
        BY <1>1
      <4>2. PICK c \in S : place[c] = i
        BY <1>2, <4>1 DEF Surjection
      <4> QED BY <1>3, <4>1, <4>2
    <3> QED BY <2>1, <3>1 DEF Surjection
  <2> QED BY <2>2, <2>3 DEF Bijection
<1>6. IsFiniteSet(0..(m - 1)) /\ Cardinality(0..(m - 1)) = m
  <2> HIDE DEF m
  <2>1. 0 \in Int /\ m - 1 \in Int
    BY <1>1
  <2>2. IsFiniteSet(0..(m - 1))
        /\ Cardinality(0..(m - 1)) = IF 0 > m - 1 THEN 0 ELSE (m - 1) - 0 + 1
    BY <2>1, FS_Interval
  <2> QED BY <1>1, <2>2
<1>7. F \subseteq S /\ IsFiniteSet(F)
  BY <1>3, FS_Subset
<1>8. Cardinality(F) = m
  <2>1. ExistsBijection(F, 0..(m - 1))
    BY <1>5 DEF ExistsBijection
  <2> QED BY <1>6, <1>7, <2>1, FS_Bijection
<1> QED BY <1>8 DEF F, MAX_CANDIDATES

LEMMA StrongestIsOne ==
  ASSUME NEW docs \in SUBSET Docs, NEW chunks \in [docs -> Nat],
         Capabilities(docs) # {}, IsFiniteSet(Capabilities(docs))
  PROVE  Strongest(chunks) \in Capabilities(docs)
<1> DEFINE S == Capabilities(docs)
           n == Cardinality(S)
           place == [c \in S |-> Place(chunks, S, c)]
<1>1. S \in SUBSET Nat /\ DOMAIN chunks = docs
  BY CapabilityAssumption DEF Capabilities, Key
<1>2. n \in Nat /\ n # 0
  BY FS_CardinalityType, FS_EmptySet
<1>3. place \in Surjection(S, 0..(n - 1))
  BY <1>1, PlacesAreTaken DEF Bijection
<1>4. PICK c \in S : Place(chunks, S, c) = 0
  <2>1. 0 \in 0..(n - 1)
    BY <1>2
  <2> QED BY <1>3, <2>1 DEF Surjection
<1>5. {e \in S : Stronger(chunks, e, c)} = {}
  <2>1. IsFiniteSet({e \in S : Stronger(chunks, e, c)})
    BY FS_Subset
  <2> QED BY <1>4, <2>1, FS_EmptySet DEF Place
<1> HIDE DEF S
<1>6. \A e \in S \ {c} : Stronger(chunks, c, e)
  BY <1>1, <1>5, StrongerOrders
<1> QED BY <1>1, <1>6 DEF Strongest, S

LEMMA CapabilitiesFinite ==
  ASSUME NEW docs \in SUBSET Docs
  PROVE  IsFiniteSet(Capabilities(docs))
<1> DEFINE keys == {Key(d) : d \in docs}
           key  == [d \in docs |-> Key(d)]
<1>1. key \in Surjection(docs, keys)
  BY DEF Surjection
<1>2. IsFiniteSet(docs)
  BY DocsAssumption, FS_Subset
<1>3. IsFiniteSet(keys)
  <2> HIDE DEF key, keys
  <2> QED BY <1>1, <1>2, FS_Surjection
<1> HIDE DEF keys
<1>4. Capabilities(docs) \in SUBSET keys
  BY DEF Capabilities, keys
<1> QED BY <1>3, <1>4, FS_Subset

(***************************************************************************)
(* A clarifying question offers two capabilities or three.                 *)
(***************************************************************************)
LEMMA RouteOffersFew ==
  ASSUME NEW question, NEW docs \in SUBSET Docs, NEW chunks \in [docs -> Nat]
  PROVE  Cardinality(Route(question, chunks).choices) \in {0, 2, 3}
<1> DEFINE scored == Capabilities(docs)
           leader == Strongest(chunks)
           grand  == Grand(chunks)
           named  == NamedIn(question, scored)
           spread == {c \in scored :
                        AtLeast(Total(chunks, c), MIN_CANDIDATE_SHARE, grand)}
           rivals == {c \in spread \ {leader} :
                        AtLeast(Total(chunks, c), RIVAL_RATIO, Total(chunks, leader))}
           close  == {c \in scored : c = leader \/ c \in rivals}
<1>1. DOMAIN chunks = docs
  OBVIOUS
<1>2. \/ Route(question, chunks)
           \in {AnswerFrom(NoCapability), AnswerFrom(leader), Naming(named)}
      \/ /\ Route(question, chunks) = Clarify(FirstFew(chunks, close))
         /\ scored # {} /\ rivals # {}
      \/ /\ Route(question, chunks) = Clarify(FirstFew(chunks, spread))
         /\ Cardinality(spread) >= SPREAD_CANDIDATES
  BY <1>1 DEF Route
<1>3. /\ scored \in SUBSET Nat /\ IsFiniteSet(scored)
      /\ scored # {} => leader \in scored
  <2>1. scored \in SUBSET Nat
    BY CapabilityAssumption DEF Capabilities, Key
  <2> QED BY <2>1, CapabilitiesFinite, StrongestIsOne
<1>4. spread \in SUBSET scored /\ rivals \subseteq scored \ {leader} /\ close \in SUBSET scored
      /\ (leader \in scored => leader \in close) /\ rivals \subseteq close
  OBVIOUS
<1>5. \A S : Clarify(S).choices = S
  BY DEF Clarify
<1>6. \A c : AnswerFrom(c).choices = {} /\ Naming(c).choices = {}
  BY DEF AnswerFrom, Naming
<1> HIDE DEF scored, leader, grand, named, spread, rivals, close
<1>7. /\ spread \in SUBSET Nat /\ IsFiniteSet(spread) /\ Cardinality(spread) \in Nat
      /\ close \in SUBSET Nat /\ IsFiniteSet(close) /\ Cardinality(close) \in Nat
  BY <1>3, <1>4, FS_Subset, FS_CardinalityType
<1>8. scored # {} /\ rivals # {} => Cardinality(close) >= 2
  <2> SUFFICES ASSUME scored # {}, rivals # {} PROVE Cardinality(close) >= 2
    OBVIOUS
  <2>1. PICK r \in rivals : TRUE
    OBVIOUS
  <2>2. r # leader /\ {leader} \cup {r} \in SUBSET close
    BY <1>3, <1>4
  <2>3. IsFiniteSet({leader}) /\ Cardinality({leader}) = 1
    BY FS_Singleton
  <2>4. Cardinality({leader} \cup {r}) = 2
    BY <2>2, <2>3, FS_AddElement
  <2> QED BY <1>7, <2>2, <2>4, FS_Subset
<1>9. CASE Route(question, chunks)
             \in {AnswerFrom(NoCapability), AnswerFrom(leader), Naming(named)}
  <2>1. Route(question, chunks).choices = {}
    BY <1>6, <1>9
  <2> QED BY <2>1, FS_EmptySet
<1>10. CASE /\ Route(question, chunks) = Clarify(FirstFew(chunks, close))
            /\ scored # {} /\ rivals # {}
  <2>1. Cardinality(FirstFew(chunks, close)) \in {2, 3}
    BY <1>7, <1>8, <1>10, FirstFewAreThree DEF MAX_CANDIDATES
  <2> QED BY <1>5, <1>10, <2>1
<1>11. CASE /\ Route(question, chunks) = Clarify(FirstFew(chunks, spread))
            /\ Cardinality(spread) >= SPREAD_CANDIDATES
  <2>1. Cardinality(FirstFew(chunks, spread)) \in {2, 3}
    BY <1>7, <1>11, FirstFewAreThree DEF MAX_CANDIDATES, SPREAD_CANDIDATES
  <2> QED BY <1>5, <1>11, <2>1
<1> QED BY <1>2, <1>9, <1>10, <1>11
-----------------------------------------------------------------------------
(***************************************************************************)
(* The rows and the result of an answer.                                   *)
(***************************************************************************)
LEMMA AnomalyRowsTyped ==
  ASSUME NEW u \in Users, NEW r \in Requested
  PROVE  AnomalyRows(u, r) \in Seq(AnswerRow)
<1> DEFINE row == [d \in r.dropped |-> Row("security_anomaly", u, r.question, {d})]
           S   == {Row("security_anomaly", u, r.question, {d}) : d \in r.dropped}
           n   == Cardinality(S)
<1>1. r.dropped \in SUBSET Docs /\ r.question \in Questions
  BY DEF Requested
<1>2. IsFiniteSet(r.dropped)
  BY <1>1, DocsAssumption, FS_Subset
<1>3. row \in Surjection(r.dropped, S)
  BY DEF Surjection
<1>4. IsFiniteSet(S)
  <2> HIDE DEF row, S
  <2> QED BY <1>2, <1>3, FS_Surjection
<1>5. S \subseteq AnswerRow
  BY <1>1 DEF AnswerRow, Row, Events
<1> HIDE DEF S
<1>6. n \in Nat /\ ExistsBijection(1..n, S)
  BY <1>4, FS_CardinalityType
<1>7. \E f \in [1..n -> S] : IsInjective(f)
  BY <1>6 DEF ExistsBijection, Bijection, Injection
<1>8. SetToSeq(S) \in [1..n -> S]
  BY <1>7 DEF SetToSeq
<1>9. SetToSeq(S) \in Seq(AnswerRow)
  <2> HIDE DEF n
  <2>1. SetToSeq(S) \in [1..n -> AnswerRow]
    BY <1>5, <1>8
  <2> QED BY <1>6, <2>1, SeqDef
<1> QED BY <1>9 DEF S, AnomalyRows

LEMMA IfTyped ==
  ASSUME NEW condition, NEW row \in AnswerRow
  PROVE  If(condition, row) \in Seq(AnswerRow)
BY DEF If

LEMMA FinalTextIs ==
  ASSUME NEW raw, NEW context \in SUBSET Docs, raw.text = "refusal" => raw.marks = {}
  PROVE  LET final == FinalText(raw, context)
         IN  /\ final.text \in {"answer", "refusal", "unverified"}
             /\ final.marks = IF final.text = "answer" THEN raw.marks \cap context ELSE {}
BY DEF FinalText

LEMMA FinaliseStep ==
  ASSUME PipelineInv, NEW u \in Users, NEW r \in Requested, Reaches(r),
         NEW raw, raw.text = "refusal" => raw.marks = {},
         Finalise(u, r, raw), UNCHANGED <<readable, version>>
  PROVE  PipelineInv'
<1> DEFINE final   == FinalText(raw, r.context)
           last    == QueryRow(u, r, final.text)
           before  == RejectionRow(u, r, raw)
                      \o If(r.context \cap Suspicious # {},
                            Row("injection_detected", u, r.question,
                                r.context \cap Suspicious))
                      \o AnomalyRows(u, r)
           rows    == before \o <<last>>
           sources == IF final.text = "answer" THEN raw.marks \cap r.context ELSE {}
           result  == Result(final.text, final.marks, sources, {}, Len(log) + Len(rows))
<1>1. Answer(u, r, result, rows)
  BY DEF Finalise
<1>2. r.context \in SUBSET Docs /\ r.question \in Questions
  BY DEF Requested
<1>3. /\ final.text \in {"answer", "refusal", "unverified"}
      /\ final.marks = sources
      /\ sources \subseteq r.context
      /\ final.text # "answer" => sources = {}
  BY <1>2, FinalTextIs
<1>4. before \in Seq(AnswerRow)
  <2>1. RejectionRow(u, r, raw) \in Seq(AnswerRow)
    <3>1. Row("citation_rejected", u, r.question, {}) \in AnswerRow
      BY <1>2 DEF Row, AnswerRow, Events
    <3> QED BY <3>1, IfTyped DEF RejectionRow
  <2>2. If(r.context \cap Suspicious # {},
           Row("injection_detected", u, r.question, r.context \cap Suspicious))
          \in Seq(AnswerRow)
    <3>1. Row("injection_detected", u, r.question, r.context \cap Suspicious) \in AnswerRow
      BY <1>2 DEF Row, AnswerRow, Events
    <3> QED BY <3>1, IfTyped
  <2> QED BY <2>1, <2>2, AnomalyRowsTyped, ConcatProperties
<1> HIDE DEF before, final
<1>5. last \in AnswerRow
  BY QueryRowTyped
<1> HIDE DEF last
<1>6. /\ rows \in Seq(AnswerRow) /\ rows # <<>> /\ Len(rows) \in Nat
      /\ rows[Len(rows)] = last
  BY <1>4, <1>5
<1> HIDE DEF rows
<1>7. Len(log) \in Nat
  BY DEF PipelineInv, Typed
<1>8. /\ result \in ResultRecords
      /\ result.text = final.text /\ result.marks = final.marks
      /\ result.sources = sources /\ result.choices = {}
      /\ result.turn = Len(log) + Len(rows)
  <2>1. sources \in SUBSET Docs /\ final.marks \in SUBSET Docs
    BY <1>2, <1>3
  <2> HIDE DEF sources
  <2> QED BY <1>3, <1>6, <1>7, <2>1 DEF Result, ResultRecords, Texts
<1> HIDE DEF result, sources
<1>9. Traceable(result) /\ Final(result, r.asked) /\ NamesIn(result, r.context)
  BY <1>3, <1>8 DEF Traceable, Final, NamesIn
<1> QED BY <1>1, <1>6, <1>8, <1>9, Answered DEF last

LEMMA ClarifyStep ==
  ASSUME PipelineInv, NEW u \in Users, NEW r \in Requested, Reaches(r),
         r.asked = NoCapability, NEW choices, choices \subseteq Capabilities(r.context),
         FinaliseClarification(u, r, choices), UNCHANGED <<readable, version>>
  PROVE  PipelineInv'
<1> DEFINE row    == QueryRow(u, r, "choice")
           result == Result("choice", {}, {}, choices, Len(log) + 1)
<1>1. Answer(u, r, result, <<row>>)
  BY DEF FinaliseClarification
<1>2. row \in AnswerRow
  BY QueryRowTyped
<1>3. choices \in SUBSET Nat
  BY CapabilitiesTyped DEF Requested
<1>4. Len(log) \in Nat
  BY DEF PipelineInv, Typed
<1>5. /\ result \in ResultRecords
      /\ result.text = "choice" /\ result.marks = {} /\ result.sources = {}
      /\ result.choices = choices /\ result.turn = Len(log) + 1
  BY <1>3, <1>4 DEF Result, ResultRecords, Texts
<1> HIDE DEF result
<1>6. Traceable(result) /\ Final(result, r.asked) /\ NamesIn(result, r.context)
  BY <1>5 DEF Traceable, Final, NamesIn
<1>7. /\ <<row>> \in Seq(AnswerRow) /\ <<row>> # <<>> /\ Len(<<row>>) = 1
      /\ <<row>>[Len(<<row>>)] = QueryRow(u, r, result.text)
  BY <1>2, <1>5
<1> HIDE DEF row
<1> QED BY <1>1, <1>5, <1>6, <1>7, Answered

LEMMA RouteQuestionStep ==
  ASSUME PipelineInv, NEW u \in Users, RouteQuestion(u)
  PROVE  PipelineInv'
<1> DEFINE r == Verified(request[u])
<1>1. r.pc = "verify"
  BY DEF RouteQuestion
<1>2. request[u].pc # "idle"
  BY <1>1 DEF Verified
<1>3. r \in Requested /\ Reaches(r)
  BY <1>2, VerifiedReaches
<1>4. CASE r.context = {}
  <2>1. Finalise(u, r, Refusal) /\ UNCHANGED <<readable, version>>
    BY <1>4 DEF RouteQuestion
  <2>2. Refusal.text = "refusal" /\ Refusal.marks = {}
    BY DEF Refusal
  <2> HIDE DEF r
  <2> QED BY <1>3, <2>1, <2>2, FinaliseStep
<1>5. CASE r.context # {} /\ r.asked # NoCapability
  <2>1. Proceeds(u, "complete", r)
    BY <1>5 DEF RouteQuestion
  <2> HIDE DEF r
  <2> QED BY <1>3, <2>1, ProceedsStep DEF Stages
<1>6. CASE r.context # {} /\ r.asked = NoCapability
  <2>1. PICK scores \in [r.context -> Scores] :
          LET decision == Route(r.question, scores)
          IN  IF decision.choices # {}
              THEN /\ FinaliseClarification(u, r, decision.choices)
                   /\ UNCHANGED <<readable, version, asks>>
              ELSE IF decision.named
              THEN Proceeds(u, "search again", [r EXCEPT !.scope = decision.capability])
              ELSE Proceeds(u, "complete", r)
    BY <1>6 DEF RouteQuestion
  <2> DEFINE decision == Route(r.question, scores)
  <2> HIDE DEF r
  <2>2. /\ decision.choices \subseteq Capabilities(r.context)
        /\ decision.named => decision.capability \in Nat
    <3>1. r.context \in SUBSET Docs /\ DOMAIN scores = r.context
      BY <1>3 DEF Requested
    <3> QED BY <3>1, RouteChoices
  <2>3. \/ FinaliseClarification(u, r, decision.choices) /\ UNCHANGED <<readable, version>>
        \/ decision.named
           /\ Proceeds(u, "search again", [r EXCEPT !.scope = decision.capability])
        \/ Proceeds(u, "complete", r)
    BY <2>1
  <2> HIDE DEF decision
  <2>4. CASE FinaliseClarification(u, r, decision.choices) /\ UNCHANGED <<readable, version>>
    BY <1>3, <1>6, <2>2, <2>4, ClarifyStep
  <2>5. CASE decision.named
             /\ Proceeds(u, "search again", [r EXCEPT !.scope = decision.capability])
    <3> DEFINE next == [r EXCEPT !.scope = decision.capability]
    <3>1. next \in Requested /\ Reaches(next) /\ "search again" \in Stages
      <4>1. decision.capability \in Nat
        BY <2>2, <2>5, Zenon
      <4> QED BY <1>3, <4>1, ScopedReaches DEF Stages
    <3>2. Proceeds(u, "search again", next)
      BY <2>5
    <3> HIDE DEF next
    <3> QED BY <3>1, <3>2, ProceedsStep
  <2>6. CASE Proceeds(u, "complete", r)
    BY <1>3, <2>6, ProceedsStep DEF Stages
  <2> QED BY <2>3, <2>4, <2>5, <2>6
<1> QED BY <1>4, <1>5, <1>6

LEMMA CompleteStep ==
  ASSUME PipelineInv, NEW u \in Users, Complete(u)
  PROVE  PipelineInv'
<1>1. PICK raw \in RawAnswers(request[u].context) : Finalise(u, request[u], raw)
  BY DEF Complete
<1>2. raw.text = "refusal" => raw.marks = {}
  BY DEF RawAnswers, Refusal
<1>3. request[u] \in Requested /\ Reaches(request[u]) /\ UNCHANGED <<readable, version>>
  BY DEF Complete, PipelineInv, Typed, RequestInv
<1> QED BY <1>1, <1>2, <1>3, FinaliseStep

-----------------------------------------------------------------------------
(***************************************************************************)
(* The rest: giving up, rating, and changes of access.                     *)
(***************************************************************************)
LEMMA AbandonStep ==
  ASSUME PipelineInv, NEW u \in Users, Abandon(u)
  PROVE  PipelineInv'
<1> USE DEF PipelineInv
<1>1. /\ request' = [request EXCEPT ![u] = Idle]
      /\ UNCHANGED <<readable, version, cache, log, shown>>
  BY DEF Abandon
<1>2. Typed' /\ RequestInv'
  BY <1>1, IdleTyped DEF Typed, RequestInv, Reaches
<1> QED BY <1>1, <1>2 DEF CacheInv, ShownInv, FeedbackInv

LEMMA SubmitFeedbackStep ==
  ASSUME PipelineInv, NEW u \in Users, NEW turn \in DOMAIN log, SubmitFeedback(u, turn)
  PROVE  PipelineInv'
<1> DEFINE row == Row("feedback", u, turn, log[turn].documents)
<1> USE DEF PipelineInv
<1>1. /\ log' = Append(log, row) /\ Outcome(u, turn) = "recorded"
      /\ UNCHANGED <<readable, version, cache, request, shown>>
  BY DEF SubmitFeedback
<1>2. log \in Seq(AnyRow) /\ turn \in 1..Len(log) /\ log[turn] \in AnyRow
  BY DEF Typed
<1>3. row \in AnyRow /\ row.event = "feedback" /\ row.about = turn /\ row.actor = u
  BY <1>2 DEF Row, AnyRow
<1>4. log[turn].actor = u
  BY <1>1 DEF Outcome
<1> HIDE DEF row
<1>5. log' = log \o <<row>> /\ <<row>> \in Seq(AnyRow)
  BY <1>1, <1>2, <1>3
<1>6. /\ log' \in Seq(AnyRow) /\ Len(log) \in Nat /\ Len(log') = Len(log) + 1
      /\ \A i \in 1..Len(log) : log'[i] = log[i]
      /\ log'[Len(log) + 1] = row
  BY <1>1, <1>2, <1>3
<1>7. Typed' /\ RequestInv'
  BY <1>1, <1>6 DEF Typed, RequestInv, Reaches
<1>8. CacheInv'
  <2>1. \A k \in DOMAIN cache : OnRecord(cache[k], log')
    BY <1>2, <1>5, OnRecordGrows DEF CacheInv
  <2> QED BY <1>1, <2>1 DEF CacheInv
<1>9. ShownInv'
  <2>1. \A v \in Users : OnRecord(shown[v].result, log')
    BY <1>2, <1>5, OnRecordGrows DEF ShownInv
  <2>2. ASSUME NEW v \in Users, shown[v].result.turn # NoTurn, ~shown[v].cached
        PROVE  log'[shown[v].result.turn].actor = v
    <3>1. shown[v].result.turn \in 1..Len(log)
          /\ log[shown[v].result.turn].actor = v
      BY <2>2 DEF ShownInv, OnRecord
    <3> QED BY <1>6, <3>1
  <2> QED BY <1>1, <2>1, <2>2 DEF ShownInv
<1>10. FeedbackInv'
  <2> SUFFICES ASSUME NEW i \in 1..(Len(log) + 1), log'[i].event = "feedback"
               PROVE  /\ log'[i].about \in 1..(Len(log) + 1)
                      /\ log'[log'[i].about].actor = log'[i].actor
    BY <1>6 DEF FeedbackInv
  <2>1. CASE i = Len(log) + 1
    BY <1>2, <1>3, <1>4, <1>6, <2>1
  <2>2. CASE i # Len(log) + 1
    <3>1. i \in 1..Len(log) /\ log'[i] = log[i]
      BY <1>6, <2>2
    <3>2. log[i].about \in 1..Len(log) /\ log[log[i].about].actor = log[i].actor
      BY <3>1 DEF FeedbackInv
    <3> QED BY <1>6, <3>1, <3>2
  <2> QED BY <2>1, <2>2
<1> QED BY <1>7, <1>8, <1>9, <1>10

LEMMA ChangeAccessStep ==
  ASSUME PipelineInv, NEW g \in Groups, NEW d \in Docs, ChangeAccess(g, d)
  PROVE  PipelineInv'
<1> DEFINE Waits(u) == request[u].pc # "idle" /\ request[u].group = g
<1> USE DEF PipelineInv
<1>1. /\ version' = version + 1
      /\ UNCHANGED <<cache, log, shown>>
      /\ \A h \in Groups \ {g} : readable'[h] = readable[h]
      /\ readable' \in [Groups -> SUBSET Docs]
      /\ version \in Nat /\ version' \in Nat
  <2>1. readable \in [Groups -> SUBSET Docs] /\ version \in Nat
    BY DEF Typed
  <2>2. readable' = [readable EXCEPT ![g] = IF d \in readable[g] THEN readable[g] \ {d}
                                            ELSE readable[g] \cup {d}]
    BY DEF ChangeAccess
  <2> QED BY <2>1, <2>2 DEF ChangeAccess
<1>2. /\ DOMAIN request' = Users /\ request' = [u \in Users |-> request'[u]]
      /\ \A u \in Users :
           request'[u] = IF Waits(u)
                         THEN [request[u] EXCEPT !.reach =
                                 request[u].reach \cup readable'[g]]
                         ELSE request[u]
  BY DEF ChangeAccess
<1>3. \A u \in Users :
        /\ request'[u] \in Requested
        /\ request'[u].pc = request[u].pc /\ request'[u].group = request[u].group
        /\ request'[u].version = request[u].version
        /\ request'[u].context = request[u].context
        /\ request'[u].reach = IF Waits(u) THEN request[u].reach \cup readable'[g]
                               ELSE request[u].reach
  <2> SUFFICES ASSUME NEW u \in Users
               PROVE  /\ request'[u] \in Requested
                      /\ request'[u].pc = request[u].pc
                      /\ request'[u].group = request[u].group
                      /\ request'[u].version = request[u].version
                      /\ request'[u].context = request[u].context
                      /\ request'[u].reach =
                           IF Waits(u) THEN request[u].reach \cup readable'[g]
                           ELSE request[u].reach
    OBVIOUS
  <2>1. request[u] \in Requested /\ readable'[g] \in SUBSET Docs
    BY <1>1 DEF Typed
  <2>2. CASE Waits(u)
    <3>1. request'[u] = [request[u] EXCEPT !.reach = request[u].reach \cup readable'[g]]
      BY <1>2, <2>2
    <3> HIDE DEF Waits
    <3> QED BY <2>1, <2>2, <3>1 DEF Requested
  <2>3. CASE ~Waits(u)
    BY <1>2, <2>1, <2>3
  <2> QED BY <2>2, <2>3
<1>4. Typed'
  BY <1>1, <1>2, <1>3 DEF Typed
<1>5. RequestInv'
  <2> SUFFICES ASSUME NEW u \in Users, request[u].pc # "idle"
               PROVE  /\ request'[u].version <= version'
                      /\ request'[u].context \subseteq request'[u].reach
                      /\ readable'[request'[u].group] \subseteq request'[u].reach
                      /\ request'[u].version # version'
    BY <1>3 DEF RequestInv, Reaches
  <2>1. Reaches(request[u]) /\ request[u].version \in Nat /\ request[u].group \in Groups
    BY DEF RequestInv, Typed, Requested
  <2>2. request'[u].version <= version' /\ request'[u].version # version'
    <3>1. request[u].version <= version /\ request'[u].version = request[u].version
      BY <1>3, <2>1 DEF Reaches
    <3> QED BY <1>1, <2>1, <3>1
  <2>3. CASE Waits(u)
    BY <1>3, <2>1, <2>2, <2>3 DEF Reaches
  <2>4. CASE ~Waits(u)
    BY <1>1, <1>3, <2>1, <2>2, <2>4 DEF Reaches
  <2> QED BY <2>3, <2>4
<1>6. CacheInv'
  \* No entry is of the new version.
  <2>1. \A k \in DOMAIN cache : k.version <= version' /\ k.version # version'
    <3>1. \A k \in DOMAIN cache : k.version \in Nat /\ k.version <= version
      BY DEF Typed, CacheInv, Keys
    <3> QED BY <1>1, <3>1
  <2> QED BY <1>1, <2>1 DEF CacheInv
<1> QED BY <1>1, <1>4, <1>5, <1>6 DEF ShownInv, FeedbackInv

LEMMA StepPipeline == PipelineInv /\ [Next]_vars => PipelineInv'
<1> SUFFICES ASSUME PipelineInv, [Next]_vars PROVE PipelineInv'
  OBVIOUS
<1>1. ASSUME NEW u \in Users, NEW q \in Questions, NEW c \in Asked, Ask(u, q, c)
      PROVE  PipelineInv'
  <2>1. Group[u] \in Groups /\ Lookup(u, Asking(Group[u], q, c))
    BY <1>1, GroupAssumption DEF Ask
  <2> QED BY <2>1, LookupStep
<1>2. ASSUME NEW g \in Groups, NEW q \in Questions, NEW c \in Asked, Compare(g, q, c)
      PROVE  PipelineInv'
  BY <1>2, CompareStep
<1>3. ASSUME NEW u \in Users, RequestStep(u) PROVE PipelineInv'
  BY <1>3, HybridSearchStep, VerifyScopedStep, RouteQuestionStep, CompleteStep
     DEF RequestStep
<1>4. ASSUME NEW u \in Users, Abandon(u) PROVE PipelineInv'
  BY <1>4, AbandonStep
<1>5. ASSUME NEW u \in Users, NEW turn \in DOMAIN log, SubmitFeedback(u, turn)
      PROVE  PipelineInv'
  BY <1>5, SubmitFeedbackStep
<1>6. ASSUME NEW change \in Changing, ChangeAccess(change[1], change[2])
      PROVE  PipelineInv'
  <2>1. change[1] \in Groups /\ change[2] \in Docs
    BY ChangingAssumption
  <2> QED BY <1>6, <2>1, ChangeAccessStep
<1>7. CASE UNCHANGED vars
  BY <1>7 DEF vars, PipelineInv, Typed, CacheInv, RequestInv, Reaches, ShownInv,
              FeedbackInv
<1> QED BY <1>1, <1>2, <1>3, <1>4, <1>5, <1>6, <1>7 DEF Next

LEMMA PipelineCorrect == Spec => []PipelineInv
BY InitPipeline, StepPipeline, PTL DEF Spec

-----------------------------------------------------------------------------
(***************************************************************************)
(* No source and no choice a caller is shown, fresh, cached or made for a  *)
(* colleague, was out of their reach (routing.py, G5).                     *)
(***************************************************************************)
THEOREM ReadableCorrect == Spec => []NamesOnlyReadable
<1>1. PipelineInv => NamesOnlyReadable
  BY DEF PipelineInv, ShownInv, NamesIn, NamesOnlyReadable
<1> QED BY <1>1, PipelineCorrect, PTL

(***************************************************************************)
(* Every marker left in an answer leads to a source beside it, whatever    *)
(* the model made up (G6, strip_citations).                                *)
(***************************************************************************)
THEOREM MarksCorrect == Spec => []MarksLeadToSources
<1>1. PipelineInv => MarksLeadToSources
  BY DEF PipelineInv, ShownInv, Traceable, MarksLeadToSources
<1> QED BY <1>1, PipelineCorrect, PTL

(***************************************************************************)
(* Who has chosen is not asked to choose again (ALL_CAPABILITIES).         *)
(***************************************************************************)
THEOREM ChoiceCorrect == Spec => []ChoiceIsFinal
<1>1. PipelineInv => ChoiceIsFinal
  BY DEF PipelineInv, ShownInv, Final, ChoiceIsFinal
<1> QED BY <1>1, PipelineCorrect, PTL

(***************************************************************************)
(* The turn a caller is given is the row of that answer, and of their own  *)
(* unless it was cached (_finalise).                                       *)
(***************************************************************************)
THEOREM TurnCorrect == Spec => []TurnIsOnRecord
<1>1. PipelineInv => TurnIsOnRecord
  BY DEF PipelineInv, ShownInv, OnRecord, TurnIsOnRecord
<1> QED BY <1>1, PipelineCorrect, PTL

(***************************************************************************)
(* One's own answers, refusals and clarifying questions can be rated, and  *)
(* nobody else's have been (submit_feedback).                              *)
(***************************************************************************)
THEOREM RatingCorrect == Spec => []OwnAnswersAreRated
<1>1. PipelineInv => OwnAnswersAreRated
  <2> SUFFICES ASSUME PipelineInv PROVE OwnAnswersAreRated
    OBVIOUS
  <2> USE DEF PipelineInv
  <2>1. ASSUME NEW u \in Users, shown[u].result.turn # NoTurn, ~shown[u].cached
        PROVE  Outcome(u, shown[u].result.turn) = "recorded"
    <3>1. /\ log[shown[u].result.turn].event \in QueryEvents
          /\ log[shown[u].result.turn].actor = u
      BY <2>1 DEF ShownInv, OnRecord, QueryEvents
    <3> QED BY <3>1 DEF Outcome
  <2>2. ASSUME NEW i \in DOMAIN log, log[i].event = "feedback"
        PROVE  log[log[i].about].actor = log[i].actor
    <3>1. i \in 1..Len(log)
      BY DEF Typed
    <3> QED BY <3>1, <2>2 DEF FeedbackInv
  <2> QED BY <2>1, <2>2 DEF OwnAnswersAreRated
<1> QED BY <1>1, PipelineCorrect, PTL

-----------------------------------------------------------------------------
(***************************************************************************)
(* How much a result offers, and what a request has when it reaches the    *)
(* model.                                                                  *)
(***************************************************************************)

Offers(result) ==
  /\ result.text = "choice" <=> result.choices # {}
  /\ Cardinality(result.choices) \in {0, 2, 3}
  /\ result.choices \subseteq Capabilities(Docs)

\* A request past its first context has one: an empty one is refused.
HasContext(r) ==
  r.pc \in {"search again", "verify again", "complete"} => r.context # {}

OfferInv ==
  /\ version \in 1..(MaxChanges + 1)
  /\ asks \in 0..MaxAsks
  /\ \A k \in DOMAIN cache : Offers(cache[k])
  /\ \A u \in Users : Offers(shown[u].result)
  /\ \A u \in Users : HasContext(request[u])

LEMMA NoChoices ==
  ASSUME NEW result, result.text # "choice", result.choices = {}
  PROVE  Offers(result)
BY FS_EmptySet DEF Offers

LEMMA InitOffers == Init => OfferInv
<1> SUFFICES ASSUME Init PROVE OfferInv
  OBVIOUS
<1>1. Offers(Nothing)
  BY NoChoices DEF Nothing, Result
<1>2. HasContext(Idle)
  BY IdleTyped DEF HasContext
<1>3. DOMAIN cache = {}
  BY DEF Init
<1> QED BY <1>1, <1>2, <1>3, BoundsAssumption DEF Init, OfferInv

LEMMA DeliveredOffers ==
  ASSUME Typed, OfferInv, NEW u \in Users, NEW r, NEW result \in ResultRecords,
         Offers(result), NEW cached, Deliver(u, r, result, cached)
  PROVE  \A v \in Users : Offers(shown'[v].result) /\ HasContext(request'[v])
<1>1. request' = [request EXCEPT ![u] = Idle] /\ DOMAIN request = Users
  BY DEF Deliver, Typed
<1>2. PICK turn \in {result.turn, NoTurn} :
        shown' = [shown EXCEPT ![u] =
          [result |-> [result EXCEPT !.turn = turn], asked |-> r.asked,
           cached |-> cached, reach |-> r.reach]]
  BY DEF Deliver
<1> DEFINE out == [result EXCEPT !.turn = turn]
<1>3. out.text = result.text /\ out.choices = result.choices
  BY DEF ResultRecords
<1> HIDE DEF out
<1>4. Offers(out)
  BY <1>3 DEF Offers
<1>5. DOMAIN shown = Users /\ shown'[u].result = out
      /\ \A v \in Users \ {u} : shown'[v] = shown[v]
  BY <1>2 DEF out, Typed
<1>6. HasContext(Idle)
  BY IdleTyped DEF HasContext
<1> QED BY <1>1, <1>4, <1>5, <1>6 DEF OfferInv

LEMMA AnsweredOffers ==
  ASSUME Typed, OfferInv, NEW u \in Users, NEW r, NEW result \in ResultRecords,
         Offers(result), NEW rows, Answer(u, r, result, rows),
         UNCHANGED <<version, asks>>
  PROVE  OfferInv'
<1>1. Deliver(u, r, result, FALSE)
  BY DEF Answer
<1>2. \A v \in Users : Offers(shown'[v].result) /\ HasContext(request'[v])
  BY <1>1, DeliveredOffers
<1>3. /\ DOMAIN cache' = DOMAIN cache \cup {CacheKey(r)}
      /\ \A k \in DOMAIN cache' : cache'[k] = IF k = CacheKey(r) THEN result ELSE cache[k]
  BY DEF Answer
<1> QED BY <1>2, <1>3 DEF OfferInv

LEMMA ProceedsOffers ==
  ASSUME Typed, OfferInv, NEW u \in Users, NEW r \in Requested, NEW pc,
         pc \in {"search again", "verify again", "complete"} => r.context # {},
         Proceeds(u, pc, r)
  PROVE  OfferInv'
<1> DEFINE next == [r EXCEPT !.pc = pc]
<1>1. next.pc = pc /\ next.context = r.context
  BY DEF Requested
<1> HIDE DEF next
<1>2. HasContext(next)
  BY <1>1 DEF HasContext
<1>3. request' = [request EXCEPT ![u] = next] /\ DOMAIN request = Users
      /\ UNCHANGED <<version, asks, cache, shown>>
  BY DEF Proceeds, Typed, next
<1> QED BY <1>2, <1>3 DEF OfferInv

LEMMA LookupOffers ==
  ASSUME PipelineInv, OfferInv, NEW u \in Users, NEW g \in Groups, NEW q \in Questions,
         NEW c \in Asked, Lookup(u, Asking(g, q, c)), asks < MaxAsks
  PROVE  OfferInv'
<1> DEFINE r == Asking(g, q, c)
<1> USE DEF PipelineInv
<1>1. r \in Requested /\ r.pc = "search"
  BY AskingTyped
<1>2. asks' \in 0..MaxAsks /\ UNCHANGED <<version, cache>>
  BY BoundsAssumption DEF Lookup, OfferInv
<1>3. CASE CacheKey(r) \in DOMAIN cache
  <2> DEFINE result == cache[CacheKey(r)]
  <2>1. Deliver(u, r, result, TRUE)
    BY <1>3 DEF Lookup
  <2> HIDE DEF r
  <2>2. result \in ResultRecords /\ Offers(result)
    BY <1>3 DEF Typed, OfferInv
  <2> HIDE DEF result
  <2>3. \A v \in Users : Offers(shown'[v].result) /\ HasContext(request'[v])
    BY <2>1, <2>2, DeliveredOffers
  <2> QED BY <1>2, <2>3 DEF OfferInv
<1>4. CASE CacheKey(r) \notin DOMAIN cache
  <2>1. request' = [request EXCEPT ![u] = r] /\ UNCHANGED shown /\ DOMAIN request = Users
    BY <1>4 DEF Lookup, Typed
  <2> HIDE DEF r
  <2>2. HasContext(r)
    BY <1>1 DEF HasContext
  <2> QED BY <1>2, <2>1, <2>2 DEF OfferInv
<1> QED BY <1>3, <1>4

LEMMA CompareOffers ==
  ASSUME PipelineInv, OfferInv, NEW g \in Groups, NEW q \in Questions, NEW c \in Asked,
         Compare(g, q, c)
  PROVE  OfferInv'
<1> DEFINE result == [Nothing EXCEPT !.text = "refusal"]
<1>1. CASE InScope(g, c) # {}
  BY <1>1, LookupOffers, AdminAssumption DEF Compare
<1>2. CASE InScope(g, c) = {}
  <2>1. /\ Deliver(Admin, Asking(g, q, c), result, FALSE)
        /\ asks < MaxAsks /\ asks' = asks + 1 /\ UNCHANGED <<version, cache>>
    BY <1>2 DEF Compare
  <2>2. result \in ResultRecords /\ result.text = "refusal" /\ result.choices = {}
    BY NothingTyped
  <2> HIDE DEF result
  <2>3. \A v \in Users : Offers(shown'[v].result) /\ HasContext(request'[v])
    BY <2>1, <2>2, NoChoices, AdminAssumption, DeliveredOffers DEF PipelineInv
  <2> QED BY <2>1, <2>3, BoundsAssumption DEF OfferInv
<1> QED BY <1>1, <1>2

LEMMA FinaliseOffers ==
  ASSUME PipelineInv, OfferInv, NEW u \in Users, NEW r \in Requested, NEW raw,
         raw.text = "refusal" => raw.marks = {},
         Finalise(u, r, raw), UNCHANGED <<version, asks>>
  PROVE  OfferInv'
<1> DEFINE final   == FinalText(raw, r.context)
           rows    == RejectionRow(u, r, raw)
                      \o If(r.context \cap Suspicious # {},
                            Row("injection_detected", u, r.question,
                                r.context \cap Suspicious))
                      \o AnomalyRows(u, r)
                      \o <<QueryRow(u, r, final.text)>>
           sources == IF final.text = "answer" THEN raw.marks \cap r.context ELSE {}
           turn    == Len(log) + Len(rows)
           result  == Result(final.text, final.marks, sources, {}, turn)
<1>1. Answer(u, r, result, rows)
  BY DEF Finalise
<1>2. r.context \in SUBSET Docs
  BY DEF Requested
<1>3. /\ final.text \in {"answer", "refusal", "unverified"}
      /\ final.marks = sources /\ sources \in SUBSET Docs
  BY <1>2, FinalTextIs
<1>4. turn \in Nat
  <2>1. log \in Seq(AnyRow) /\ Len(log) \in Nat
    BY DEF PipelineInv, Typed
  <2>2. rows \in Seq(AnswerRow)
    <3>1. RejectionRow(u, r, raw) \in Seq(AnswerRow)
      <4>1. Row("citation_rejected", u, r.question, {}) \in AnswerRow
        BY DEF Row, AnswerRow, Events, Requested
      <4> QED BY <4>1, IfTyped DEF RejectionRow
    <3>2. If(r.context \cap Suspicious # {},
             Row("injection_detected", u, r.question, r.context \cap Suspicious))
            \in Seq(AnswerRow)
      <4>1. Row("injection_detected", u, r.question, r.context \cap Suspicious) \in AnswerRow
        BY <1>2 DEF Row, AnswerRow, Events, Requested
      <4> QED BY <4>1, IfTyped
    <3>3. <<QueryRow(u, r, final.text)>> \in Seq(AnswerRow)
      BY QueryRowTyped
    <3> QED BY <3>1, <3>2, <3>3, AnomalyRowsTyped, ConcatProperties
  <2> HIDE DEF rows
  <2>3. Len(rows) \in Nat
    BY <2>2
  <2> QED BY <2>1, <2>3
<1> HIDE DEF final, sources, rows, turn
<1>5. result \in ResultRecords /\ result.text = final.text /\ result.choices = {}
  BY <1>3, <1>4 DEF Result, ResultRecords, Texts
<1> HIDE DEF result
<1>6. Offers(result)
  BY <1>3, <1>5, NoChoices
<1> QED BY <1>1, <1>5, <1>6, AnsweredOffers DEF PipelineInv

LEMMA RouteQuestionOffers ==
  ASSUME PipelineInv, OfferInv, NEW u \in Users, RouteQuestion(u)
  PROVE  OfferInv'
<1> DEFINE r == Verified(request[u])
<1>1. r.pc = "verify"
  BY DEF RouteQuestion
<1>2. request[u].pc # "idle"
  BY <1>1 DEF Verified
<1>3. r \in Requested /\ r.context \in SUBSET Docs
  <2>1. r \in Requested
    BY <1>2, VerifiedReaches
  <2> QED BY <2>1 DEF Requested
<1>4. CASE r.context = {}
  <2>1. Finalise(u, r, Refusal) /\ UNCHANGED <<version, asks>>
    BY <1>4 DEF RouteQuestion
  <2>2. Refusal.text = "refusal" => Refusal.marks = {}
    BY DEF Refusal
  <2> HIDE DEF r
  <2> QED BY <1>3, <2>1, <2>2, FinaliseOffers
<1>5. CASE r.context # {} /\ r.asked # NoCapability
  <2>1. Proceeds(u, "complete", r)
    BY <1>5 DEF RouteQuestion
  <2> HIDE DEF r
  <2> QED BY <1>3, <1>5, <2>1, ProceedsOffers DEF PipelineInv
<1>6. CASE r.context # {} /\ r.asked = NoCapability
  <2>1. PICK scores \in [r.context -> Scores] :
          LET decision == Route(r.question, scores)
          IN  IF decision.choices # {}
              THEN /\ FinaliseClarification(u, r, decision.choices)
                   /\ UNCHANGED <<readable, version, asks>>
              ELSE IF decision.named
              THEN Proceeds(u, "search again", [r EXCEPT !.scope = decision.capability])
              ELSE Proceeds(u, "complete", r)
    BY <1>6 DEF RouteQuestion
  <2> DEFINE decision == Route(r.question, scores)
  <2> HIDE DEF r
  <2>2. scores \in [r.context -> Nat]
    BY <2>1, ScoresAssumption
  <2>3. /\ decision.choices \subseteq Nat
        /\ decision.choices \subseteq Capabilities(Docs)
        /\ decision.named => decision.capability \in Nat
        /\ Cardinality(decision.choices) \in {0, 2, 3}
    <3>1. /\ decision.choices \subseteq Capabilities(r.context)
          /\ decision.named => decision.capability \in Nat
      BY <1>3, <2>2, RouteChoices
    <3>2. Cardinality(decision.choices) \in {0, 2, 3}
      BY <1>3, <2>2, RouteOffersFew
    <3>3. /\ Capabilities(r.context) \subseteq Nat
          /\ Capabilities(r.context) \subseteq Capabilities(Docs)
      BY <1>3, CapabilitiesTyped
    <3> HIDE DEF decision
    <3> QED BY <3>1, <3>2, <3>3
  <2>4. \/ /\ FinaliseClarification(u, r, decision.choices) /\ decision.choices # {}
           /\ UNCHANGED <<version, asks>>
        \/ decision.named
           /\ Proceeds(u, "search again", [r EXCEPT !.scope = decision.capability])
        \/ Proceeds(u, "complete", r)
    BY <2>1
  <2> HIDE DEF decision
  <2>5. CASE /\ FinaliseClarification(u, r, decision.choices) /\ decision.choices # {}
             /\ UNCHANGED <<version, asks>>
    <3> DEFINE result == Result("choice", {}, {}, decision.choices, Len(log) + 1)
    <3>1. Answer(u, r, result, <<QueryRow(u, r, "choice")>>)
      BY <2>5 DEF FinaliseClarification
    <3>2. Len(log) + 1 \in Nat
      BY DEF PipelineInv, Typed
    <3>3. /\ result \in ResultRecords
          /\ result.text = "choice" /\ result.choices = decision.choices
      BY <2>3, <3>2 DEF Result, ResultRecords, Texts
    <3> HIDE DEF result
    <3>4. Offers(result)
      BY <2>3, <2>5, <3>3 DEF Offers
    <3> QED BY <2>5, <3>1, <3>3, <3>4, AnsweredOffers DEF PipelineInv
  <2>6. CASE decision.named
             /\ Proceeds(u, "search again", [r EXCEPT !.scope = decision.capability])
    <3> DEFINE next == [r EXCEPT !.scope = decision.capability]
    <3>1. decision.capability \in Int
      <4>1. decision.capability \in Nat
        BY <2>3, <2>6, Zenon
      <4> QED BY <4>1
    <3>2. next \in Requested /\ next.context = r.context
      BY <1>3, <3>1 DEF Requested
    <3>3. Proceeds(u, "search again", next)
      BY <2>6
    <3> HIDE DEF next
    <3> QED BY <1>6, <3>2, <3>3, ProceedsOffers DEF PipelineInv
  <2>7. CASE Proceeds(u, "complete", r)
    BY <1>3, <1>6, <2>7, ProceedsOffers DEF PipelineInv
  <2> QED BY <2>4, <2>5, <2>6, <2>7
<1> QED BY <1>4, <1>5, <1>6

LEMMA SearchOffers ==
  ASSUME PipelineInv, OfferInv, NEW u \in Users, HybridSearch(u) \/ VerifyScoped(u)
  PROVE  OfferInv'
<1> DEFINE r == request[u]
<1> USE DEF PipelineInv
<1>1. r \in Requested /\ HasContext(r) /\ readable \in [Groups -> SUBSET Docs]
  BY DEF Typed, OfferInv
<1>2. CASE HybridSearch(u)
  <2>1. PICK found \in SUBSET InScope(r.group, r.scope) :
          Proceeds(u, IF r.pc = "search" THEN "verify" ELSE "verify again",
                   [r EXCEPT !.found = found])
    BY <1>2 DEF HybridSearch
  <2>2. r.pc \in {"search", "search again"}
    BY <1>2 DEF HybridSearch
  <2> DEFINE next == [r EXCEPT !.found = found]
             pc == IF r.pc = "search" THEN "verify" ELSE "verify again"
  <2> HIDE DEF r
  <2>3. found \in SUBSET Docs
    BY <1>1 DEF InScope, Requested
  <2>4. next \in Requested /\ next.context = r.context
    BY <1>1, <2>3 DEF Requested
  <2>5. pc \in {"search again", "verify again", "complete"} => r.context # {}
    BY <1>1, <2>2 DEF HasContext
  <2>6. Proceeds(u, pc, next)
    BY <2>1
  <2> HIDE DEF next, pc
  <2> QED BY <2>4, <2>5, <2>6, ProceedsOffers
<1>3. CASE VerifyScoped(u)
  <2> DEFINE next == IF Verified(r).context = {} THEN [r EXCEPT !.found = {}]
                     ELSE Verified(r)
  <2>1. Proceeds(u, "complete", next) /\ r.pc = "verify again"
    BY <1>3 DEF VerifyScoped
  <2>2. Verified(r) \in Requested
    BY <2>1, VerifiedReaches
  <2>3. [r EXCEPT !.found = {}] \in Requested /\ [r EXCEPT !.found = {}].context # {}
    BY <1>1, <2>1 DEF Requested, HasContext
  <2>4. next \in Requested /\ next.context # {}
    BY <2>2, <2>3
  <2> HIDE DEF next
  <2> QED BY <2>1, <2>4, ProceedsOffers
<1> QED BY <1>2, <1>3

LEMMA ChangeAccessOffers ==
  ASSUME PipelineInv, OfferInv, NEW g, NEW d, ChangeAccess(g, d)
  PROVE  OfferInv'
<1>1. version' \in 1..(MaxChanges + 1) /\ UNCHANGED <<cache, shown, asks>>
  BY BoundsAssumption DEF ChangeAccess, OfferInv
<1>2. ASSUME NEW u \in Users PROVE HasContext(request'[u])
  <2>1. request[u] \in Requested /\ HasContext(request[u])
    BY DEF PipelineInv, Typed, OfferInv
  <2>2. \/ request'[u] = request[u]
        \/ request'[u] = [request[u] EXCEPT !.reach = @ \cup readable'[g]]
    BY DEF ChangeAccess
  <2>3. request'[u].pc = request[u].pc /\ request'[u].context = request[u].context
    BY <2>1, <2>2 DEF Requested
  <2> QED BY <2>1, <2>3 DEF HasContext
<1> QED BY <1>1, <1>2 DEF OfferInv

LEMMA StepOffers == PipelineInv /\ OfferInv /\ [Next]_vars => OfferInv'
<1> SUFFICES ASSUME PipelineInv, OfferInv, [Next]_vars PROVE OfferInv'
  OBVIOUS
<1>1. ASSUME NEW u \in Users, NEW q \in Questions, NEW c \in Asked, Ask(u, q, c)
      PROVE  OfferInv'
  <2>1. Group[u] \in Groups /\ Lookup(u, Asking(Group[u], q, c)) /\ asks < MaxAsks
    BY <1>1, GroupAssumption DEF Ask
  <2> QED BY <2>1, LookupOffers
<1>2. ASSUME NEW g \in Groups, NEW q \in Questions, NEW c \in Asked, Compare(g, q, c)
      PROVE  OfferInv'
  BY <1>2, CompareOffers
<1>3. ASSUME NEW u \in Users, RequestStep(u) PROVE OfferInv'
  <2>1. CASE Complete(u)
    <3>1. PICK raw \in RawAnswers(request[u].context) : Finalise(u, request[u], raw)
      BY <2>1 DEF Complete
    <3>2. raw.text = "refusal" => raw.marks = {}
      BY DEF RawAnswers, Refusal
    <3>3. request[u] \in Requested /\ UNCHANGED <<version, asks>>
      BY <2>1 DEF Complete, PipelineInv, Typed
    <3> QED BY <3>1, <3>2, <3>3, FinaliseOffers
  <2> QED BY <1>3, <2>1, SearchOffers, RouteQuestionOffers DEF RequestStep
<1>4. ASSUME NEW u \in Users, Abandon(u) PROVE OfferInv'
  <2>1. request' = [request EXCEPT ![u] = Idle] /\ DOMAIN request = Users
        /\ UNCHANGED <<version, cache, shown, asks>>
    BY <1>4 DEF Abandon, PipelineInv, Typed
  <2>2. HasContext(Idle)
    BY IdleTyped DEF HasContext
  <2> QED BY <2>1, <2>2 DEF OfferInv
<1>5. ASSUME NEW u \in Users, NEW turn \in DOMAIN log, SubmitFeedback(u, turn)
      PROVE  OfferInv'
  BY <1>5 DEF SubmitFeedback, OfferInv, HasContext
<1>6. ASSUME NEW change \in Changing, ChangeAccess(change[1], change[2])
      PROVE  OfferInv'
  BY <1>6, ChangeAccessOffers
<1>7. CASE UNCHANGED vars
  BY <1>7 DEF vars, OfferInv, HasContext
<1> QED BY <1>1, <1>2, <1>3, <1>4, <1>5, <1>6, <1>7 DEF Next

(***************************************************************************)
(* Every state is well typed: a clarifying question offers two or three    *)
(* capabilities and nothing else offers any, and the model is never called *)
(* without a context (route_question, answer_question).                    *)
(***************************************************************************)
THEOREM TypeCorrect == Spec => []TypeOK
<1>1. PipelineInv /\ OfferInv => TypeOK
  <2> SUFFICES ASSUME PipelineInv, OfferInv PROVE TypeOK
    OBVIOUS
  <2> USE DEF PipelineInv
  <2>1. ASSUME NEW result \in ResultRecords, Offers(result), OnRecord(result, log)
        PROVE  ResultType(result)
    <3>1. Len(log) \in Nat
      BY DEF Typed
    <3>2. result.turn \in 0..Len(log)
      BY <2>1, <3>1 DEF OnRecord, NoTurn
    <3> QED BY <2>1, <3>2 DEF ResultType, ResultRecords, Offers
  <2>2. \A k \in DOMAIN cache : ResultType(cache[k])
    BY <2>1 DEF Typed, CacheInv, OfferInv
  <2>3. \A u \in Users : ResultType(shown[u].result)
    BY <2>1 DEF Typed, ShownInv, OfferInv, Displayed
  <2>4. \A i \in DOMAIN log :
          /\ log[i].actor \in Users
          /\ log[i].documents \subseteq Docs
          /\ log[i].event \in QueryEvents \cup
               {"citation_rejected", "injection_detected", "security_anomaly", "feedback"}
    <3>1. \A i \in DOMAIN log : log[i] \in AnyRow
      BY DEF Typed
    <3> QED BY <3>1 DEF AnyRow, Events
  <2>5. \A u \in Users :
          /\ DOMAIN request[u] = DOMAIN Idle
          /\ request[u].pc \in {"idle", "search", "verify", "search again",
                                "verify again", "complete"}
          /\ request[u].pc = "complete" => request[u].context # {}
    <3> SUFFICES ASSUME NEW u \in Users
                 PROVE  /\ DOMAIN request[u] = DOMAIN Idle
                        /\ request[u].pc \in Stages
                        /\ request[u].pc = "complete" => request[u].context # {}
      BY DEF Stages
    <3>1. request[u] \in Requested /\ Idle \in Requested /\ HasContext(request[u])
      BY IdleTyped DEF Typed, OfferInv
    <3>2. \A r \in Requested : DOMAIN r = {"pc", "group", "question", "asked", "scope",
            "version", "found", "context", "dropped", "reach"}
      BY DEF Requested
    <3> QED BY <3>1, <3>2 DEF Requested, HasContext
  <2> QED BY <2>2, <2>3, <2>4, <2>5 DEF Typed, OfferInv, TypeOK
<1>2. Spec => []OfferInv
  BY InitPipeline, InitOffers, StepPipeline, StepOffers, PTL DEF Spec
<1> QED BY <1>1, <1>2, PipelineCorrect, PTL
=============================================================================
