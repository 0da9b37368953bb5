----------------------------- MODULE MDNSQuestions -----------------------------
(***************************************************************************)
(* The question list and the record cache of one mDNS engine (mDNS.c):     *)
(* clients start and stop queries, also from the callbacks the engine      *)
(* makes while it walks the list; records arrive, expire and are recycled. *)
(*                                                                         *)
(* Time is abstract: a record may expire at any moment.  The order of the  *)
(* cache is left open, the order of the question list is kept.             *)
(***************************************************************************)
EXTENDS Integers, Sequences, FiniteSets, SequencesExt

CONSTANTS
  Question,              \* DNSQuestion objects, owned by clients
  NoQuestion,            \* mDNSNULL
  Entry,                 \* records other hosts may multicast
  NoEntry,               \* mDNSNULL
  Identity,              \* name, type, class, interface, target of a question
  Answers,               \* the pairs <<e, q>> of a record that answers q
  InitialCacheSize,      \* cache records the client gave to mDNS_Init
  MaxCacheSize,          \* bound: those it has given in the end
  StopNew                \* a callback may stop another question than its own
                         \* that has not been answered yet

ASSUME QuestionAssumption ==
  /\ NoQuestion \notin Question
  /\ NoEntry \notin Entry
  /\ Answers \subseteq Entry \X Question
  /\ \A p, q \in Question : Identity[p] = Identity[q] =>
       \A e \in Entry : <<e, p>> \in Answers <=> <<e, q>> \in Answers

ASSUME SizeAssumption ==
  /\ InitialCacheSize \in Nat \ {0}
  /\ MaxCacheSize \in Nat
  /\ InitialCacheSize <= MaxCacheSize

ASSUME StopAssumption == StopNew \in BOOLEAN

VARIABLES
  Questions,         \* m->Questions, in list order
  NewQuestions,      \* the first of them not yet answered from the cache
  CurrentQuestion,   \* the cursor of the walk in progress
  DuplicateOf,
  CurrentAnswers,
  cache,             \* the records of m->rrcache_hash
  CRActiveQuestion,  \* the question that keeps a cached record in use
  rrcache_size,
  rrcache_active,
  handler,           \* "idle", "receive" (mDNSCoreReceiveResponse),
                     \* "expire" (CheckCacheExpiration) or "answer"
                     \* (AnswerNewQuestion, once that has returned)
  rr,                \* the record CacheRecordAdd or CacheRecordRmv is about
  fresh,             \* the q of AnswerNewQuestion
  todo,              \* the cached answers its loop has still to visit
  caller,            \* the question whose callback is running
  given              \* history: the records each client has been told of

vars == <<Questions, NewQuestions, CurrentQuestion, DuplicateOf, CurrentAnswers,
          cache, CRActiveQuestion, rrcache_size, rrcache_active, handler, rr,
          fresh, todo, caller, given>>

listVars  == <<Questions, NewQuestions, DuplicateOf>>
cacheVars == <<cache, rrcache_size>>
useVars   == <<CRActiveQuestion, rrcache_active>>
tellVars  == <<CurrentAnswers, given>>

TypeOK ==
  /\ Questions \in Seq(Question)
  /\ NewQuestions \in Question \union {NoQuestion}
  /\ CurrentQuestion \in Question \union {NoQuestion}
  /\ DuplicateOf \in [Question -> Question \union {NoQuestion}]
  /\ CurrentAnswers \in [Question -> 0 .. Cardinality(Entry)]
  /\ cache \subseteq Entry
  /\ CRActiveQuestion \in [Entry -> Question \union {NoQuestion}]
  /\ rrcache_size \in InitialCacheSize .. MaxCacheSize
  /\ rrcache_active \in 0 .. Cardinality(Entry)
  /\ handler \in {"idle", "receive", "expire", "answer"}
  /\ rr \in Entry \union {NoEntry}
  /\ fresh \in Question \union {NoQuestion}
  /\ todo \subseteq Entry
  /\ caller \in Question \union {NoQuestion}
  /\ given \in [Question -> SUBSET Entry]

Init ==
  /\ Questions = <<>>
  /\ NewQuestions = NoQuestion
  /\ CurrentQuestion = NoQuestion
  /\ DuplicateOf = [q \in Question |-> NoQuestion]
  /\ CurrentAnswers = [q \in Question |-> 0]
  /\ cache = {}
  /\ CRActiveQuestion = [e \in Entry |-> NoQuestion]
  /\ rrcache_size = InitialCacheSize
  /\ rrcache_active = 0
  /\ handler = "idle"
  /\ rr = NoEntry
  /\ fresh = NoQuestion
  /\ todo = {}
  /\ caller = NoQuestion
  /\ given = [q \in Question |-> {}]

--------------------------------------------------------------------------------
(* The list *)

Listed == ToSet(Questions)

Position(q) == CHOOSE i \in DOMAIN Questions : Questions[i] = q

\* q->next.  mDNS_StopQuery clears it in a question that leaves the list
After(q) ==
  IF q \in Listed /\ Position(q) < Len(Questions)
  THEN Questions[Position(q) + 1] ELSE NoQuestion

\* The first question of a list that is in a set
FirstIn(list, qs) ==
  LET places == {i \in DOMAIN list : list[i] \in qs}
  IN IF places = {} THEN NoQuestion ELSE list[Min(places)]

\* The first question of the list with the identity of q, if it is before q
FindDuplicateQuestion(list, q) ==
  LET first == FirstIn(list, {p \in Question : Identity[p] = Identity[q]})
  IN IF first = q THEN NoQuestion ELSE first

ActiveQuestion(q) == q \in Listed /\ DuplicateOf[q] = NoQuestion

IsNew(q) ==
  /\ {q, NewQuestions} \subseteq Listed
  /\ Position(q) >= Position(NewQuestions)

--------------------------------------------------------------------------------
(* mDNS_StartQuery and mDNS_StopQuery, from outside the engine or a callback *)

ClientMayCall == handler = "idle" \/ caller # NoQuestion

StartQuery(q) ==
  /\ ClientMayCall
  /\ q \notin Listed
  /\ Questions' = Append(Questions, q)
  /\ DuplicateOf' = [DuplicateOf EXCEPT ![q] = FindDuplicateQuestion(Questions, q)]
  /\ CurrentAnswers' = [CurrentAnswers EXCEPT ![q] = 0]
  /\ NewQuestions' = IF NewQuestions = NoQuestion THEN q ELSE NewQuestions
  /\ UNCHANGED <<CurrentQuestion, cacheVars, useVars, handler, rr, fresh, todo,
                 caller, given>>

\* Slip: q is still in the list
UpdateQuestionDuplicatesEarly(q, rest) ==
  [p \in Question |->
     IF p = q THEN NoQuestion
     ELSE IF DuplicateOf[p] = q THEN FindDuplicateQuestion(Questions, p)
     ELSE DuplicateOf[p]]

\* UpdateQuestionDuplicates, on the list that q has left
UpdateQuestionDuplicates(q, rest) ==
  [p \in Question |->
     IF p = q THEN NoQuestion
     ELSE IF DuplicateOf[p] = q THEN FindDuplicateQuestion(rest, p)
     ELSE DuplicateOf[p]]

\* Slip: a record that nothing keeps in use any more is still counted
HandOnRecordsCounted(q, rest, duplicateOf) ==
  LET active  == {p \in ToSet(rest) : duplicateOf[p] = NoQuestion}
      heir(e) == FirstIn(rest, {p \in active : <<e, p>> \in Answers})
  IN /\ CRActiveQuestion' = [e \in Entry |-> IF e \in cache /\ CRActiveQuestion[e] = q
                                           THEN heir(e) ELSE CRActiveQuestion[e]]
     /\ UNCHANGED rrcache_active

\* Slip: a record that is handed on is counted off
HandOnRecordsUncounted(q, rest, duplicateOf) ==
  LET active  == {p \in ToSet(rest) : duplicateOf[p] = NoQuestion}
      heir(e) == FirstIn(rest, {p \in active : <<e, p>> \in Answers})
      held    == {e \in cache : CRActiveQuestion[e] = q}
  IN /\ CRActiveQuestion' = [e \in Entry |-> IF e \in held THEN heir(e) ELSE CRActiveQuestion[e]]
     /\ rrcache_active' = rrcache_active - Cardinality(held)

\* Cached records that q kept in use are kept by the first active question that
\* they answer too, if there is one
HandOnRecords(q, rest, duplicateOf) ==
  LET active  == {p \in ToSet(rest) : duplicateOf[p] = NoQuestion}
      heir(e) == FirstIn(rest, {p \in active : <<e, p>> \in Answers})
      held    == {e \in cache : CRActiveQuestion[e] = q}
  IN /\ CRActiveQuestion' = [e \in Entry |-> IF e \in held THEN heir(e) ELSE CRActiveQuestion[e]]
     /\ rrcache_active' = rrcache_active - Cardinality({e \in held : heir(e) = NoQuestion})

\* A pointer into the list goes past q when q leaves it
Bump(pointer, q) == IF pointer = q THEN After(q) ELSE pointer

\* Whether a client may stop q now, as far as the model goes
StopAllowed(q) == handler = "idle" \/ caller = q \/ ~IsNew(q) \/ StopNew

StopQuery(q) ==
  /\ ClientMayCall
  /\ StopAllowed(q)
  /\ q \in Listed
  /\ LET rest == RemoveAt(Questions, Position(q))
         dups == UpdateQuestionDuplicates(q, rest)
     IN /\ Questions' = rest
        /\ DuplicateOf' = dups
        /\ HandOnRecords(q, rest, dups)
  /\ CurrentQuestion' = Bump(CurrentQuestion, q)
  /\ NewQuestions' = Bump(NewQuestions, q)
  /\ CurrentAnswers' = [CurrentAnswers EXCEPT ![q] = 0]
  /\ given' = [given EXCEPT ![q] = {}]
  /\ UNCHANGED <<cacheVars, handler, rr, fresh, todo, caller>>

--------------------------------------------------------------------------------
(* AnswerQuestionWithResourceRecord *)

\* Slip: a duplicate question, which sends no queries, keeps it in use too
AnswerQuestionAny(q, e) ==
  /\ caller' = q
  /\ IF CRActiveQuestion[e] # q
     THEN /\ CRActiveQuestion' = [CRActiveQuestion EXCEPT ![e] = q]
          /\ rrcache_active' = IF CRActiveQuestion[e] = NoQuestion
                               THEN rrcache_active + 1 ELSE rrcache_active
     ELSE UNCHANGED useVars

\* The client's callback begins.  An active question keeps the record in use
AnswerQuestion(q, e) ==
  /\ caller' = q
  /\ IF ActiveQuestion(q) /\ CRActiveQuestion[e] # q
     THEN /\ CRActiveQuestion' = [CRActiveQuestion EXCEPT ![e] = q]
          /\ rrcache_active' = IF CRActiveQuestion[e] = NoQuestion
                               THEN rrcache_active + 1 ELSE rrcache_active
     ELSE UNCHANGED useVars

TellAdd(q, e) ==
  /\ CurrentAnswers' = [CurrentAnswers EXCEPT ![q] = @ + 1]
  /\ given' = [given EXCEPT ![q] = @ \union {e}]
  /\ AnswerQuestion(q, e)

TellRmv(q, e) ==
  /\ CurrentAnswers' = [CurrentAnswers EXCEPT ![q] = IF @ = 0 THEN 0 ELSE @ - 1]
  /\ given' = [given EXCEPT ![q] = @ \ {e}]
  /\ AnswerQuestion(q, e)

\* The callback returns
Return ==
  /\ caller # NoQuestion
  /\ caller' = NoQuestion
  /\ UNCHANGED <<listVars, CurrentQuestion, tellVars, cacheVars, useVars,
                 handler, rr, fresh, todo>>

--------------------------------------------------------------------------------
(* The walk of CacheRecordAdd and CacheRecordRmv over the answered questions *)

Walking == rr # NoEntry /\ caller = NoQuestion

\* Slip: questions not yet answered are visited too
AtListEnd == CurrentQuestion = NoQuestion

AtEnd == CurrentQuestion \in {NoQuestion, NewQuestions}

WalkPass ==
  /\ Walking
  /\ ~AtEnd
  /\ <<rr, CurrentQuestion>> \notin Answers
  /\ CurrentQuestion' = After(CurrentQuestion)
  /\ UNCHANGED <<listVars, tellVars, cacheVars, useVars, handler, rr, fresh,
                 todo, caller>>

WalkTell ==
  /\ Walking
  /\ ~AtEnd
  /\ <<rr, CurrentQuestion>> \in Answers
  /\ CurrentQuestion' = After(CurrentQuestion)
  /\ IF handler = "receive" THEN TellAdd(CurrentQuestion, rr)
                            ELSE TellRmv(CurrentQuestion, rr)
  /\ UNCHANGED <<listVars, cacheVars, handler, rr, fresh, todo>>

--------------------------------------------------------------------------------
(* mDNSCoreReceiveResponse, one record of a packet *)

\* Slip: records in use are recycled with the others
RecyclableAll == cache

\* What GetFreeCacheRR may reclaim
Recyclable == {e \in cache : CRActiveQuestion[e] = NoQuestion}

\* A record that was not in the cache is put there, and CacheRecordAdd begins
Store(e, recycled) ==
  /\ handler = "idle"
  /\ e \notin cache
  /\ cache' = (cache \ recycled) \union {e}
  /\ Cardinality(cache') <= rrcache_size'
  /\ CRActiveQuestion' = [x \in Entry |-> IF x \in recycled THEN NoQuestion
                                          ELSE CRActiveQuestion[x]]
  /\ handler' = "receive"
  /\ rr' = e
  /\ CurrentQuestion' = FirstIn(Questions, Question)
  /\ UNCHANGED <<listVars, tellVars, rrcache_active, fresh, todo, caller>>

\* There is a free record
ReceiveRecord(e) == UNCHANGED rrcache_size /\ Store(e, {})

\* There is none, and mStatus_GrowCache makes the client give some
ReceiveGrowing(e) ==
  /\ Cardinality(cache) = rrcache_size
  /\ rrcache_size < MaxCacheSize
  /\ rrcache_size' = rrcache_size + 1
  /\ Store(e, {})

\* There is none, and the client gives none or is not asked.  Without one to
\* recycle the record is not cached
ReceiveRecycling(e) ==
  /\ Cardinality(cache) = rrcache_size
  /\ UNCHANGED rrcache_size
  /\ Store(e, Recyclable)

AddEnd ==
  /\ handler = "receive"
  /\ Walking
  /\ AtEnd
  /\ handler' = "idle"
  /\ rr' = NoEntry
  /\ CurrentQuestion' = NoQuestion
  /\ UNCHANGED <<listVars, tellVars, cacheVars, useVars, fresh, todo, caller>>

--------------------------------------------------------------------------------
(* mDNS_Execute: expired records go, then new questions are answered *)

Execute ==
  /\ handler = "idle"
  /\ handler' = "expire"
  /\ UNCHANGED <<listVars, CurrentQuestion, tellVars, cacheVars, useVars, rr,
                 fresh, todo, caller>>

Expiring == handler = "expire" /\ rr = NoEntry

\* An expired record leaves the cache; CacheRecordRmv begins if it is in use
Expire(e) ==
  /\ Expiring
  /\ e \in cache
  /\ cache' = cache \ {e}
  /\ IF CRActiveQuestion[e] = NoQuestion
     THEN UNCHANGED <<rr, CurrentQuestion>>
     ELSE rr' = e /\ CurrentQuestion' = FirstIn(Questions, Question)
  /\ UNCHANGED <<listVars, tellVars, rrcache_size, useVars, handler, fresh,
                 todo, caller>>

RmvEnd ==
  /\ handler = "expire"
  /\ Walking
  /\ AtEnd
  /\ CRActiveQuestion' = [CRActiveQuestion EXCEPT ![rr] = NoQuestion]
  /\ rrcache_active' = rrcache_active - 1
  /\ rr' = NoEntry
  /\ CurrentQuestion' = NoQuestion
  /\ UNCHANGED <<listVars, tellVars, cacheVars, handler, fresh, todo, caller>>

\* The check of the whole cache is over.  AnswerNewQuestion takes the first new
\* question, and has the cache checked once more
TakeNewQuestion ==
  /\ Expiring
  /\ fresh = NoQuestion
  /\ fresh' = NewQuestions
  /\ handler' = IF NewQuestions = NoQuestion THEN "idle" ELSE "expire"
  /\ UNCHANGED <<listVars, CurrentQuestion, tellVars, cacheVars, useVars, rr,
                 todo, caller>>

\* Slip: NewQuestions stays where it is
AnswerNewQuestionAgain ==
  /\ Expiring
  /\ fresh # NoQuestion
  /\ handler' = "answer"
  /\ NewQuestions' = fresh
  /\ CurrentQuestion' = fresh
  /\ todo' = {e \in cache : <<e, fresh>> \in Answers}
  /\ UNCHANGED <<Questions, DuplicateOf, tellVars, cacheVars, useVars, rr,
                 fresh, caller>>

\* Only then is NewQuestions advanced and the loop over the cache begun
AnswerNewQuestion ==
  /\ Expiring
  /\ fresh # NoQuestion
  /\ handler' = "answer"
  /\ NewQuestions' = After(fresh)
  /\ CurrentQuestion' = fresh
  /\ todo' = {e \in cache : <<e, fresh>> \in Answers}
  /\ UNCHANGED <<Questions, DuplicateOf, tellVars, cacheVars, useVars, rr,
                 fresh, caller>>

AnswerTell(e) ==
  /\ handler = "answer"
  /\ caller = NoQuestion
  /\ CurrentQuestion = fresh
  /\ e \in todo
  /\ todo' = todo \ {e}
  /\ TellAdd(fresh, e)
  /\ UNCHANGED <<listVars, CurrentQuestion, cacheVars, handler, rr, fresh>>

\* The cache has been visited or a callback has stopped the question.  The loop
\* of mDNS_Execute takes the next new question, if there is one
AnswerEnd ==
  /\ handler = "answer"
  /\ caller = NoQuestion
  /\ CurrentQuestion # fresh \/ todo = {}
  /\ CurrentQuestion' = NoQuestion
  /\ todo' = {}
  /\ fresh' = NewQuestions
  /\ handler' = IF NewQuestions = NoQuestion THEN "idle" ELSE "expire"
  /\ UNCHANGED <<listVars, tellVars, cacheVars, useVars, rr, caller>>

--------------------------------------------------------------------------------
ClientCall == \E q \in Question : StartQuery(q) \/ StopQuery(q)

Receive == \E e \in Entry : ReceiveRecord(e) \/ ReceiveGrowing(e) \/ ReceiveRecycling(e)

\* What the engine does on its own, once it has been called
Engine ==
  \/ WalkPass
  \/ WalkTell
  \/ AddEnd
  \/ RmvEnd
  \/ TakeNewQuestion
  \/ AnswerNewQuestion
  \/ \E e \in Entry : AnswerTell(e)
  \/ AnswerEnd

Next ==
  \/ ClientCall
  \/ Return
  \/ Receive
  \/ Execute
  \/ \E e \in Entry : Expire(e)
  \/ Engine

Spec == Init /\ [][Next]_vars

\* Callbacks return, a handler that has begun goes on, and the event loop calls
\* mDNS_Execute between any two packets while there are new questions
Fairness ==
  /\ WF_vars(Return)
  /\ WF_vars(Engine)
  /\ SF_vars(Execute /\ NewQuestions # NoQuestion)

FairSpec == Spec /\ Fairness

--------------------------------------------------------------------------------
(* What must hold *)

\* Between two calls of the engine a question that has been answered is one
\* whose client knows the matching records of the cache, no more and no fewer,
\* and whose count says so ("Number of records currently in the cache that
\* answer this question"), whatever its callbacks and those of others started
\* and stopped on the way
ViewSettled ==
  handler = "idle" => \A q \in Listed :
    /\ given[q] = IF IsNew(q) THEN {} ELSE {e \in cache : <<e, q>> \in Answers}
    /\ CurrentAnswers[q] = Cardinality(given[q])

\* The record an Add or Rmv walk holds is not in the cache any more
InUse == {e \in cache \union ({rr} \ {NoEntry}) : CRActiveQuestion[e] # NoQuestion}

\* rrcache_active is the number of records in use, as mDNS_Close and the
\* daemon's state dump check
ActiveCounted == rrcache_active = Cardinality(InUse)

\* A cached record is kept in use by a listed, active question it answers; and
\* every record a client has been told of is in use, so that it is not recycled
\* and its client will hear of its end
UseJustified ==
  \A e \in cache :
    /\ CRActiveQuestion[e] # NoQuestion =>
         /\ ActiveQuestion(CRActiveQuestion[e])
         /\ <<e, CRActiveQuestion[e]>> \in Answers
    /\ \A q \in Listed : e \in given[q] => CRActiveQuestion[e] # NoQuestion

\* Of the questions with one identity exactly the first in the list is active,
\* and the others are its duplicates: when it is stopped another sends queries
FirstIsActive ==
  \A q \in Listed :
    DuplicateOf[q] = FindDuplicateQuestion(Questions, q)

\* "All of them use the m->CurrentQuestion mechanism to protect against
\* questions being deleted out from under them": a callback is only ever made
\* for a question that is in the list
CallsListed ==
  [][caller = NoQuestion /\ caller' # NoQuestion => caller' \in Listed]_vars

\* A new question comes to be answered from the cache, or stopped
QuestionsAnswered == \A q \in Question : IsNew(q) ~> ~IsNew(q)

\* The engine shows its clients what MDNSView promises
View == INSTANCE MDNSView WITH
  asked <- Listed,
  known <- cache,
  view  <- given,
  told  <- caller

ViewSpec == View!Spec

================================================================================
