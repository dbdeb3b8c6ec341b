-------------------------- MODULE Gateway_proofs ---------------------------
(***************************************************************************)
(* The request pipeline, for every number of requests, every configuration  *)
(* and every interleaving: its state is well typed, upstream calls carry    *)
(* their own client's key, what is denied leaves no trace, a submit tells   *)
(* the truth, and an audit's report is sound and complete.                  *)
(***************************************************************************)
EXTENDS Gateway, SequenceTheorems, FiniteSetTheorems, TLAPS

USE GatewayAssumption DEF GatewayAssumption

NoAnswer == Answer("none", "none")
AnswerType == [status : Statuses, body : Bodies]
ContextType == [auth : BackendKeys \cup {NoKey, Unset},
                app  : BackendKeys \cup {NoKey, Unset}]

(* The part of the state that is the requests' own.                         *)
RequestTypes ==
  /\ pc \in [Requests -> Stages]
  /\ DOMAIN sent = {r \in Requests : pc[r] # "away"}
  /\ sent \in [DOMAIN sent -> Traffic]
  /\ ctx \in [Requests -> ContextType]
  /\ wire \subseteq Calls /\ IsFiniteSet(wire)
  /\ answer \in [Requests -> AnswerType]

(* What holds of a request by where it is: until its handler ends it has no *)
(* answer, and beyond the access filter it was let through, or is denied;   *)
(* the route runs with its own backend key.                                 *)
Placed(r) ==
  /\ pc[r] \in {"away", "access", "auth", "route", "upstream"} => answer[r] = NoAnswer
  /\ pc[r] \in {"unmap", "record"} => answer[r].status # "denied"
  /\ pc[r] \notin {"away", "access"} =>
       Admitted(sent[r]) \/ answer[r].status = "denied"
  /\ pc[r] \in {"route", "upstream"} /\ ~Skipped(sent[r]) =>
       ctx[r].app = BackendKeyOf(sent[r].key)

(* And of its upstream calls: a denied request has none, and they carry its *)
(* own key.  A submit calls once, so that its answer is about that call.    *)
CallsFit(r) ==
  /\ pc[r] \in {"away", "access", "auth"} \/ answer[r].status = "denied" =>
       CallsOf(r) = {}
  /\ \A w \in CallsOf(r) : w.key = BackendKeyOf(sent[r].key)
  /\ pc[r] # "away" /\ sent[r].route = "submit" =>
       /\ pc[r] = "route" => CallsOf(r) = {}
       /\ pc[r] = "upstream" => \E w : CallsOf(r) = {w}
       /\ answer[r].status = "ok" => \E w \in CallsOf(r) : w.tx = "taken"
       /\ answer[r].status = "client" => \A w \in CallsOf(r) : w.tx = "refused"

RequestsFit == RequestTypes /\ \A r \in Requests : Placed(r) /\ CallsFit(r)

-----------------------------------------------------------------------------
LEMMA BackendKeyType ==
  ASSUME NEW q \in Sent
  PROVE  BackendKeyOf(q.key) \in BackendKeys \cup {NoKey} /\ BackendKeyOf(q.key) # Unset
BY DEF BackendKeyOf, Sent

LEMMA InitRequestsFit == Init => RequestsFit
<1> SUFFICES ASSUME Init PROVE RequestsFit
  OBVIOUS
<1>1. RequestTypes
  <2>1. DOMAIN sent = {} /\ sent \in [DOMAIN sent -> Traffic]
    BY DEF Init
  <2>2. NoAnswer \in AnswerType
    BY DEF NoAnswer, AnswerType, Answer, Statuses, Bodies
  <2>3. wire \subseteq Calls /\ IsFiniteSet(wire)
    BY FS_EmptySet DEF Init
  <2> QED BY <2>1, <2>2, <2>3 DEF Init, RequestTypes, Stages, ContextType, NoAnswer
<1>2. \A r \in Requests : pc[r] = "away" /\ answer[r] = NoAnswer /\ CallsOf(r) = {}
  BY DEF Init, NoAnswer, CallsOf
<1>3. NoAnswer.status = "none"
  BY DEF NoAnswer, Answer
<1> QED BY <1>1, <1>2, <1>3 DEF RequestsFit, Placed, CallsFit

(* A request that a step leaves alone keeps what holds of it.               *)
LEMMA Kept ==
  ASSUME NEW x \in Requests, Placed(x), CallsFit(x),
         pc'[x] = pc[x], pc[x] = "away" \/ sent'[x] = sent[x],
         ctx'[x].app = ctx[x].app, answer'[x] = answer[x], CallsOf(x)' = CallsOf(x)
  PROVE  Placed(x)' /\ CallsFit(x)'
<1>1. Placed(x)'
  BY DEF Placed
<1>2. CallsFit(x)'
  BY DEF CallsFit
<1> QED BY <1>1, <1>2

(* A step of one request that makes no call: Kept for the others, and what  *)
(* is left to show for the request itself.                                  *)
LEMMA OneMoves ==
  ASSUME RequestsFit, NEW r \in Requests, NEW from \in Stages \ {"away"},
         NEW to \in Stages \ {"away"}, Move(r, from, to),
         NEW a \in AnswerType, answer' = [answer EXCEPT ![r] = a],
         UNCHANGED <<sent, wire>>, ctx' \in [Requests -> ContextType],
         \A x \in Requests \ {r} : ctx'[x].app = ctx[x].app,
         Placed(r)', CallsFit(r)'
  PROVE  RequestsFit'
<1>1. RequestTypes'
  BY DEF RequestsFit, RequestTypes, Move
<1>2. ASSUME NEW x \in Requests, x # r PROVE Placed(x)' /\ CallsFit(x)'
  <2>1. pc'[x] = pc[x] /\ answer'[x] = answer[x] /\ CallsOf(x)' = CallsOf(x)
    BY <1>2 DEF RequestsFit, RequestTypes, Move, CallsOf
  <2> QED BY <1>2, <2>1, Kept DEF RequestsFit
<1> QED BY <1>1, <1>2 DEF RequestsFit

LEMMA SentType ==
  ASSUME RequestsFit, NEW r \in Requests, pc[r] # "away"
  PROVE  sent[r] \in Traffic /\ sent[r] \in Sent /\ r \in DOMAIN sent
BY DEF RequestsFit, RequestTypes

LEMMA ArriveFits ==
  ASSUME RequestsFit, NEW r \in Requests, NEW q \in Traffic, Arrive(r, q)
  PROVE  RequestsFit'
<1>1. /\ pc[r] = "away" /\ pc' = [pc EXCEPT ![r] = "access"]
      /\ sent' = [x \in DOMAIN sent \cup {r} |-> IF x = r THEN q ELSE sent[x]]
      /\ UNCHANGED <<ctx, wire, answer>>
  BY DEF Arrive, Move
<1>2. RequestTypes'
  <2>1. pc' \in [Requests -> Stages]
    BY <1>1 DEF RequestsFit, RequestTypes, Stages
  <2>2. DOMAIN sent' = {x \in Requests : pc'[x] # "away"}
    BY <1>1 DEF RequestsFit, RequestTypes
  <2>3. sent' \in [DOMAIN sent' -> Traffic]
    BY <1>1 DEF RequestsFit, RequestTypes
  <2> QED BY <1>1, <2>1, <2>2, <2>3 DEF RequestsFit, RequestTypes
<1>3. ASSUME NEW x \in Requests, x # r PROVE Placed(x)' /\ CallsFit(x)'
  <2>1. pc'[x] = pc[x] /\ CallsOf(x)' = CallsOf(x)
    BY <1>1, <1>3 DEF RequestsFit, RequestTypes, CallsOf
  <2>2. pc[x] = "away" \/ sent'[x] = sent[x]
    BY <1>1, <1>3 DEF RequestsFit, RequestTypes
  <2> QED BY <1>1, <2>1, <2>2, Kept DEF RequestsFit
<1>4. pc'[r] = "access" /\ answer'[r] = NoAnswer /\ CallsOf(r)' = {}
  BY <1>1 DEF RequestsFit, RequestTypes, Placed, CallsFit, CallsOf
<1>5. NoAnswer.status = "none"
  BY DEF NoAnswer, Answer
<1>6. Placed(r)' /\ CallsFit(r)'
  BY <1>4, <1>5 DEF Placed, CallsFit
<1> QED BY <1>2, <1>3, <1>6 DEF RequestsFit

LEMMA AdmitFits ==
  ASSUME RequestsFit, NEW r \in Requests, Admit(r)
  PROVE  RequestsFit'
<1>1. /\ pc[r] = "access" /\ UNCHANGED <<sent, ctx, wire>>
      /\ pc \in [Requests -> Stages] /\ answer \in [Requests -> AnswerType]
      /\ ctx \in [Requests -> ContextType]
      /\ answer[r] = NoAnswer /\ CallsOf(r) = {} /\ CallsOf(r)' = CallsOf(r)
  BY DEF Admit, RequestsFit, RequestTypes, Placed, CallsFit, CallsOf
<1>2. NoAnswer.status = "none" /\ NoAnswer \in AnswerType
  BY DEF NoAnswer, Answer, AnswerType, Statuses, Bodies
<1>3. CASE Admitted(sent[r])
  <2>1. Move(r, "access", "auth") /\ UNCHANGED answer
    BY <1>3 DEF Admit
  <2>2. answer' = [answer EXCEPT ![r] = NoAnswer] /\ pc'[r] = "auth"
    BY <1>1, <2>1 DEF Move
  <2>3. Admitted(sent[r])'
    BY <1>1, <1>3
  <2>4. Placed(r)' /\ CallsFit(r)'
    BY <1>1, <1>2, <2>1, <2>2, <2>3 DEF Placed, CallsFit
  <2> QED BY <1>1, <1>2, <2>1, <2>2, <2>4, OneMoves DEF Stages
<1>4. CASE ~Admitted(sent[r])
  <2> DEFINE a == Answer("denied", "face")
  <2>1. Move(r, "access", "leaving") /\ answer' = [answer EXCEPT ![r] = a]
    BY <1>4 DEF Admit
  <2>2. answer'[r] = a /\ pc'[r] = "leaving"
    BY <1>1, <2>1 DEF Move
  <2>3. a \in AnswerType /\ a.status = "denied"
    BY DEF Answer, AnswerType, Statuses, Bodies
  <2>4. Placed(r)' /\ CallsFit(r)'
    BY <1>1, <2>2, <2>3 DEF Placed, CallsFit
  <2> QED BY <1>1, <2>1, <2>3, <2>4, OneMoves DEF Stages
<1> QED BY <1>3, <1>4

LEMMA MapKeyFits ==
  ASSUME RequestsFit, NEW r \in Requests, MapKey(r)
  PROVE  RequestsFit'
<1> DEFINE value == IF Skipped(sent[r]) THEN ctx[r].auth ELSE BackendKeyOf(sent[r].key)
<1>1. /\ Move(r, "auth", "route") /\ UNCHANGED <<sent, wire, answer>>
      /\ ctx' = [ctx EXCEPT ![r] = [auth |-> value, app |-> value]]
  BY DEF MapKey
<1>2. /\ pc[r] = "auth" /\ pc'[r] = "route" /\ sent[r] \in Sent
      /\ answer \in [Requests -> AnswerType] /\ ctx \in [Requests -> ContextType]
      /\ answer[r] = NoAnswer /\ CallsOf(r) = {} /\ CallsOf(r)' = CallsOf(r)
  BY <1>1, SentType DEF Move, RequestsFit, RequestTypes, Placed, CallsFit, CallsOf
<1>3. NoAnswer.status = "none" /\ NoAnswer \in AnswerType
  BY DEF NoAnswer, Answer, AnswerType, Statuses, Bodies
<1>4. value \in BackendKeys \cup {NoKey, Unset}
  BY <1>2, BackendKeyType DEF ContextType
<1>5. ~Skipped(sent[r]) => value = BackendKeyOf(sent[r].key)
  OBVIOUS
<1> HIDE DEF value
<1>6. ctx' \in [Requests -> ContextType] /\ ctx'[r].app = value
      /\ \A x \in Requests \ {r} : ctx'[x].app = ctx[x].app
  BY <1>1, <1>2, <1>4 DEF ContextType
<1>7. Admitted(sent[r])'
  BY <1>1, <1>2, <1>3 DEF RequestsFit, Placed
<1>8. Placed(r)'
  BY <1>1, <1>2, <1>5, <1>6, <1>7 DEF Placed, Skipped, BackendKeyOf
<1>9. CallsFit(r)'
  BY <1>1, <1>2, <1>3 DEF CallsFit
<1> QED
  BY <1>1, <1>2, <1>3, <1>6, <1>8, <1>9, OneMoves DEF Stages

(* A handler ends: with any answer but a submit's, or with one that is so.  *)
LEMMA FinishFits ==
  ASSUME RequestsFit, NEW r \in Requests, NEW from \in {"route", "upstream"},
         NEW a \in AnswerType, Move(r, from, "unmap"),
         answer' = [answer EXCEPT ![r] = a], UNCHANGED <<sent, ctx, wire>>,
         a.status # "denied",
         sent[r].route = "submit" =>
           /\ a.status = "ok" => \E w \in CallsOf(r) : w.tx = "taken"
           /\ a.status = "client" => \A w \in CallsOf(r) : w.tx = "refused"
  PROVE  RequestsFit'
<1>1. /\ pc[r] = from /\ pc'[r] = "unmap" /\ answer'[r] = a
      /\ ctx \in [Requests -> ContextType] /\ answer[r] = NoAnswer
      /\ CallsOf(r)' = CallsOf(r)
  BY DEF Move, RequestsFit, RequestTypes, Placed, CallsOf
<1>2. NoAnswer.status = "none"
  BY DEF NoAnswer, Answer
<1>3. Admitted(sent[r])'
  BY <1>1, <1>2 DEF RequestsFit, Placed
<1>4. Placed(r)'
  BY <1>1, <1>3 DEF Placed
<1>5. CallsFit(r)'
  BY <1>1 DEF RequestsFit, CallsFit
<1> QED BY <1>1, <1>4, <1>5, OneMoves DEF Stages

(* The answers the handlers give.                                           *)
LEMMA AnswersTyped ==
  /\ \A s \in Statuses, b \in Bodies : Answer(s, b) \in AnswerType
  /\ \A s, b : Answer(s, b).status = s
BY DEF Answer, AnswerType

LEMMA PlainFinish ==
  ASSUME RequestsFit, NEW r \in Requests, sent[r].route # "submit",
         NEW s \in {"ok", "notfound", "client", "server"}, NEW b \in Bodies,
         Finish(r, Answer(s, b))
  PROVE  RequestsFit'
<1>1. Answer(s, b) \in AnswerType /\ Answer(s, b).status = s
  BY AnswersTyped DEF Statuses
<1> QED BY <1>1, FinishFits DEF Finish

LEMMA HandleFits ==
  ASSUME RequestsFit, NEW r \in Requests, Handle(r), ~CallUpstream(r)
  PROVE  RequestsFit'
<1>1. CASE HandleEmpty(r)
  <2>1. Finish(r, Answer("client", "face")) /\ CallsOf(r) = {}
    BY <1>1 DEF HandleEmpty
  <2>2. /\ Answer("client", "face") \in AnswerType
        /\ Answer("client", "face").status = "client"
    BY AnswersTyped DEF Statuses, Bodies
  <2> QED
    BY <2>1, <2>2, FinishFits DEF Finish
<1>2. CASE HandleFace(r)
  <2>1. PICK a \in FaceAnswers : Finish(r, a)
    BY <1>2 DEF HandleFace
  <2>2. a \in AnswerType /\ a.status # "denied"
    BY AnswersTyped DEF FaceAnswers, Statuses, Bodies
  <2>3. sent[r].route # "submit"
    BY <1>2 DEF HandleFace
  <2> QED BY <2>1, <2>2, <2>3, FinishFits DEF Finish
<1>3. CASE HandleUnrouted(r)
  <2>1. PICK s \in {"notfound", "client"} : Finish(r, Answer(s, "detail"))
    BY <1>3 DEF HandleUnrouted
  <2>2. sent[r].route # "submit"
    BY <1>3 DEF HandleUnrouted
  <2> QED BY <2>1, <2>2, PlainFinish DEF Bodies
<1>4. CASE HandleOpen(r)
  <2>1. Finish(r, Answer("ok", "resource")) /\ sent[r].route # "submit"
    BY <1>4 DEF HandleOpen
  <2> QED BY <2>1, PlainFinish DEF Bodies
<1>5. CASE HandleStart(r)
  <2>1. /\ Finish(r, Answer(IF AuditEnabled THEN "ok" ELSE "client", "resource"))
        /\ sent[r].route # "submit"
    BY <1>5 DEF HandleStart
  <2> QED BY <2>1, PlainFinish DEF Bodies
<1>6. CASE HandleReport(r)
  <2>1. /\ Finish(r, Answer(IF reply'.found THEN "ok" ELSE "notfound", "resource"))
        /\ sent[r].route # "submit"
    BY <1>6 DEF HandleReport
  <2> QED BY <2>1, PlainFinish DEF Bodies
<1> QED BY <1>1, <1>2, <1>3, <1>4, <1>5, <1>6 DEF Handle

(* The number of calls made so far is the number of the next one's place.   *)
LEMMA CallUpstreamFits ==
  ASSUME RequestsFit, NEW r \in Requests, CallUpstream(r)
  PROVE  RequestsFit'
<1> DEFINE w == [req |-> r, n |-> Cardinality(CallsOf(r)) + 1,
                 key |-> CurrentKey(ctx[r].app),
                 tx |-> IF sent[r].route = "submit" THEN "open" ELSE "none"]
<1>1. /\ Move(r, "route", "upstream") /\ wire' = wire \cup {w}
      /\ UNCHANGED <<sent, ctx, answer>> /\ sent[r].route \in Implemented
      /\ Cardinality(CallsOf(r)) < MaxCalls
  BY DEF CallUpstream
<1>2. /\ pc[r] = "route" /\ pc'[r] = "upstream" /\ sent[r] \in Sent
      /\ answer[r] = NoAnswer /\ pc \in [Requests -> Stages]
  BY <1>1, SentType DEF Move, RequestsFit, RequestTypes, Placed
<1>3. NoAnswer.status = "none"
  BY DEF NoAnswer, Answer
<1>4. w.key = BackendKeyOf(sent[r].key) /\ w.key \in BackendKeys \cup {NoKey}
  <2>1. ~Skipped(sent[r])
    BY <1>1 DEF Skipped, Implemented
  <2>2. ctx[r].app = BackendKeyOf(sent[r].key)
    BY <1>2, <2>1 DEF RequestsFit, Placed
  <2> QED BY <1>2, <2>2, BackendKeyType DEF CurrentKey
<1>5. w.n \in 1 .. MaxCalls
  <2>1. IsFiniteSet(CallsOf(r))
    BY FS_Subset DEF RequestsFit, RequestTypes, CallsOf
  <2>2. Cardinality(CallsOf(r)) \in Nat
    BY <2>1, FS_CardinalityType
  <2> QED BY <1>1, <2>2
<1>6. w \in Calls /\ w.req = r
  BY <1>4, <1>5 DEF Calls, Fates
<1> HIDE DEF w
<1>7. RequestTypes'
  <2>1. wire' \subseteq Calls /\ IsFiniteSet(wire')
    BY <1>1, <1>6, FS_AddElement DEF RequestsFit, RequestTypes
  <2> QED BY <1>1, <1>2, <2>1 DEF RequestsFit, RequestTypes, Move, Stages
<1>8. ASSUME NEW x \in Requests, x # r PROVE Placed(x)' /\ CallsFit(x)'
  <2>1. pc'[x] = pc[x] /\ CallsOf(x)' = CallsOf(x)
    BY <1>1, <1>2, <1>6, <1>8 DEF Move, CallsOf
  <2> QED BY <1>1, <1>8, <2>1, Kept DEF RequestsFit
<1>9. CallsOf(r)' = CallsOf(r) \cup {w}
  BY <1>1, <1>6 DEF CallsOf
<1>10. Placed(r)'
  <2>1. Admitted(sent[r])'
    BY <1>1, <1>2, <1>3 DEF RequestsFit, Placed
  <2> QED BY <1>1, <1>2, <2>1 DEF RequestsFit, Placed
<1>11. CallsFit(r)'
  <2>1. sent[r].route = "submit" => CallsOf(r)' = {w}
    BY <1>2, <1>9 DEF RequestsFit, CallsFit
  <2>2. \A u \in CallsOf(r)' : u.key = BackendKeyOf(sent[r].key)
    BY <1>4, <1>9 DEF RequestsFit, CallsFit
  <2> QED BY <1>1, <1>2, <1>3, <2>1, <2>2 DEF CallsFit, BackendKeyOf
<1> QED BY <1>7, <1>8, <1>10, <1>11 DEF RequestsFit

(* A face's call is over and its handler runs on.                           *)
LEMMA ReturnFits ==
  ASSUME RequestsFit, NEW r \in Requests, BackendAnswers(r) \/ UpstreamTimeout(r)
  PROVE  RequestsFit'
<1>1. /\ Move(r, "upstream", "route") /\ UNCHANGED <<sent, ctx, wire, answer>>
      /\ sent[r].route = "face"
  BY DEF BackendAnswers, UpstreamTimeout
<1>2. /\ pc[r] = "upstream" /\ pc'[r] = "route" /\ answer[r] \in AnswerType
      /\ answer' = [answer EXCEPT ![r] = answer[r]]
      /\ ctx' \in [Requests -> ContextType] /\ CallsOf(r)' = CallsOf(r)
      /\ answer[r] = NoAnswer
  BY <1>1 DEF Move, RequestsFit, RequestTypes, Placed, CallsOf
<1>3. Placed(r)'
  BY <1>1, <1>2 DEF RequestsFit, Placed
<1>4. CallsFit(r)'
  BY <1>1, <1>2 DEF RequestsFit, CallsFit
<1> QED BY <1>1, <1>2, <1>3, <1>4, OneMoves DEF Stages

(* The backend's decision changes what became of one call's transaction: of *)
(* a submit that still waits, or has been told neither of both.             *)
LEMMA BackendDecidesFits ==
  ASSUME RequestsFit, NEW w \in wire, BackendDecides(w)
  PROVE  RequestsFit'
<1>1. PICK fate \in {"taken", "refused"} :
        wire' = (wire \ {w}) \cup {[w EXCEPT !.tx = fate]}
  BY DEF BackendDecides
<1> DEFINE u == [w EXCEPT !.tx = fate]
<1>2. w \in Calls /\ w.tx = "open" /\ UNCHANGED <<pc, sent, ctx, answer>>
  BY DEF BackendDecides, RequestsFit, RequestTypes
<1>3. u \in Calls /\ u.req = w.req /\ u.key = w.key /\ w.req \in Requests
  BY <1>2 DEF Calls, Fates
<1> HIDE DEF u
<1>4. RequestTypes'
  <2>1. IsFiniteSet(wire \ {w})
    BY FS_Subset DEF RequestsFit, RequestTypes
  <2>2. wire' \subseteq Calls /\ IsFiniteSet(wire')
    BY <1>1, <1>3, <2>1, FS_AddElement DEF RequestsFit, RequestTypes, u
  <2> QED BY <1>2, <2>2 DEF RequestsFit, RequestTypes
<1>5. ASSUME NEW x \in Requests, x # w.req PROVE Placed(x)' /\ CallsFit(x)'
  <2>1. CallsOf(x)' = CallsOf(x)
    BY <1>1, <1>3, <1>5 DEF CallsOf, u
  <2> QED BY <1>2, <1>5, <2>1, Kept DEF RequestsFit
<1>6. Placed(w.req)'
  BY <1>2, <1>3 DEF RequestsFit, Placed
<1>7. CallsFit(w.req)'
  <2> DEFINE r == w.req
  <2>1. w \in CallsOf(r) /\ CallsFit(r) /\ r \in Requests
    BY <1>3 DEF CallsOf, RequestsFit
  <2>2. CallsOf(r)' = (CallsOf(r) \ {w}) \cup {u}
    BY <1>1, <1>3 DEF CallsOf, u
  <2> HIDE DEF r
  <2>3. pc[r] \notin {"away", "access", "auth"} /\ answer[r].status # "denied"
    BY <2>1 DEF CallsFit
  <2>4. \A v \in CallsOf(r)' : v.key = BackendKeyOf(sent[r].key)
    BY <1>3, <2>1, <2>2 DEF CallsFit
  <2>5. ASSUME sent[r].route = "submit"
        PROVE  /\ pc[r] # "route"
               /\ pc[r] = "upstream" => CallsOf(r)' = {u}
               /\ answer[r].status = "ok" => \E v \in CallsOf(r)' : v.tx = "taken"
               /\ answer[r].status # "client"
    <3>1. /\ pc[r] # "route"
          /\ pc[r] = "upstream" => \E v : CallsOf(r) = {v}
          /\ answer[r].status = "ok" => \E v \in CallsOf(r) : v.tx = "taken"
          /\ answer[r].status = "client" => w.tx = "refused"
      BY <2>1, <2>3, <2>5 DEF CallsFit
    <3>2. pc[r] = "upstream" => CallsOf(r)' = {u}
      BY <2>1, <2>2, <3>1
    <3>3. answer[r].status = "ok" => \E v \in CallsOf(r)' : v.tx = "taken"
      BY <1>2, <2>2, <3>1
    <3> QED BY <1>2, <3>1, <3>2, <3>3
  <2> QED BY <1>2, <2>3, <2>4, <2>5 DEF CallsFit, BackendKeyOf, r
<1> QED BY <1>4, <1>5, <1>6, <1>7 DEF RequestsFit

(* A submit ends with what the backend said of its one call, or with what   *)
(* says neither.                                                            *)
LEMMA SubmitFits ==
  ASSUME RequestsFit, NEW r \in Requests,
         SubmitAnswered(r) \/ SubmitTimeout(r) \/ SubmitLost(r)
  PROVE  RequestsFit'
<1>1. ASSUME NEW a \in AnswerType, SubmitEnds(r, a), a.status # "denied",
             a.status = "ok" => \E w \in CallsOf(r) : w.tx = "taken",
             a.status = "client" => \A w \in CallsOf(r) : w.tx = "refused"
      PROVE  RequestsFit'
  BY <1>1, FinishFits DEF SubmitEnds
<1>2. ASSUME NEW b \in {"face", "plain"}, SubmitEnds(r, Answer("server", b))
      PROVE  RequestsFit'
  BY <1>1, <1>2, AnswersTyped DEF Statuses, Bodies
<1>3. ASSUME NEW w \in CallsOf(r), w.tx \in {"taken", "refused"},
             SubmitEnds(r, IF w.tx = "taken" THEN Answer("ok", "resource")
                                            ELSE Answer("client", "face"))
      PROVE  RequestsFit'
  <2>1. pc[r] = "upstream" /\ sent[r].route = "submit"
    BY <1>3 DEF SubmitEnds, Move
  <2>2. CallsOf(r) = {w}
    BY <1>3, <2>1 DEF RequestsFit, CallsFit
  <2>3. CASE w.tx = "taken"
    BY <1>1, <1>3, <2>2, <2>3, AnswersTyped DEF Statuses, Bodies
  <2>4. CASE w.tx = "refused"
    BY <1>1, <1>3, <2>2, <2>4, AnswersTyped DEF Statuses, Bodies
  <2> QED BY <1>3, <2>3, <2>4
<1> QED
  BY <1>2, <1>3 DEF SubmitAnswered, SubmitTimeout, SubmitLost

(* On the way back a request has its answer and changes neither it nor its  *)
(* calls.                                                                   *)
LEMMA LeaveFits ==
  ASSUME RequestsFit, NEW r \in Requests, Unmap(r) \/ Record(r) \/ Respond(r)
  PROVE  RequestsFit'
<1>1. \E from \in {"unmap", "record", "leaving"}, to \in {"record", "leaving", "done"} :
        Move(r, from, to) /\ (to = "record" => from = "unmap")
  BY DEF Unmap, Record, Respond
<1>2. PICK from \in {"unmap", "record", "leaving"}, to \in {"record", "leaving", "done"} :
        Move(r, from, to) /\ (to = "record" => from = "unmap")
  BY <1>1
<1>3. /\ UNCHANGED <<sent, wire, answer>>
      /\ ctx' = ctx \/ ctx' = [ctx EXCEPT ![r].auth = Unset]
  BY DEF Unmap, Record, Respond
<1>4. ctx' \in [Requests -> ContextType] /\ \A x \in Requests : ctx'[x].app = ctx[x].app
  <2>1. ctx \in [Requests -> ContextType]
    BY DEF RequestsFit, RequestTypes
  <2>2. CASE ctx' = ctx
    BY <2>1, <2>2
  <2>3. CASE ctx' = [ctx EXCEPT ![r].auth = Unset]
    <3>1. [ctx[r] EXCEPT !.auth = Unset] \in ContextType
      BY <2>1 DEF ContextType
    <3>2. [ctx[r] EXCEPT !.auth = Unset].app = ctx[r].app
      BY <2>1 DEF ContextType
    <3>3. ctx' = [ctx EXCEPT ![r] = [ctx[r] EXCEPT !.auth = Unset]]
      BY <2>3
    <3> QED BY <2>1, <3>1, <3>2, <3>3
  <2> QED BY <1>3, <2>2, <2>3
<1>5. /\ pc[r] = from /\ pc'[r] = to /\ answer[r] \in AnswerType
      /\ answer' = [answer EXCEPT ![r] = answer[r]] /\ CallsOf(r)' = CallsOf(r)
  BY <1>2, <1>3 DEF Move, RequestsFit, RequestTypes, CallsOf
<1>6. Placed(r)'
  BY <1>2, <1>3, <1>5 DEF RequestsFit, Placed
<1>7. CallsFit(r)'
  BY <1>3, <1>5 DEF RequestsFit, CallsFit
<1> QED BY <1>2, <1>3, <1>4, <1>5, <1>6, <1>7, OneMoves DEF Stages

LEMMA NextFits == RequestsFit /\ [Next]_vars => RequestsFit'
<1> SUFFICES ASSUME RequestsFit, [Next]_vars PROVE RequestsFit'
  OBVIOUS
<1>1. CASE UNCHANGED requestVars
  <2>1. RequestTypes'
    BY <1>1 DEF requestVars, RequestsFit, RequestTypes
  <2>2. ASSUME NEW x \in Requests PROVE Placed(x)' /\ CallsFit(x)'
    BY <1>1, Kept DEF requestVars, RequestsFit, CallsOf
  <2> QED BY <2>1, <2>2 DEF RequestsFit
<1>2. CASE \E r \in Requests, q \in Traffic : Arrive(r, q)
  BY <1>2, ArriveFits
<1>3. ASSUME NEW r \in Requests, Step(r) PROVE RequestsFit'
  <2>1. CASE Handle(r)
    BY <2>1, HandleFits, CallUpstreamFits
  <2>2. CASE ~Handle(r)
    BY <1>3, <2>2, AdmitFits, MapKeyFits, ReturnFits, SubmitFits, LeaveFits DEF Step
  <2> QED BY <2>1, <2>2
<1>4. ASSUME NEW r \in Requests, BackendAnswers(r) \/ SubmitAnswered(r) \/ SubmitLost(r)
      PROVE  RequestsFit'
  BY <1>4, ReturnFits, SubmitFits
<1>5. CASE \E w \in wire : BackendDecides(w)
  BY <1>5, BackendDecidesFits
<1>6. PassTime => UNCHANGED requestVars
  BY DEF PassTime
<1>7. UNCHANGED vars => UNCHANGED requestVars
  BY DEF vars, requestVars
<1> QED BY <1>1, <1>2, <1>3, <1>4, <1>5, <1>6, <1>7 DEF Next

-----------------------------------------------------------------------------
(* The audit store, and what its sessions say of the requests.              *)
Answering == {"leaving", "done"}

(* An event of a session is of a request that matches its key, was let      *)
(* through and has its answer, not an unhandled error, which it had not     *)
(* when the audit was started.                                              *)
EntryFits(k, e) ==
  /\ k \in KeysOf(e.req) /\ pc[e.req] \in Answering
  /\ ~Raised(e.req) /\ answer[e.req].status # "denied"
  /\ e.req \notin before[k]
  /\ e.label = LabelOf(sent[e.req], answer[e.req].status)

AllDifferent(s) ==
  \A i, j \in DOMAIN s.events : s.events[i].what = s.events[j].what => i = j

(* A request since the start that got such an answer is in the session,     *)
(* live or not: what is not is removed before anything is recorded.         *)
Complete(k) ==
  \A r \in since[k] :
    pc[r] \in Answering /\ Auditable(r) /\ k \in KeysOf(r) /\ ~Raised(r) => InReport(r, k)

SessionFits(k) ==
  /\ \A i \in DOMAIN sessions[k].events : EntryFits(k, sessions[k].events[i].what)
  /\ Ips \cap PublicKeys = {} => AllDifferent(sessions[k])
  /\ Complete(k)

StoreFits ==
  /\ Store!StoreTypeOK
  /\ since \in [BindKeys -> SUBSET Requests]
  /\ before \in [BindKeys -> SUBSET Requests]
  /\ \A k \in BindKeys : \A r \in before[k] : pc[r] = "done"
  /\ \A k \in DOMAIN sessions : SessionFits(k)

IInv == RequestsFit /\ StoreFits

LEMMA InitStoreFits == Init => StoreFits
<1> SUFFICES ASSUME Init PROVE StoreFits
  OBVIOUS
<1>1. sessions = [k \in {} |-> Store!NothingFound(k)] /\ DOMAIN sessions = {}
  BY DEF Init, Store!StoreInit
<1>2. Store!StoreTypeOK
  <2>1. reply \in Store!Reply
    BY EmptySeq DEF Init, Store!StoreInit, Store!NothingFound, Store!Reply
  <2>2. clock \in Store!Times
    BY DEF Init, Store!StoreInit, Store!Times
  <2> QED BY <1>1, <2>1, <2>2 DEF Store!StoreTypeOK
<1> QED BY <1>1, <1>2 DEF Init, StoreFits

(* What a session holds, typed.                                             *)
LEMMA SessionTyped ==
  ASSUME StoreFits, NEW k \in DOMAIN sessions
  PROVE  /\ k \in BindKeys /\ sessions[k] \in Store!Session
         /\ sessions[k].events \in Seq(Store!Event)
         /\ \A i \in DOMAIN sessions[k].events :
              sessions[k].events[i].what \in Payloads
<1>1. k \in BindKeys /\ sessions[k] \in Store!Session
  BY DEF StoreFits, Store!StoreTypeOK
<1>2. sessions[k].events \in Seq(Store!Event)
  BY <1>1 DEF Store!Session
<1>3. ASSUME NEW i \in DOMAIN sessions[k].events
      PROVE  sessions[k].events[i].what \in Payloads
  <2>1. sessions[k].events[i] \in Store!Event
    BY <1>2, <1>3
  <2> QED BY <2>1 DEF Store!Event
<1> QED BY <1>1, <1>2, <1>3

(* A step that leaves the answered requests as they are, and a session, its *)
(* start and those since that belong in it, keeps what holds of the session.*)
AnsweredStay ==
  \A x \in Requests : pc[x] \in Answering =>
    pc'[x] \in Answering /\ sent'[x] = sent[x] /\ answer'[x] = answer[x]

(* What is recorded stays true of its request.                              *)
LEMMA EntryStays ==
  ASSUME AnsweredStay, NEW k \in BindKeys, before'[k] = before[k],
         NEW entry, entry.req \in Requests, EntryFits(k, entry)
  PROVE  EntryFits(k, entry)'
BY DEF AnsweredStay, EntryFits, KeysOf, AuditIp, Raised, LabelOf

LEMMA SessionKept ==
  ASSUME StoreFits, NEW k \in DOMAIN sessions, k \in DOMAIN sessions', AnsweredStay,
         sessions'[k] = sessions[k], before'[k] = before[k],
         since' \in [BindKeys -> SUBSET Requests],
         \A x \in since'[k] : pc'[x] \in Answering /\ Auditable(x)' /\ ~Raised(x)' =>
           x \in since[k] /\ pc[x] \in Answering
  PROVE  SessionFits(k)'
<1>1. \A i \in DOMAIN sessions[k].events : EntryFits(k, sessions[k].events[i].what)'
  <2> SUFFICES ASSUME NEW i \in DOMAIN sessions[k].events
               PROVE  EntryFits(k, sessions[k].events[i].what)'
    OBVIOUS
  <2>1. EntryFits(k, sessions[k].events[i].what)
    BY DEF StoreFits, SessionFits
  <2>2. sessions[k].events[i].what.req \in Requests
    BY SessionTyped DEF Payloads
  <2> QED BY <2>1, <2>2 DEF AnsweredStay, EntryFits, KeysOf, AuditIp, Raised, LabelOf
<1>2. Complete(k)'
  <2> SUFFICES ASSUME NEW x \in since'[k], pc'[x] \in Answering, Auditable(x)',
                      k \in KeysOf(x)', ~Raised(x)'
               PROVE  InReport(x, k)'
    BY DEF Complete
  <2>1. x \in Requests /\ x \in since[k] /\ pc[x] \in Answering
    BY SessionTyped
  <2>2. sent'[x] = sent[x] /\ answer'[x] = answer[x]
    BY <2>1 DEF AnsweredStay
  <2>3. Auditable(x) /\ k \in KeysOf(x) /\ ~Raised(x)
    BY <2>2 DEF Auditable, KeysOf, AuditIp, Raised
  <2>4. InReport(x, k)
    BY <2>1, <2>3 DEF StoreFits, SessionFits, Complete
  <2> QED BY <2>4 DEF InReport, Recorded, Entries
<1>3. (Ips \cap PublicKeys = {} => AllDifferent(sessions[k]))'
  BY DEF StoreFits, SessionFits, AllDifferent
<1> QED BY <1>1, <1>2, <1>3 DEF SessionFits

(* A step that at most removes sessions.                                    *)
LEMMA StoreKept ==
  ASSUME IInv, NEW D \in SUBSET DOMAIN sessions, sessions' = [k \in D |-> sessions[k]],
         clock' \in Store!Times, reply' \in Store!Reply,
         since' \in [BindKeys -> SUBSET Requests], UNCHANGED before, AnsweredStay,
         \A x \in Requests : pc[x] = "done" => pc'[x] = "done",
         \A k \in BindKeys : \A x \in since'[k] :
           pc'[x] \in Answering /\ Auditable(x)' /\ ~Raised(x)' =>
             x \in since[k] /\ pc[x] \in Answering
  PROVE  StoreFits'
<1>1. Store!StoreTypeOK'
  BY DEF IInv, StoreFits, Store!StoreTypeOK
<1>2. ASSUME NEW k \in D PROVE SessionFits(k)'
  BY <1>2, SessionKept, SessionTyped DEF IInv, StoreFits
<1> QED BY <1>1, <1>2 DEF IInv, StoreFits

(* The steps that leave the store alone.                                    *)
LEMMA StoreAlone ==
  ASSUME IInv, UNCHANGED <<clock, sessions, reply, before>>, AnsweredStay,
         since' \in [BindKeys -> SUBSET Requests],
         \A x \in Requests : pc[x] = "done" => pc'[x] = "done",
         \A k \in BindKeys : \A x \in since'[k] :
           pc'[x] \in Answering /\ Auditable(x)' /\ ~Raised(x)' =>
             x \in since[k] /\ pc[x] \in Answering
  PROVE  StoreFits'
<1>1. sessions' = [k \in DOMAIN sessions |-> sessions[k]]
  BY DEF IInv, StoreFits, Store!StoreTypeOK
<1>2. clock' \in Store!Times /\ reply' \in Store!Reply
  BY DEF IInv, StoreFits, Store!StoreTypeOK
<1> QED BY <1>1, <1>2, StoreKept

(* A request that moves, and gets no answer that belongs in a report.       *)
LEMMA MoveKeeps ==
  ASSUME IInv, NEW r \in Requests, NEW from \in Stages \ {"away", "done"}, NEW to \in Stages,
         Move(r, from, to), from = "leaving" => to \in Answering,
         UNCHANGED sent, \A x \in Requests \ {r} : answer'[x] = answer[x],
         from = "leaving" => answer'[r] = answer[r],
         from # "leaving" /\ to \in Answering => ~Auditable(r)' \/ Raised(r)'
  PROVE  /\ AnsweredStay
         /\ \A x \in Requests : pc[x] = "done" => pc'[x] = "done"
         /\ \A x \in Requests : pc'[x] \in Answering /\ Auditable(x)' /\ ~Raised(x)' =>
              pc[x] \in Answering
<1>1. pc[r] = from /\ pc'[r] = to /\ \A x \in Requests \ {r} : pc'[x] = pc[x]
  BY DEF Move, IInv, RequestsFit, RequestTypes
<1> QED BY <1>1 DEF AnsweredStay, Answering

LEMMA ArriveStore ==
  ASSUME IInv, NEW r \in Requests, NEW q \in Traffic, Arrive(r, q)
  PROVE  StoreFits'
<1>1. /\ pc[r] = "away" /\ pc'[r] = "access"
      /\ \A x \in Requests \ {r} : pc'[x] = pc[x]
      /\ UNCHANGED <<answer, clock, sessions, reply, before>>
      /\ since' = [k \in BindKeys |-> since[k] \cup {r}]
  BY DEF Arrive, Move, IInv, RequestsFit, RequestTypes
<1>2. \A x \in Requests : pc[x] # "away" => sent'[x] = sent[x]
  BY <1>1 DEF Arrive, IInv, RequestsFit, RequestTypes
<1>3. AnsweredStay /\ \A x \in Requests : pc[x] = "done" => pc'[x] = "done"
  BY <1>1, <1>2 DEF AnsweredStay, Answering
<1>4. since' \in [BindKeys -> SUBSET Requests]
  BY <1>1 DEF IInv, StoreFits
<1>5. \A k \in BindKeys : \A x \in since'[k] :
        pc'[x] \in Answering => x \in since[k] /\ pc[x] \in Answering
  BY <1>1, <1>4 DEF Answering
<1> QED BY <1>1, <1>3, <1>4, <1>5, StoreAlone

(* Such a move that leaves the store alone.                                 *)
LEMMA MoveStore ==
  ASSUME IInv, NEW r \in Requests, NEW from \in Stages \ {"away", "done"}, NEW to \in Stages,
         Move(r, from, to), from = "leaving" => to \in Answering,
         UNCHANGED sent, \A x \in Requests \ {r} : answer'[x] = answer[x],
         from = "leaving" => answer'[r] = answer[r],
         from # "leaving" /\ to \in Answering => ~Auditable(r)' \/ Raised(r)',
         UNCHANGED <<clock, sessions, reply, since, before>>
  PROVE  StoreFits'
<1>1. since' \in [BindKeys -> SUBSET Requests]
  BY DEF IInv, StoreFits
<1>2. \A k \in BindKeys : \A x \in since'[k] : x \in Requests /\ x \in since[k]
  BY DEF IInv, StoreFits
<1> QED BY <1>1, <1>2, MoveKeeps, StoreAlone

LEMMA AdmitStore ==
  ASSUME IInv, NEW r \in Requests, Admit(r)
  PROVE  StoreFits'
<1>0. UNCHANGED sent /\ StoreUnchanged /\ answer \in [Requests -> AnswerType]
  BY DEF Admit, IInv, RequestsFit, RequestTypes
<1>1. CASE Move(r, "access", "auth") /\ UNCHANGED answer
  BY <1>0, <1>1, MoveStore DEF StoreUnchanged, Stages, Answering
<1>2. CASE /\ Move(r, "access", "leaving")
           /\ answer' = [answer EXCEPT ![r] = Answer("denied", "face")]
  <2>1. answer'[r].status = "denied" /\ \A x \in Requests \ {r} : answer'[x] = answer[x]
    BY <1>0, <1>2 DEF Answer
  <2>2. ~Auditable(r)'
    BY <2>1 DEF Auditable
  <2> QED BY <1>0, <1>2, <2>1, <2>2, MoveStore DEF StoreUnchanged, Stages
<1> QED BY <1>1, <1>2 DEF Admit

(* The other steps that touch nothing of the store.                         *)
LEMMA PlainStore ==
  ASSUME IInv, NEW r \in Requests,
         \/ MapKey(r) \/ CallUpstream(r) \/ BackendAnswers(r) \/ UpstreamTimeout(r)
         \/ SubmitAnswered(r) \/ SubmitTimeout(r) \/ SubmitLost(r) \/ Unmap(r)
  PROVE  StoreFits'
<1>0. answer \in [Requests -> AnswerType]
  BY DEF IInv, RequestsFit, RequestTypes
<1>1. ASSUME NEW from \in {"auth", "route", "upstream", "unmap"},
             NEW to \in {"route", "upstream", "unmap", "record"},
             Move(r, from, to), UNCHANGED sent, StoreUnchanged,
             \A x \in Requests \ {r} : answer'[x] = answer[x]
      PROVE  StoreFits'
  BY <1>1, MoveStore DEF StoreUnchanged, Stages, Answering
<1>2. CASE MapKey(r) \/ CallUpstream(r) \/ BackendAnswers(r) \/ UpstreamTimeout(r) \/ Unmap(r)
  BY <1>1, <1>2 DEF MapKey, CallUpstream, BackendAnswers, UpstreamTimeout, Unmap
<1>3. ASSUME NEW a, SubmitEnds(r, a) PROVE StoreFits'
  BY <1>0, <1>1, <1>3 DEF SubmitEnds
<1>4. CASE SubmitAnswered(r) \/ SubmitTimeout(r) \/ SubmitLost(r)
  BY <1>3, <1>4 DEF SubmitAnswered, SubmitTimeout, SubmitLost
<1> QED BY <1>2, <1>4

LEMMA RespondStore ==
  ASSUME IInv, NEW r \in Requests, Respond(r)
  PROVE  StoreFits'
BY MoveStore DEF Respond, StoreUnchanged, Stages, Answering

LEMMA BackendDecidesStore ==
  ASSUME IInv, NEW w \in wire, BackendDecides(w)
  PROVE  StoreFits'
<1>1. UNCHANGED <<pc, sent, answer, clock, sessions, reply, since, before>>
  BY DEF BackendDecides, StoreUnchanged
<1>2. since \in [BindKeys -> SUBSET Requests]
  BY DEF IInv, StoreFits
<1> QED BY <1>1, <1>2, StoreAlone DEF AnsweredStay

(* An audit page's key is a bind key.                                       *)
LEMMA BoundToKey ==
  ASSUME IInv, NEW r \in Requests, pc[r] # "away"
  PROVE  BoundTo(r) \in BindKeys
<1>1. sent[r] \in Sent
  BY SentType DEF IInv
<1>2. AuditIp(r) \in Ips
  BY <1>1 DEF AuditIp, ClientIp, Sent
<1> QED BY <1>1, <1>2 DEF BoundTo, BindKeys, Sent

(* Handlers that neither start an audit nor show its report.                *)
LEMMA FinishMoves ==
  ASSUME IInv, NEW r \in Requests, NEW a, Finish(r, a)
  PROVE  /\ AnsweredStay
         /\ \A x \in Requests : pc[x] = "done" => pc'[x] = "done"
         /\ \A x \in Requests : pc'[x] \in Answering => pc[x] \in Answering
<1>1. /\ pc[r] = "route" /\ pc'[r] = "unmap" /\ UNCHANGED sent
      /\ \A x \in Requests \ {r} : pc'[x] = pc[x] /\ answer'[x] = answer[x]
  BY DEF Finish, Move, IInv, RequestsFit, RequestTypes
<1> QED BY <1>1 DEF AnsweredStay, Answering

LEMMA StartStore ==
  ASSUME IInv, NEW r \in Requests, pc[r] = "route", NEW a, Finish(r, a), StartSession(r)
  PROVE  StoreFits'
<1> DEFINE k == BoundTo(r)
<1>1. /\ sessions' = [j \in Store!Live \cup {k} |->
                         IF j = k THEN Store!NewSession ELSE sessions[j]]
      /\ UNCHANGED <<clock, reply>>
      /\ since' = [since EXCEPT ![k] = {}]
      /\ before' = [before EXCEPT ![k] = {x \in Requests : pc[x] = "done"}]
      /\ Store!Live \subseteq DOMAIN sessions
  BY DEF StartSession, Store!Start, Store!Live
<1>2. k \in BindKeys
  BY BoundToKey
<1>3. Store!NewSession \in Store!Session /\ Store!NewSession.events = <<>>
  <2>1. clock \in Store!Times /\ clock + Ttl \in Nat
    BY DEF IInv, StoreFits, Store!StoreTypeOK, Store!Times
  <2> QED BY <2>1, EmptySeq DEF Store!NewSession, Store!Session
<1> HIDE DEF k
<1>4. Store!StoreTypeOK'
  <2>1. \A j \in Store!Live : j \in BindKeys /\ sessions[j] \in Store!Session
    BY <1>1, SessionTyped DEF IInv
  <2>2. DOMAIN sessions' \subseteq BindKeys /\ sessions' \in [DOMAIN sessions' -> Store!Session]
    BY <1>1, <1>2, <1>3, <2>1
  <2> QED BY <1>1, <2>2 DEF IInv, StoreFits, Store!StoreTypeOK
<1>5. /\ since' \in [BindKeys -> SUBSET Requests]
      /\ before' \in [BindKeys -> SUBSET Requests]
  BY <1>1 DEF IInv, StoreFits
<1>6. \A j \in BindKeys : \A x \in before'[j] : pc'[x] = "done"
  BY <1>1, FinishMoves DEF IInv, StoreFits
<1>7. ASSUME NEW j \in DOMAIN sessions' PROVE SessionFits(j)'
  <2>1. CASE j = k
    <3>1. sessions'[j].events = <<>> /\ since'[j] = {}
      BY <1>1, <1>2, <1>3, <2>1 DEF IInv, StoreFits
    <3> QED BY <3>1 DEF SessionFits, Complete, AllDifferent
  <2>2. CASE j # k
    <3>1. j \in DOMAIN sessions /\ j \in BindKeys /\ sessions'[j] = sessions[j]
      BY <1>1, <1>7, <2>2, SessionTyped DEF IInv
    <3>2. before'[j] = before[j] /\ since'[j] = since[j] /\ since[j] \subseteq Requests
      BY <1>1, <2>2, <3>1 DEF IInv, StoreFits
    <3> QED BY <1>5, <1>7, <3>1, <3>2, FinishMoves, SessionKept DEF IInv
  <2> QED BY <2>1, <2>2
<1> QED BY <1>4, <1>5, <1>6, <1>7 DEF StoreFits

LEMMA ReportStore ==
  ASSUME IInv, NEW r \in Requests, pc[r] = "route", NEW a, Finish(r, a),
         Store!Get(BoundTo(r)), UNCHANGED <<since, before>>
  PROVE  StoreFits'
<1> DEFINE k == BoundTo(r)
<1>1. /\ sessions' = [j \in Store!Live |-> sessions[j]] /\ clock' = clock
      /\ reply' = IF k \in Store!Live
                  THEN [key |-> k, found |-> TRUE, events |-> sessions[k].events,
                        truncated |-> sessions[k].truncated]
                  ELSE Store!NothingFound(k)
      /\ Store!Live \subseteq DOMAIN sessions
  BY DEF Store!Get, Store!Purged, Store!Live
<1>2. reply' \in Store!Reply
  <2>1. k \in BindKeys
    BY BoundToKey
  <2> HIDE DEF k
  <2>2. CASE k \in Store!Live
    <3>1. sessions[k].events \in Seq(Store!Event) /\ sessions[k].truncated \in BOOLEAN
      BY <1>1, <2>2, SessionTyped DEF IInv, Store!Session
    <3> QED BY <1>1, <2>1, <2>2, <3>1 DEF Store!Reply
  <2>3. CASE k \notin Store!Live
    BY <1>1, <2>1, <2>3, EmptySeq DEF Store!Reply, Store!NothingFound
  <2> QED BY <2>2, <2>3
<1>3. clock' \in Store!Times /\ since' \in [BindKeys -> SUBSET Requests]
  BY <1>1 DEF IInv, StoreFits, Store!StoreTypeOK
<1>4. \A j \in BindKeys : \A x \in since'[j] : x \in Requests /\ x \in since[j]
  BY DEF IInv, StoreFits
<1> QED BY <1>1, <1>2, <1>3, <1>4, FinishMoves, StoreKept

LEMMA HandleStore ==
  ASSUME IInv, NEW r \in Requests, Handle(r)
  PROVE  StoreFits'
<1>0. pc[r] = "route"
  BY DEF Handle
<1>1. ASSUME NEW a, Finish(r, a), StoreUnchanged PROVE StoreFits'
  <2>1. since' \in [BindKeys -> SUBSET Requests]
    BY <1>1 DEF IInv, StoreFits, StoreUnchanged
  <2>2. \A j \in BindKeys : \A x \in since'[j] : x \in Requests /\ x \in since[j]
    BY <1>1 DEF IInv, StoreFits, StoreUnchanged
  <2> QED BY <1>1, <2>1, <2>2, FinishMoves, StoreAlone DEF StoreUnchanged
<1>2. CASE HandleFace(r) \/ HandleUnrouted(r) \/ HandleOpen(r) \/ HandleEmpty(r)
  BY <1>1, <1>2 DEF HandleFace, HandleUnrouted, HandleOpen, HandleEmpty
<1>3. CASE HandleStart(r)
  BY <1>0, <1>1, <1>3, StartStore DEF HandleStart
<1>4. CASE HandleReport(r)
  BY <1>0, <1>4, ReportStore DEF HandleReport
<1>5. CASE CallUpstream(r)
  BY <1>5, PlainStore
<1> QED BY <1>2, <1>3, <1>4, <1>5 DEF Handle

LEMMA PassTimeStore ==
  ASSUME IInv, PassTime
  PROVE  StoreFits'
<1>1. UNCHANGED <<pc, sent, answer, sessions, reply, since, before>> /\ clock' \in Store!Times
  BY DEF PassTime, Store!Tick, requestVars
<1>2. /\ sessions' = [k \in DOMAIN sessions |-> sessions[k]]
      /\ reply' \in Store!Reply /\ since' \in [BindKeys -> SUBSET Requests]
  BY <1>1 DEF IInv, StoreFits, Store!StoreTypeOK
<1> QED BY <1>1, <1>2, StoreKept DEF AnsweredStay

-----------------------------------------------------------------------------
(* What recording an event does to a session: it keeps all there is, and    *)
(* what it adds is the event.                                               *)
Grown(s, t, e) ==
  /\ t \in Store!Session
  /\ \A i \in DOMAIN t.events :
       t.events[i] = e \/ (i \in DOMAIN s.events /\ t.events[i] = s.events[i])
  /\ \A i \in DOMAIN s.events : i \in DOMAIN t.events /\ t.events[i] = s.events[i]
  /\ s.truncated => t.truncated

Holds(s, e) == s.truncated \/ \E i \in DOMAIN s.events : s.events[i] = e

AddsOne(s, t) == \A i, j \in DOMAIN t.events \ DOMAIN s.events : i = j

LEMMA LoggedGrows ==
  ASSUME NEW s \in Store!Session, NEW e \in Store!Event
  PROVE  Grown(s, Store!Logged(s, e), e) /\ Holds(Store!Logged(s, e), e)
         /\ AddsOne(s, Store!Logged(s, e))
<1> DEFINE t == Store!Logged(s, e)
<1>1. s.events \in Seq(Store!Event) /\ s.truncated \in BOOLEAN
  BY DEF Store!Session
<1>2. CASE Len(s.events) >= MaxEvents
  <2>1. t = [s EXCEPT !.truncated = TRUE]
    BY <1>2 DEF Store!Logged
  <2>2. t \in Store!Session /\ t.truncated = TRUE /\ t.events = s.events
    BY <2>1 DEF Store!Session
  <2> QED BY <2>2 DEF Grown, Holds, AddsOne
<1>3. CASE ~(Len(s.events) >= MaxEvents)
  <2>1. t = [s EXCEPT !.events = Append(s.events, e)]
    BY <1>3 DEF Store!Logged
  <2>2. Append(s.events, e) \in Seq(Store!Event)
    BY <1>1, AppendProperties
  <2>3. /\ t \in Store!Session /\ t.truncated = s.truncated
        /\ t.events = Append(s.events, e)
    BY <2>1, <2>2 DEF Store!Session
  <2>4. /\ DOMAIN s.events = 1 .. Len(s.events) /\ Len(s.events) \in Nat
        /\ DOMAIN t.events = 1 .. Len(s.events) + 1
        /\ \A i \in 1 .. Len(s.events) : t.events[i] = s.events[i]
        /\ t.events[Len(s.events) + 1] = e
    BY <1>1, <2>3, AppendProperties
  <2> HIDE DEF t
  <2>5. Grown(s, t, e)
    BY <2>3, <2>4 DEF Grown
  <2>6. Holds(t, e)
    BY <2>4 DEF Holds
  <2>7. AddsOne(s, t)
    BY <2>4 DEF AddsOne
  <2> QED BY <2>5, <2>6, <2>7 DEF t
<1> QED BY <1>2, <1>3

(* What recording does to the dict: the sessions alive remain, and those of *)
(* the request's keys have grown by the event - once, if its key is not the *)
(* client's address.                                                        *)
LEMMA RecordEffect ==
  ASSUME IInv, NEW ip \in BindKeys, NEW key \in BindKeys \cup {NoKey}, NEW p \in Payloads,
         Store!RecordForKeys(ip, key, p), NEW e, e = [what |-> p, ts |-> clock]
  PROVE  /\ DOMAIN sessions' = Store!Live /\ Store!Live \subseteq DOMAIN sessions
         /\ sessions' \in [Store!Live -> Store!Session]
         /\ \A k \in Store!Live :
              /\ k \notin {ip, key} => sessions'[k] = sessions[k]
              /\ k \in {ip, key} => /\ Grown(sessions[k], sessions'[k], e)
                                    /\ Holds(sessions'[k], e)
                                    /\ ip # key => AddsOne(sessions[k], sessions'[k])
<1>1. e \in Store!Event
  BY DEF IInv, StoreFits, Store!StoreTypeOK, Store!Event
<1> DEFINE byIp == Store!RecordFor(Store!Purged, ip, e)
           once(k) == Store!Logged(sessions[k], e)
<1>2. Store!Live \subseteq DOMAIN sessions
  BY DEF Store!Live
<1>3. byIp = [k \in Store!Live |-> IF k = ip THEN once(k) ELSE sessions[k]]
  BY DEF Store!RecordFor, Store!Purged
<1>4. sessions' = IF key = NoKey THEN byIp ELSE Store!RecordFor(byIp, key, e)
  BY DEF Store!RecordForKeys
<1>5. Store!RecordFor(byIp, key, e) =
        [k \in Store!Live |-> IF k = key THEN Store!Logged(byIp[k], e) ELSE byIp[k]]
  <2> HIDE DEF byIp, once
  <2> QED BY <1>3 DEF Store!RecordFor
<1>6. \A k \in Store!Live : k # NoKey /\ sessions[k] \in Store!Session
  BY <1>2, SessionTyped DEF IInv, BindKeys
<1> HIDE DEF byIp
<1>7. /\ DOMAIN sessions' = Store!Live
      /\ sessions' = [k \in Store!Live |-> sessions'[k]]
      /\ \A k \in Store!Live : sessions'[k] =
           IF k # ip /\ k # key THEN sessions[k]
           ELSE IF k = ip /\ k = key THEN Store!Logged(once(k), e) ELSE once(k)
  <2> HIDE DEF once
  <2>1. CASE key = NoKey
    BY <1>3, <1>4, <1>6, <2>1
  <2>2. CASE key # NoKey
    <3>1. sessions' =
            [k \in Store!Live |->
               IF k = key THEN Store!Logged(IF k = ip THEN once(k) ELSE sessions[k], e)
               ELSE IF k = ip THEN once(k) ELSE sessions[k]]
      BY <1>3, <1>4, <1>5, <2>2
    <3> QED BY <3>1 DEF once
  <2> QED BY <2>1, <2>2
<1>8. ASSUME NEW k \in Store!Live
      PROVE  /\ sessions'[k] \in Store!Session
             /\ k \notin {ip, key} => sessions'[k] = sessions[k]
             /\ k \in {ip, key} => /\ Grown(sessions[k], sessions'[k], e)
                                   /\ Holds(sessions'[k], e)
                                   /\ ip # key => AddsOne(sessions[k], sessions'[k])
  <2> DEFINE s == sessions[k]
             t == Store!Logged(s, e)
             u == Store!Logged(t, e)
  <2>1. s \in Store!Session
    BY <1>6, <1>8
  <2>2. Grown(s, t, e) /\ Holds(t, e) /\ AddsOne(s, t)
    BY <1>1, <2>1, LoggedGrows
  <2>3. t \in Store!Session
    BY <2>2 DEF Grown
  <2>4. Grown(t, u, e) /\ Holds(u, e)
    BY <1>1, <2>3, LoggedGrows
  <2> HIDE DEF s, t, u
  <2>5. Grown(s, u, e)
    BY <2>2, <2>4 DEF Grown
  <2>6. sessions'[k] = IF k # ip /\ k # key THEN s ELSE IF k = ip /\ k = key THEN u ELSE t
    BY <1>7 DEF s, t, u
  <2>7. CASE k # ip /\ k # key
    BY <2>1, <2>6, <2>7 DEF s
  <2>8. CASE k = ip /\ k = key
    <3>1. u \in Store!Session
      BY <2>5 DEF Grown
    <3> QED BY <2>4, <2>5, <2>6, <2>8, <3>1 DEF s
  <2>9. CASE (k = ip) # (k = key)
    BY <2>2, <2>3, <2>6, <2>9 DEF s
  <2> QED BY <2>7, <2>8, <2>9
<1> QED BY <1>2, <1>7, <1>8

LEMMA RecordStore ==
  ASSUME IInv, NEW r \in Requests, Record(r)
  PROVE  StoreFits'
<1>0. /\ Move(r, "record", "leaving") /\ UNCHANGED <<sent, answer, since, before>>
      /\ pc[r] = "record" /\ pc'[r] = "leaving" /\ sent[r] \in Sent
      /\ \A x \in Requests \ {r} : pc'[x] = pc[x]
  BY SentType DEF Record, Move, IInv, RequestsFit, RequestTypes
<1>1. CASE ~(AuditEnabled /\ ~Skipped(sent[r]) /\ ~Raised(r))
  <2>1. UNCHANGED <<clock, sessions, reply>>
    BY <1>1 DEF Record
  <2>2. ~Auditable(r)' \/ Raised(r)'
    BY <1>0, <1>1 DEF Auditable, Skipped, Raised, Implemented
  <2> QED BY <1>0, <2>1, <2>2, MoveStore DEF Stages
<1>2. CASE AuditEnabled /\ ~Skipped(sent[r]) /\ ~Raised(r)
  <2> DEFINE ip == AuditIp(r)
             key == sent[r].key
             p == [req |-> r, label |-> LabelOf(sent[r], answer[r].status)]
             e == [what |-> p, ts |-> clock]
  <2>1. Store!RecordForKeys(ip, key, p)
    BY <1>2 DEF Record
  <2>2. /\ ip \in Ips /\ key \in PublicKeys \cup {NoKey}
        /\ ip \in BindKeys /\ key \in BindKeys \cup {NoKey}
    BY <1>0 DEF AuditIp, ClientIp, Sent, BindKeys
  <2>3. p \in Payloads
    BY DEF Payloads, Labels, LabelOf
  <2>4. e.what = p /\ p.req = r /\ p.label = LabelOf(sent[r], answer[r].status)
    OBVIOUS
  <2>5. KeysOf(r) = {ip, key} \ {NoKey}
    BY DEF KeysOf
  <2> HIDE DEF ip, key, p
  <2>6. /\ DOMAIN sessions' = Store!Live /\ Store!Live \subseteq DOMAIN sessions
        /\ sessions' \in [Store!Live -> Store!Session]
        /\ \A k \in Store!Live :
             /\ k \notin {ip, key} => sessions'[k] = sessions[k]
             /\ k \in {ip, key} => /\ Grown(sessions[k], sessions'[k], e)
                                   /\ Holds(sessions'[k], e)
                                   /\ ip # key => AddsOne(sessions[k], sessions'[k])
    BY <2>1, <2>2, <2>3, RecordEffect
  <2> HIDE DEF e
  <2>7. Store!StoreTypeOK'
    <3>1. UNCHANGED <<clock, reply>>
      BY <2>1 DEF Store!RecordForKeys
    <3>2. DOMAIN sessions \subseteq BindKeys
      BY DEF IInv, StoreFits, Store!StoreTypeOK
    <3> QED BY <2>6, <3>1, <3>2 DEF IInv, StoreFits, Store!StoreTypeOK
  <2>8. AnsweredStay
    BY <1>0 DEF AnsweredStay, Answering
  <2>9. /\ since' \in [BindKeys -> SUBSET Requests]
        /\ before' \in [BindKeys -> SUBSET Requests]
        /\ \A k \in BindKeys : \A x \in before'[k] : pc'[x] = "done"
    BY <1>0 DEF IInv, StoreFits
  <2>10. ASSUME NEW k \in Store!Live, k \notin {ip, key} PROVE SessionFits(k)'
    <3>1. k \in DOMAIN sessions /\ k \in BindKeys /\ k \in DOMAIN sessions'
      BY <2>6, SessionTyped DEF IInv
    <3>2. ASSUME NEW x \in since[k], x # r, pc'[x] \in Answering PROVE pc[x] \in Answering
      BY <1>0, <2>9, <3>1, <3>2
    <3>3. k \notin KeysOf(r)
      BY <2>5, <2>10
    <3>4. SessionFits(k) /\ sessions'[k] = sessions[k]
      BY <2>6, <2>10, <3>1 DEF IInv, StoreFits
    <3>5. ASSUME NEW i \in DOMAIN sessions[k].events
          PROVE  EntryFits(k, sessions[k].events[i].what)'
      <4>1. EntryFits(k, sessions[k].events[i].what)
        BY <3>4 DEF SessionFits
      <4>2. sessions[k].events[i].what.req \in Requests
        BY <3>1, SessionTyped DEF Payloads, IInv
      <4>3. PICK entry : entry = sessions[k].events[i].what
        OBVIOUS
      <4>4. EntryFits(k, entry)'
        BY <1>0, <2>8, <3>1, <4>1, <4>2, <4>3, EntryStays
      <4>5. sessions'[k].events[i].what = entry
        BY <3>4, <4>3
      <4> QED BY <4>4, <4>5 DEF EntryFits, KeysOf, AuditIp, Raised, LabelOf
    <3>6. Complete(k)'
      <4> SUFFICES ASSUME NEW x \in since[k], pc'[x] \in Answering, Auditable(x),
                          k \in KeysOf(x), ~Raised(x)
                   PROVE  InReport(x, k)'
        BY <1>0 DEF Complete, Auditable, KeysOf, AuditIp, Raised
      <4>1. InReport(x, k)
        BY <3>2, <3>3, <3>4 DEF SessionFits, Complete
      <4> QED BY <3>4, <4>1 DEF InReport, Recorded, Entries
    <3> QED BY <3>4, <3>5, <3>6 DEF SessionFits, AllDifferent
  <2>11. ASSUME NEW k \in Store!Live, k \in {ip, key} PROVE SessionFits(k)'
    <3> DEFINE s == sessions[k]
               t == sessions'[k]
    <3>1. /\ k \in DOMAIN sessions /\ k \in BindKeys /\ k # NoKey
          /\ SessionFits(k)
      BY <2>6, SessionTyped DEF IInv, StoreFits, BindKeys
    <3>2. Grown(s, t, e) /\ Holds(t, e) /\ (ip # key => AddsOne(s, t))
      BY <2>6, <2>11
    <3>3. \A i \in DOMAIN s.events : /\ EntryFits(k, s.events[i].what)
                                     /\ s.events[i].what.req \in Requests \ {r}
      <4> SUFFICES ASSUME NEW i \in DOMAIN s.events
                   PROVE  /\ EntryFits(k, s.events[i].what)
                          /\ s.events[i].what.req \in Requests \ {r}
        OBVIOUS
      <4>1. EntryFits(k, s.events[i].what) /\ s.events[i].what.req \in Requests
        BY <3>1, SessionTyped DEF SessionFits, Payloads, IInv
      <4> QED BY <1>0, <4>1 DEF EntryFits, Answering
    <3>4. ASSUME NEW entry, entry = p PROVE EntryFits(k, entry)'
      <4>1. k \in KeysOf(r)'
        BY <1>0, <2>5, <2>11, <3>1 DEF KeysOf, AuditIp
      <4>2. answer[r].status # "denied"
        BY <1>0 DEF IInv, RequestsFit, Placed
      <4>3. r \notin before'[k]
        BY <1>0, <3>1 DEF IInv, StoreFits
      <4>4. entry.req = r /\ entry.label = LabelOf(sent'[r], answer'[r].status)
        BY <1>0, <2>4, <3>4
      <4>5. pc'[r] \in Answering /\ ~Raised(r)' /\ answer'[r].status # "denied"
        BY <1>0, <1>2, <4>2 DEF Raised, Answering
      <4> QED BY <4>1, <4>3, <4>4, <4>5 DEF EntryFits
    <3>5. ASSUME NEW i \in DOMAIN sessions'[k].events
          PROVE  EntryFits(k, sessions[k].events[i].what)'
      <4>1. PICK entry : entry = t.events[i].what
        OBVIOUS
      <4>2. ASSUME t.events[i] = e PROVE EntryFits(k, entry)'
        BY <2>4, <3>4, <4>1, <4>2
      <4>3. ASSUME i \in DOMAIN s.events, t.events[i] = s.events[i]
            PROVE  EntryFits(k, entry)'
        <5>1. EntryFits(k, entry) /\ entry.req \in Requests
          BY <3>3, <4>1, <4>3
        <5> QED BY <1>0, <2>8, <3>1, <5>1, EntryStays
      <4>4. EntryFits(k, entry)'
        BY <3>2, <4>2, <4>3 DEF Grown
      <4> QED BY <4>1, <4>4 DEF EntryFits, KeysOf, AuditIp, Raised, LabelOf
    <3>6. (Ips \cap PublicKeys = {} => AllDifferent(sessions[k]))'
      <4> SUFFICES ASSUME Ips \cap PublicKeys = {} PROVE AllDifferent(t)
        OBVIOUS
      <4>1. ip # key /\ AllDifferent(s)
        BY <2>2, <3>1 DEF SessionFits
      <4>2. \A i \in DOMAIN t.events \ DOMAIN s.events : t.events[i].what.req = r
        BY <2>4, <3>2 DEF Grown
      <4>3. \A i \in DOMAIN s.events : /\ i \in DOMAIN t.events /\ t.events[i] = s.events[i]
                                       /\ t.events[i].what.req # r
        BY <3>2, <3>3 DEF Grown
      <4> QED BY <3>2, <4>1, <4>2, <4>3 DEF AllDifferent, AddsOne
    <3>7. Complete(k)'
      <4> SUFFICES ASSUME NEW x \in since[k], pc'[x] \in Answering, Auditable(x),
                          k \in KeysOf(x), ~Raised(x)
                   PROVE  InReport(x, k)'
        BY <1>0 DEF Complete, Auditable, KeysOf, AuditIp, Raised
      <4>1. CASE x = r
        BY <2>4, <3>2, <4>1 DEF Holds, InReport, Recorded, Entries
      <4>2. CASE x # r
        <5>1. pc[x] \in Answering
          BY <1>0, <2>9, <3>1, <4>2
        <5>2. InReport(x, k)
          BY <3>1, <5>1 DEF SessionFits, Complete
        <5>3. CASE s.truncated
          BY <3>2, <5>3 DEF Grown, InReport
        <5>4. CASE x \in Recorded(k)
          <6>1. PICK i \in DOMAIN s.events : s.events[i].what.req = x
            BY <5>4 DEF Recorded, Entries
          <6>2. i \in DOMAIN t.events /\ t.events[i].what.req = x
            BY <3>2, <6>1 DEF Grown
          <6> QED BY <6>2 DEF InReport, Recorded, Entries
        <5> QED BY <5>2, <5>3, <5>4 DEF InReport
      <4> QED BY <4>1, <4>2
    <3> QED BY <3>5, <3>6, <3>7 DEF SessionFits, AllDifferent
  <2> QED BY <2>6, <2>7, <2>9, <2>10, <2>11 DEF StoreFits
<1> QED BY <1>1, <1>2

LEMMA NextIInv == IInv /\ [Next]_vars => IInv'
<1> SUFFICES ASSUME IInv, [Next]_vars PROVE StoreFits'
  BY NextFits DEF IInv
<1>1. CASE UNCHANGED vars
  <2>1. since \in [BindKeys -> SUBSET Requests]
    BY DEF IInv, StoreFits
  <2> QED BY <1>1, <2>1, StoreAlone DEF vars, AnsweredStay
<1>2. CASE \E r \in Requests, q \in Traffic : Arrive(r, q)
  BY <1>2, ArriveStore
<1>3. ASSUME NEW r \in Requests,
             Step(r) \/ BackendAnswers(r) \/ SubmitAnswered(r) \/ SubmitLost(r)
      PROVE  StoreFits'
  BY <1>3, AdmitStore, PlainStore, HandleStore, RecordStore, RespondStore DEF Step
<1>4. CASE \E w \in wire : BackendDecides(w)
  BY <1>4, BackendDecidesStore
<1> QED BY <1>1, <1>2, <1>3, <1>4, PassTimeStore DEF Next

LEMMA Invariance == Spec => []IInv
<1>1. Init => IInv
  BY InitRequestsFit, InitStoreFits DEF IInv
<1> QED BY <1>1, NextIInv, PTL DEF Spec

(* Every reachable state is well typed.                                     *)
THEOREM TypeCorrect == Spec => []TypeOK
<1>1. IInv => TypeOK
  BY DEF IInv, RequestsFit, RequestTypes, StoreFits, TypeOK, ContextType, AnswerType
<1> QED BY Invariance, <1>1, PTL

(* An upstream call carries the backend key of its own client, however the  *)
(* requests interleave and whichever keys are mapped (auth.py).             *)
THEOREM UpstreamKeysAreOwn == Spec => []OwnKeyUpstream
<1>1. IInv => OwnKeyUpstream
  <2> SUFFICES ASSUME IInv, NEW w \in wire PROVE w.key = BackendKeyOf(sent[w.req].key)
    BY DEF OwnKeyUpstream
  <2>1. w.req \in Requests /\ w \in CallsOf(w.req)
    BY DEF IInv, RequestsFit, RequestTypes, Calls, CallsOf
  <2> QED BY <2>1 DEF IInv, RequestsFit, CallsFit
<1> QED BY Invariance, <1>1, PTL

(* A request the access filter denies makes no upstream call and is in no   *)
(* report, whatever the networks, the mode and the numbers of trusted       *)
(* proxies (AccessMiddleware).                                              *)
THEOREM DenialsLeaveNoTrace == Spec => []DeniedLeavesNoTrace
<1>1. IInv => DeniedLeavesNoTrace
  <2> SUFFICES ASSUME IInv, NEW r \in Requests, answer[r].status = "denied"
               PROVE  /\ \A w \in wire : w.req # r
                      /\ \A k \in DOMAIN sessions : r \notin Recorded(k)
    BY DEF DeniedLeavesNoTrace
  <2>1. CallsOf(r) = {}
    BY DEF IInv, RequestsFit, CallsFit
  <2>2. ASSUME NEW k \in DOMAIN sessions PROVE r \notin Recorded(k)
    BY <2>2 DEF IInv, StoreFits, SessionFits, EntryFits, Recorded, Entries
  <2> QED BY <2>1, <2>2 DEF CallsOf
<1> QED BY Invariance, <1>1, PTL

(* What a submit answers is so, however the backend's decision and the      *)
(* timeout race (tx_submit, submittx, HttpProvider.request).                *)
THEOREM SubmitsAreTrue == Spec => []SubmitAnswerIsTrue
<1>1. IInv => SubmitAnswerIsTrue
  BY DEF IInv, RequestsFit, RequestTypes, CallsFit, SubmitAnswerIsTrue
<1> QED BY Invariance, <1>1, PTL

(* What a report shows is true, for every cap, lifetime and clock, as long  *)
(* as no API key reads like a client's address.                             *)
THEOREM ReportsAreSound ==
  ASSUME Ips \cap PublicKeys = {}
  PROVE  Spec => []ReportSound
<1>1. IInv => ReportSound
  <2> SUFFICES ASSUME IInv, NEW k \in DOMAIN sessions
               PROVE  /\ \A entry \in Entries(k) :
                           /\ k \in KeysOf(entry.req)
                           /\ Admitted(sent[entry.req])
                           /\ pc[entry.req] \in {"leaving", "done"}
                           /\ ~Raised(entry.req)
                           /\ entry.req \notin before[k]
                           /\ entry.label = LabelOf(sent[entry.req], answer[entry.req].status)
                      /\ AllDifferent(sessions[k])
    BY DEF ReportSound, AllDifferent
  <2>1. SessionFits(k)
    BY DEF IInv, StoreFits
  <2>2. ASSUME NEW entry \in Entries(k)
        PROVE  EntryFits(k, entry) /\ Admitted(sent[entry.req])
    <3>1. EntryFits(k, entry) /\ entry.req \in Requests
      BY <2>1, SessionTyped DEF SessionFits, Entries, Payloads, IInv
    <3> QED BY <3>1 DEF EntryFits, Answering, IInv, RequestsFit, Placed
  <2> QED BY <2>1, <2>2 DEF SessionFits, EntryFits, Answering
<1> QED BY Invariance, <1>1, PTL

(* Every matching request sent since the start that got an answer other     *)
(* than an unhandled error is in the report, or the report says that some   *)
(* were dropped, also when the wall clock is set back.                      *)
THEOREM ReportsAreComplete == Spec => []AnsweredIsReported
<1>1. IInv => AnsweredIsReported
  <2> SUFFICES ASSUME IInv, NEW k \in Store!Live, NEW r \in since[k], Answered(r),
                      Auditable(r), k \in KeysOf(r), ~Raised(r)
               PROVE  InReport(r, k)
    BY DEF AnsweredIsReported
  <2>1. Complete(k)
    BY DEF IInv, StoreFits, SessionFits, Store!Live
  <2> QED BY <2>1 DEF Complete, Answered, Answering
<1> QED BY Invariance, <1>1, PTL

-----------------------------------------------------------------------------
(* The pipeline as the store sees it.  The middleware and the audit pages   *)
(* are its only callers, and what they call it with is well typed.          *)
LEMMA HandlerUsesStore ==
  ASSUME IInv, NEW r \in Requests, Handle(r)
  PROVE  [Store!StoreNext]_(Store!storeVars)
<1>1. CASE HandleStart(r)
  <2>1. BoundTo(r) \in BindKeys
    BY BoundToKey DEF IInv, Handle
  <2> QED
    BY <1>1, <2>1
       DEF HandleStart, StartSession, StoreUnchanged, Store!StoreNext, Store!storeVars
<1>2. CASE HandleReport(r)
  <2>1. BoundTo(r) \in BindKeys
    BY BoundToKey DEF IInv, Handle
  <2> QED BY <1>2, <2>1 DEF HandleReport, Store!StoreNext
<1>3. CASE HandleFace(r) \/ HandleUnrouted(r) \/ HandleOpen(r) \/ HandleEmpty(r)
           \/ CallUpstream(r)
  BY <1>3
     DEF HandleFace, HandleUnrouted, HandleOpen, HandleEmpty, CallUpstream,
         StoreUnchanged, Store!storeVars
<1> QED BY <1>1, <1>2, <1>3 DEF Handle

LEMMA RecordUsesStore ==
  ASSUME IInv, NEW r \in Requests, Record(r)
  PROVE  [Store!StoreNext]_(Store!storeVars)
<1> DEFINE p == [req |-> r, label |-> LabelOf(sent[r], answer[r].status)]
<1>1. sent[r] \in Sent
  BY SentType DEF IInv, Record, Move
<1>2. /\ AuditIp(r) \in BindKeys /\ sent[r].key \in BindKeys \cup {NoKey}
      /\ p \in Payloads
  BY <1>1 DEF AuditIp, ClientIp, Sent, BindKeys, Payloads, LabelOf, Labels
<1> HIDE DEF p
<1>3. Store!RecordForKeys(AuditIp(r), sent[r].key, p) \/ UNCHANGED Store!storeVars
  BY DEF Record, p, Store!storeVars
<1> QED BY <1>2, <1>3 DEF Store!StoreNext

(* The pipeline does nothing with the sessions but what AuditStore's own    *)
(* methods do, each under the store's lock, with keys and events the store  *)
(* is made for (AuditMiddleware.dispatch, audit_start_response,             *)
(* audit_report_response), so that what holds of the store in any use holds *)
(* in Janus.                                                                *)
THEOREM PipelineUsesStore == Spec => Store!StoreSpec
<1>1. Init => Store!StoreInit
  BY DEF Init
<1>2. IInv /\ [Next]_vars => [Store!StoreNext]_(Store!storeVars)
  <2> SUFFICES ASSUME IInv, [Next]_vars
               PROVE  [Store!StoreNext]_(Store!storeVars)
    OBVIOUS
  <2>1. ASSUME NEW r \in Requests, Step(r)
        PROVE  [Store!StoreNext]_(Store!storeVars)
    <3>1. CASE Handle(r)
      BY <3>1, HandlerUsesStore
    <3>2. CASE Record(r)
      BY <3>2, RecordUsesStore
    <3>3. CASE ~Handle(r) /\ ~Record(r)
      BY <2>1, <3>3
         DEF Step, Admit, MapKey, UpstreamTimeout, SubmitTimeout, SubmitEnds, Unmap,
             Respond, StoreUnchanged, Store!storeVars
    <3> QED BY <3>1, <3>2, <3>3
  <2>2. CASE \E r \in Requests, q \in Traffic : Arrive(r, q)
    BY <2>2 DEF Arrive, Store!storeVars
  <2>3. ASSUME NEW r \in Requests, BackendAnswers(r) \/ SubmitAnswered(r) \/ SubmitLost(r)
        PROVE  UNCHANGED Store!storeVars
    BY <2>3
       DEF BackendAnswers, SubmitAnswered, SubmitLost, SubmitEnds, StoreUnchanged,
           Store!storeVars
  <2>4. CASE \E w \in wire : BackendDecides(w)
    BY <2>4 DEF BackendDecides, StoreUnchanged, Store!storeVars
  <2>5. CASE PassTime
    BY <2>5 DEF PassTime, Store!StoreNext
  <2>6. CASE UNCHANGED vars
    BY <2>6 DEF vars, Store!storeVars
  <2> QED BY <2>1, <2>2, <2>3, <2>4, <2>5, <2>6 DEF Next
<1> QED BY Invariance, <1>1, <1>2, PTL DEF Spec, Store!StoreSpec
=============================================================================
