---------------------------- MODULE RouterProofs ----------------------------
(***************************************************************************)
(* Theorems about Router, for any messages and bodies, any methods, any     *)
(* batch limit and any number of registrations.                             *)
(***************************************************************************)
EXTENDS Router, TLAPS

\* Of the elements es of a message, those before n that have a handler in table.
Due(es, table, n) == {j \in 1..(n - 1) : es[j].valid /\ table[es[j].method] # 0}

\* And those that want a response.
Calls(es, n) == {i \in 1..(n - 1) : WantsResponse(es[i])}

\* r says that the handlers of the due elements have run, and no others.
RanTo(es, table, n, r) ==
    /\ Enumerates([j \in DOMAIN r |-> r[j][1]], Due(es, table, n))
    /\ \A j \in DOMAIN r : r[j][2] = table[es[r[j][1]].method]

\* What an element e at i is owed; Owed(m, i) as a function of the data of m.
OwedFor(e, table, r, i) ==
    CASE ~e.valid -> {Response(NullId, "invalid_request")}
      [] e.valid /\ e.id = NoId -> {}
      [] OTHER -> IF table[e.method] # 0
                  THEN {Response(e.id, x) : x \in
                          {y \in Results : <<i, table[e.method], y>> \in Range(r)}}
                  ELSE {Response(e.id, "method_not_found")}

\* rs answers the elements before n.
AnsweredTo(es, table, n, r, rs) ==
    \E order \in Seq(Nat) :
        /\ Len(order) = Len(rs)
        /\ Enumerates(order, Calls(es, n))
        /\ \A k \in DOMAIN rs : {rs[k]} = OwedFor(es[order[k]], table, r, order[k])

\* Copy on write: nobody registers in the table of a clone that is in use.
TableKept(m) == at[m] \in Live => heap[holds[m]] = promised[m]

\* Nothing is dispatched before the body has been accepted.
OnlyAccepted(m) ==
    /\ at[m] \in {"unborn", "new"} => next[m] = 1 /\ responses[m] = <<>> /\ ran[m] = <<>>
    /\ at[m] \in {"element", "handler", "dropped"} => Accepted(body[m])

\* The elements before next have been dealt with.
Ran(m) == RanTo(body[m].elements, promised[m], next[m], ran[m])
Answered(m) == AnsweredTo(body[m].elements, promised[m], next[m], ran[m], responses[m])

\* What has been returned: the responses, or the one that rejects the body.
Returned(m) ==
    at[m] = "done" =>
        IF Accepted(body[m])
        THEN /\ next[m] = Len(body[m].elements) + 1
             /\ output[m] = IF responses[m] = <<>> THEN Output("empty", <<>>)
                            ELSE Output(body[m].kind, responses[m])
        ELSE /\ next[m] = 1 /\ responses[m] = <<>> /\ ran[m] = <<>>
             /\ Oversized(body[m]) => output[m] = Single(NullId, "invalid_request")

\* A handler is awaited for an element that has one.
AtHandler(m) ==
    at[m] = "handler" => Element(m).valid /\ promised[m][Element(m).method] # 0

Progress(m) == /\ TableKept(m) /\ OnlyAccepted(m) /\ AtHandler(m)
               /\ Ran(m) /\ Answered(m) /\ Returned(m)

RouterInv == TypeOK /\ \A m \in Messages : Progress(m)

-----------------------------------------------------------------------------
(* Sequences and what they enumerate.                                        *)

\* Sequences over a set are sequences over every larger set.
LEMMA SeqOfMore == \A S, T : S \subseteq T => Seq(S) \subseteq Seq(T)
OBVIOUS

\* What is in a sequence after one more member.
LEMMA RangeOfAppend ==
    ASSUME NEW T, NEW s \in Seq(T), NEW x \in T
    PROVE  Range(Append(s, x)) = Range(s) \cup {x}
<1> DEFINE n == Len(s)
           t == Append(s, x)
<1>1. /\ n \in Nat /\ DOMAIN s = 1..n /\ DOMAIN t = 1..(n + 1)
      /\ t[n + 1] = x /\ \A k \in 1..n : t[k] = s[k]
  OBVIOUS
<1> HIDE DEF n, t
<1>2. n + 1 \in 1..(n + 1) /\ 1..n \subseteq 1..(n + 1)
      /\ \A k \in 1..(n + 1) : k = n + 1 \/ k \in 1..n
  BY <1>1
<1>3. Range(t) = {t[k] : k \in 1..(n + 1)} /\ Range(s) = {s[k] : k \in 1..n}
  BY <1>1 DEF Range
<1>4. x \in Range(t)
  BY <1>1, <1>2, <1>3
<1>5. ASSUME NEW y \in Range(s) PROVE y \in Range(t)
  <2>1. PICK k \in 1..n : y = s[k]
    BY <1>3
  <2>2. QED
    BY <1>1, <1>2, <1>3, <2>1
<1>6. \A k \in 1..(n + 1) : t[k] \in Range(s) \cup {x}
  BY <1>1, <1>2, <1>3
<1>7. Range(t) \subseteq Range(s) \cup {x}
  BY <1>3, <1>6
<1>8. QED
  BY <1>4, <1>5, <1>7 DEF t

\* Nothing is enumerated by the empty sequence.
LEMMA EnumeratesNothing == Enumerates(<<>>, {})
BY DEF Enumerates, Range

\* One more number, larger than those enumerated so far.
LEMMA EnumeratesOneMore ==
    ASSUME NEW s \in Seq(Nat), NEW S, Enumerates(s, S), NEW x \in Nat, \A y \in S : y < x
    PROVE  Append(s, x) \in Seq(Nat) /\ Enumerates(Append(s, x), S \cup {x})
<1> DEFINE n == Len(s)
           t == Append(s, x)
<1>1. /\ n \in Nat /\ DOMAIN s = 1..n /\ DOMAIN t = 1..(n + 1) /\ t \in Seq(Nat)
      /\ t[n + 1] = x /\ \A k \in 1..n : t[k] = s[k] /\ s[k] \in Nat
  OBVIOUS
<1> HIDE DEF n, t
<1>2. n + 1 \in 1..(n + 1) /\ 1..n \subseteq 1..(n + 1)
      /\ \A k \in 1..(n + 1) : k = n + 1 \/ k \in 1..n
  BY <1>1
<1>3. \A k \in 1..n : s[k] \in S
  BY <1>1 DEF Enumerates, Range
<1>4. Range(t) = S \cup {x}
  BY RangeOfAppend DEF Enumerates, t
<1>5. ASSUME NEW j \in 1..(n + 1), NEW k \in 1..(n + 1), j < k PROVE t[j] < t[k]
  <2>1. j \in 1..n
    BY <1>1, <1>5
  <2>2. CASE k = n + 1
    BY <1>1, <1>3, <2>1, <2>2
  <2>3. CASE k \in 1..n
    BY <1>1, <1>5, <2>1, <2>3 DEF Enumerates
  <2>4. QED
    BY <1>2, <2>2, <2>3
<1>6. QED
  BY <1>1, <1>4, <1>5 DEF Enumerates, t

-----------------------------------------------------------------------------
\* The bodies that a message can have.
LEMMA BodyShape ==
    ASSUME TypeOK, NEW m \in Messages
    PROVE  /\ body[m].elements \in Seq(Elements)
           /\ Len(body[m].elements) \in Nat
           /\ body[m].kind \in {"none", "blank", "not_json", "not_request", "single", "batch"}
           /\ Accepted(body[m]) => body[m].kind \in {"single", "batch"}
           /\ body[m].kind = "single" => /\ Accepted(body[m])
                                         /\ Len(body[m].elements) = 1
                                         /\ body[m].elements[1].valid
<1>1. CASE body[m] = NoBody
  BY <1>1 DEF NoBody, Accepted
<1>2. CASE body[m] \in Bodies[m]
  BY <1>2, RouterAssumption DEF Accepted, Oversized
<1>3. QED
  BY <1>1, <1>2 DEF TypeOK

\* The element that the dispatch of m is at.
LEMMA ElementShape ==
    ASSUME TypeOK, NEW m \in Messages, next[m] <= Len(body[m].elements)
    PROVE  /\ next[m] \in Nat \ {0} /\ next[m] \in DOMAIN body[m].elements
           /\ Element(m) \in Elements
           /\ Element(m).valid \in BOOLEAN /\ Element(m).id \in Ids
           /\ Element(m).method \in Methods
<1>1. body[m].elements \in Seq(Elements) /\ next[m] \in Nat \ {0}
  BY BodyShape DEF TypeOK
<1>2. Element(m) \in Elements
  BY <1>1 DEF Element
<1>3. QED
  BY <1>1, <1>2 DEF Elements

\* A message that nothing has been dispatched of.
LEMMA NothingYet ==
    ASSUME NEW es, NEW table
    PROVE  RanTo(es, table, 1, <<>>) /\ AnsweredTo(es, table, 1, <<>>, <<>>)
<1>1. Due(es, table, 1) = {} /\ Calls(es, 1) = {}
  BY DEF Due, Calls
<1>2. RanTo(es, table, 1, <<>>)
  <2> DEFINE f == [j \in DOMAIN <<>> |-> <<>>[j][1]]
  <2>1. f = <<>>
    OBVIOUS
  <2> HIDE DEF f
  <2>2. Enumerates(f, Due(es, table, 1))
    BY <1>1, <2>1, EnumeratesNothing
  <2>3. QED
    BY <2>2 DEF RanTo, f
<1>3. AnsweredTo(es, table, 1, <<>>, <<>>)
  <2>1. <<>> \in Seq(Nat) /\ Len(<<>>) = Len(<<>>) /\ DOMAIN <<>> = {}
    OBVIOUS
  <2>2. QED
    BY <1>1, <2>1, EnumeratesNothing DEF AnsweredTo
<1>4. QED
  BY <1>2, <1>3

\* At the start there is an empty table and no message.
LEMMA RouterInit == Init => RouterInv
<1> SUFFICES ASSUME Init PROVE RouterInv
  OBVIOUS
<1>1. TypeOK
  <2>1. Empty \in [Methods -> 0..registered] /\ registered \in 0..MaxRegistrations
    BY RouterAssumption DEF Init, Empty
  <2>2. heap \in Seq([Methods -> 0..registered]) /\ Len(heap) = 1
    BY <2>1 DEF Init
  <2>3. Pending \in Outputs /\ <<>> \in Seq(Responses) /\ <<>> \in Seq(Nat \X Nat \X Results)
    BY DEF Pending, Output, Outputs
  <2>4. Len(NoBody.elements) = 0
    BY DEF NoBody
  <2>5. QED
    BY <2>1, <2>2, <2>3, <2>4 DEF Init, TypeOK
<1>2. ASSUME NEW m \in Messages PROVE Progress(m)
  <2>1. at[m] = "unborn" /\ next[m] = 1 /\ responses[m] = <<>> /\ ran[m] = <<>>
    BY DEF Init
  <2>2. QED
    BY <2>1, NothingYet DEF Progress, TableKept, OnlyAccepted, AtHandler, Ran, Answered, Returned, Live
<1>3. QED
  BY <1>1, <1>2 DEF RouterInv

-----------------------------------------------------------------------------
\* Adding a response, or none.
LEMMA OneResponse ==
    ASSUME NEW s \in Seq(Responses), NEW x \in Responses
    PROVE  s \o <<>> = s /\ s \o <<x>> = Append(s, x)
OBVIOUS

\* A registration keeps the types.
LEMMA RegisterTypes ==
    ASSUME TypeOK, NEW name \in Methods, Register(name)
    PROVE  TypeOK'
<1> USE RouterAssumption
<1> DEFINE new == [heap[builder] EXCEPT ![name] = registered']
<1>1. registered' \in 0..MaxRegistrations /\ registered' = registered + 1 /\ registered \in Nat
  BY DEF TypeOK, Register
<1>2. /\ heap \in Seq([Methods -> 0..registered]) /\ builder \in 1..Len(heap)
      /\ Len(heap) \in Nat
  BY DEF TypeOK, Register
<1>3. [Methods -> 0..registered] \subseteq [Methods -> 0..registered']
  BY <1>1
<1>4. new \in [Methods -> 0..registered']
  <2>1. heap[builder] \in [Methods -> 0..registered']
    <3>1. heap[builder] \in [Methods -> 0..registered]
      BY <1>2
    <3>2. QED
      BY <1>3, <3>1
  <2>2. registered' \in 0..registered'
    BY <1>1
  <2>3. QED
    BY <2>1, <2>2
<1>5. heap \in Seq([Methods -> 0..registered'])
  BY <1>2, <1>3, SeqOfMore
<1> HIDE DEF new
<1>6. /\ heap' = IF Shared THEN Append(heap, new) ELSE [heap EXCEPT ![builder] = new]
      /\ builder' = IF heap[builder][name] # 0 THEN 0 ELSE IF Shared THEN Len(heap) + 1 ELSE builder
      /\ UNCHANGED <<holds, promised, body, at, next, responses, output, ran>>
  BY DEF Register, new
<1>7. /\ heap' \in Seq([Methods -> 0..registered'])
      /\ Len(heap') = IF Shared THEN Len(heap) + 1 ELSE Len(heap)
  <2>1. CASE Shared
    BY <1>2, <1>4, <1>5, <1>6, <2>1
  <2>2. CASE ~Shared
    <3>1. heap' = [heap EXCEPT ![builder] = new]
      BY <1>6, <2>2
    <3>2. heap' \in Seq([Methods -> 0..registered']) /\ Len(heap') = Len(heap)
      BY <1>2, <1>4, <1>5, <3>1
    <3>3. QED
      BY <2>2, <3>2
  <2>3. QED
    BY <2>1, <2>2
<1>8. builder' \in 0..Len(heap') /\ 0..Len(heap) \subseteq 0..Len(heap')
  BY <1>2, <1>6, <1>7
<1>9. /\ promised' \in [Messages -> [Methods -> 0..registered']]
      /\ holds' \in [Messages -> 0..Len(heap')]
  BY <1>3, <1>6, <1>8 DEF TypeOK
<1>10. QED
  BY <1>1, <1>6, <1>7, <1>8, <1>9 DEF TypeOK

\* So does an answer to the element that m is at.
LEMMA AnswerTypes ==
    ASSUME TypeOK, NEW m \in Messages, next[m] <= Len(body[m].elements),
           at[m] \in {"element", "handler"},
           UNCHANGED <<tables, body, output>>,
           NEW rs, rs = <<>> \/ (\E x \in Responses : rs = <<x>>), Answer(m, rs),
           \/ ran' = ran
           \/ \E x \in Nat \X Nat \X Results : ran' = [ran EXCEPT ![m] = Append(@, x)]
    PROVE  TypeOK'
<1>1. /\ responses' = [responses EXCEPT ![m] = responses[m] \o rs]
      /\ next' = [next EXCEPT ![m] = next[m] + 1]
      /\ at' = [at EXCEPT ![m] = "element"]
  BY DEF Answer
<1>2. responses[m] \o rs \in Seq(Responses) /\ Len(responses[m] \o rs) <= Len(responses[m]) + 1
  <2>1. responses[m] \in Seq(Responses) /\ Len(responses[m]) \in Nat
    BY DEF TypeOK
  <2>2. CASE rs = <<>>
    BY <2>1, <2>2
  <2>3. ASSUME NEW x \in Responses, rs = <<x>>
        PROVE  /\ responses[m] \o rs \in Seq(Responses)
               /\ Len(responses[m] \o rs) <= Len(responses[m]) + 1
    BY <2>1, <2>3
  <2>4. QED
    BY <2>2, <2>3
<1>3. responses' \in [Messages -> Seq(Responses)] /\ responses'[m] = responses[m] \o rs
  BY <1>1, <1>2 DEF TypeOK
<1>4. /\ next' \in [Messages -> Nat \ {0}] /\ next'[m] = next[m] + 1
      /\ at' \in [Messages -> {"unborn", "new", "element", "handler", "done", "dropped"}]
  BY <1>1 DEF TypeOK
<1>5. ran' \in [Messages -> Seq(Nat \X Nat \X Results)] /\ Len(ran'[m]) <= Len(ran[m]) + 1
  <2>1. CASE ran' = ran
    BY <2>1 DEF TypeOK
  <2>2. ASSUME NEW x \in Nat \X Nat \X Results, ran' = [ran EXCEPT ![m] = Append(@, x)]
        PROVE  /\ ran' \in [Messages -> Seq(Nat \X Nat \X Results)]
               /\ Len(ran'[m]) <= Len(ran[m]) + 1
    <3>1. ran[m] \in Seq(Nat \X Nat \X Results)
      BY DEF TypeOK
    <3>2. Append(ran[m], x) \in Seq(Nat \X Nat \X Results) /\ Len(Append(ran[m], x)) = Len(ran[m]) + 1
          /\ Len(ran[m]) \in Nat
      BY <3>1
    <3>3. QED
      BY <2>2, <3>2 DEF TypeOK
  <2>3. QED
    BY <2>1, <2>2
<1>6. Len(responses'[m]) < next'[m] /\ Len(ran'[m]) < next'[m]
  <2>1. PICK n \in Nat, a \in Nat, b \in Nat, a2 \in Nat, b2 \in Nat :
           /\ n = next[m] /\ a = Len(responses[m]) /\ b = Len(ran[m])
           /\ a2 = Len(responses'[m]) /\ b2 = Len(ran'[m])
    BY <1>3, <1>5 DEF TypeOK
  <2>2. a < n /\ b < n /\ a2 <= a + 1 /\ b2 <= b + 1
    BY <1>2, <1>3, <1>5, <2>1 DEF TypeOK
  <2>3. QED
    BY SMTT(30), <1>4, <2>1, <2>2
<1>7. next'[m] <= Len(body[m].elements) + 1
  <2>1. next[m] \in Nat /\ Len(body[m].elements) \in Nat
    BY BodyShape DEF TypeOK
  <2>2. next[m] + 1 <= Len(body[m].elements) + 1
    BY <2>1
  <2>3. QED
    BY <1>4, <2>2
<1>8. ASSUME NEW q \in Messages
      PROVE  /\ body'[q] \in Bodies[q] \cup {NoBody}
             /\ (holds'[q] = 0) <=> at'[q] = "unborn"
             /\ next'[q] <= Len(body'[q].elements) + 1
             /\ at'[q] = "handler" => next'[q] <= Len(body'[q].elements)
             /\ Len(responses'[q]) < next'[q] /\ Len(ran'[q]) < next'[q]
             /\ (output'[q] = Pending) <=> at'[q] # "done"
  <2>1. CASE q = m
    BY <1>1, <1>6, <1>7, <2>1 DEF TypeOK, tables
  <2>2. CASE q # m
    BY <1>1, <2>2 DEF TypeOK, tables
  <2>3. QED
    BY <2>1, <2>2
<1>9. QED
  BY <1>3, <1>4, <1>5, <1>8 DEF TypeOK, tables

\* Every step keeps the types.
LEMMA RouterTypes ==
    ASSUME TypeOK, [Next]_vars, \A m \in Messages : OnlyAccepted(m)
    PROVE  TypeOK'
<1> USE RouterAssumption
<1>1. ASSUME NEW m \in Messages, Clone(m) PROVE TypeOK'
  <2>1. PICK b \in Bodies[m] : body' = [body EXCEPT ![m] = b]
    BY <1>1 DEF Clone
  <2>2. Len(b.elements) \in Nat
    BY DEF TypeOK
  <2>3. next[m] = 1 /\ heap[builder] \in [Methods -> 0..registered] /\ builder # 0
    BY <1>1 DEF Clone, OnlyAccepted, TypeOK
  <2>4. QED
    BY <1>1, <2>1, <2>2, <2>3 DEF Clone, TypeOK
<1>2. ASSUME NEW m \in Messages, NEW kind, NEW rs \in Seq(Responses),
             kind \in {"empty", "single", "batch"}, at[m] \in {"new", "element"},
             Return(m, Output(kind, rs)), UNCHANGED <<body, next, responses, ran>>
      PROVE  TypeOK'
  <2>1. Output(kind, rs) \in Outputs /\ Output(kind, rs) # Pending
    BY <1>2 DEF Output, Outputs, Pending
  <2>2. QED
    BY <1>2, <2>1 DEF Return, TypeOK, tables
<1>3. ASSUME NEW m \in Messages, RejectBody(m) PROVE TypeOK'
  <2>1. ASSUME NEW what \in {"invalid_request", "parse_error"} PROVE <<Response(NullId, what)>> \in Seq(Responses)
    BY DEF Response, Responses
  <2>2. \E what \in {"invalid_request", "parse_error"} : Return(m, Single(NullId, what))
    BY <1>3 DEF RejectBody
  <2>3. QED
    BY <1>2, <1>3, <2>1, <2>2 DEF RejectBody, Single
<1>4. ASSUME NEW m \in Messages, ReturnOutput(m) PROVE TypeOK'
  <2>1. body[m].kind \in {"single", "batch"}
    BY <1>4, BodyShape DEF ReturnOutput, OnlyAccepted
  <2>2. responses[m] \in Seq(Responses) /\ <<>> \in Seq(Responses)
    BY DEF TypeOK
  <2>3. QED
    BY <1>2, <1>4, <2>1, <2>2 DEF ReturnOutput
<1>5. ASSUME NEW m \in Messages, AcceptBody(m) PROVE TypeOK'
  BY <1>5 DEF AcceptBody, tables, TypeOK
<1>6. ASSUME NEW m \in Messages, RejectElement(m) PROVE TypeOK'
  <2>1. Response(NullId, "invalid_request") \in Responses
    BY DEF Response, Responses
  <2>2. QED
    BY <1>6, <2>1, AnswerTypes DEF RejectElement
<1>7. ASSUME NEW m \in Messages, UnknownMethod(m) PROVE TypeOK'
  <2>1. Response(Element(m).id, "method_not_found") \in Responses
    BY <1>7, ElementShape DEF UnknownMethod, Response, Responses
  <2>2. QED
    BY <1>7, <2>1, AnswerTypes DEF UnknownMethod
<1>8. ASSUME NEW m \in Messages, CallHandler(m) PROVE TypeOK'
  BY <1>8 DEF CallHandler, tables, TypeOK
<1>9. ASSUME NEW m \in Messages, NEW result \in Results, HandlerReturns(m, result) PROVE TypeOK'
  <2>1. next[m] <= Len(body[m].elements) /\ at[m] = "handler"
    BY <1>9 DEF TypeOK, HandlerReturns
  <2>2. Response(Element(m).id, result) \in Responses
    BY <2>1, ElementShape DEF Response, Responses
  <2>3. Handler(m) \in Nat
    <3>1. holds[m] \in 1..Len(heap) /\ Element(m).method \in Methods
      BY <2>1, ElementShape DEF TypeOK
    <3>2. heap[holds[m]] \in [Methods -> 0..registered]
      BY <3>1 DEF TypeOK
    <3>3. QED
      BY <3>1, <3>2 DEF Handler
  <2>4. <<next[m], Handler(m), result>> \in Nat \X Nat \X Results
    BY <2>3 DEF TypeOK
  <2>5. QED
    BY <1>9, <2>1, <2>2, <2>4, AnswerTypes DEF HandlerReturns
<1>10. ASSUME NEW m \in Messages, DropFuture(m) PROVE TypeOK'
  BY <1>10 DEF DropFuture, tables, TypeOK
<1>11. CASE UNCHANGED vars
  BY <1>11 DEF vars, tables, TypeOK
<1>12. QED
  BY <1>1, <1>3, <1>4, <1>5, <1>6, <1>7, <1>8, <1>9, <1>10, <1>11, RegisterTypes
     DEF Next, Dispatch, Rest

-----------------------------------------------------------------------------
(* One more element dealt with.                                             *)

Runs == Nat \X Nat \X Results

\* An element without a handler.
LEMMA PassOver ==
    ASSUME NEW es, NEW table, NEW n \in Nat \ {0}, NEW r, RanTo(es, table, n, r),
           ~(es[n].valid /\ table[es[n].method] # 0)
    PROVE  RanTo(es, table, n + 1, r)
<1>1. Due(es, table, n + 1) = Due(es, table, n)
  <2>1. \A j : j \in 1..((n + 1) - 1) <=> j \in 1..(n - 1) \/ j = n
    OBVIOUS
  <2>2. QED
    BY <2>1 DEF Due
<1>2. QED
  BY <1>1 DEF RanTo

\* An element whose handler has run.
LEMMA RunOne ==
    ASSUME NEW es, NEW table, NEW n \in Nat \ {0}, NEW r \in Seq(Runs), RanTo(es, table, n, r),
           es[n].valid, table[es[n].method] # 0,
           NEW z \in Runs, z[1] = n, z[2] = table[es[n].method]
    PROVE  RanTo(es, table, n + 1, Append(r, z))
<1> DEFINE f(q) == [j \in DOMAIN q |-> q[j][1]]
           k == Len(r)
           r2 == Append(r, z)
<1>1. /\ k \in Nat /\ DOMAIN r = 1..k /\ DOMAIN r2 = 1..(k + 1)
      /\ r2[k + 1] = z /\ \A j \in 1..k : r2[j] = r[j] /\ r[j] \in Runs
  OBVIOUS
<1> HIDE DEF k, r2
<1>2. f(r) \in Seq(Nat)
  <2>1. \A j \in 1..k : r[j][1] \in Nat
    BY <1>1 DEF Runs
  <2>2. f(r) = [j \in 1..k |-> r[j][1]]
    BY <1>1
  <2>3. QED
    BY <1>1, <2>1, <2>2
<1>3. f(r2) = Append(f(r), n)
  <2>1. DOMAIN f(r) = 1..k /\ Len(f(r)) = k
    BY <1>1, <1>2
  <2>2. Append(f(r), n) = [j \in 1..(k + 1) |-> IF j = k + 1 THEN n ELSE f(r)[j]]
    BY <1>2, <2>1
  <2>3. f(r2) = [j \in 1..(k + 1) |-> r2[j][1]]
    BY <1>1
  <2>4. \A j \in 1..(k + 1) : r2[j][1] = IF j = k + 1 THEN n ELSE f(r)[j]
    <3>1. r2[k + 1][1] = n
      BY <1>1
    <3>2. \A j \in 1..(k + 1) : j # k + 1 => j \in 1..k
      BY <1>1
    <3>3. QED
      BY <1>1, <3>1, <3>2
  <2> DEFINE g == Append(f(r), n)
             h == f(r2)
  <2>5. g = [j \in 1..(k + 1) |-> IF j = k + 1 THEN n ELSE f(r)[j]]
    BY <2>2
  <2> HIDE DEF g, f
  <2>6. h = [j \in 1..(k + 1) |-> r2[j][1]]
    BY <2>3
  <2>7. g = h
    BY <2>4, <2>5, <2>6
  <2>8. QED
    BY <2>7 DEF g
<1>4. Due(es, table, n + 1) = Due(es, table, n) \cup {n}
  <2>1. \A j : j \in 1..((n + 1) - 1) <=> j \in 1..(n - 1) \/ j = n
    OBVIOUS
  <2>2. QED
    BY <2>1 DEF Due
<1>5. \A j \in Due(es, table, n) : j < n
  BY DEF Due
<1>6. Enumerates(f(r2), Due(es, table, n + 1))
  <2>1. Enumerates(f(r), Due(es, table, n))
    BY DEF RanTo
  <2> HIDE DEF f
  <2>2. QED
    BY <1>2, <1>3, <1>4, <1>5, <2>1, EnumeratesOneMore
<1>7. \A j \in DOMAIN r2 : r2[j][2] = table[es[r2[j][1]].method]
  <2>1. \A j \in 1..k : r2[j][2] = table[es[r2[j][1]].method]
    BY <1>1 DEF RanTo
  <2>2. r2[k + 1][2] = table[es[r2[k + 1][1]].method]
    BY <1>1
  <2>3. \A j \in 1..(k + 1) : j = k + 1 \/ j \in 1..k
    BY <1>1
  <2>4. QED
    BY <1>1, <2>1, <2>2, <2>3
<1>8. QED
  BY <1>6, <1>7 DEF RanTo, r2

\* What elements before n are owed does not depend on what runs for n.
LEMMA OwedKept ==
    ASSUME NEW e, NEW table, NEW n \in Nat, NEW i \in 1..(n - 1), NEW r \in Seq(Runs),
           NEW z \in Runs, z[1] = n
    PROVE  OwedFor(e, table, Append(r, z), i) = OwedFor(e, table, r, i)
<1>1. Range(Append(r, z)) = Range(r) \cup {z}
  BY RangeOfAppend
<1>2. \A h, y : <<i, h, y>> # z
  OBVIOUS
<1>3. QED
  BY <1>1, <1>2 DEF OwedFor

\* What n is owed after its handler has run.
LEMMA OwedOne ==
    ASSUME NEW es, NEW table, NEW n \in Nat \ {0}, NEW r \in Seq(Runs), RanTo(es, table, n, r),
           NEW e, e.valid, e.id # NoId, NEW h \in Nat \ {0}, h = table[e.method],
           NEW x \in Results
    PROVE  OwedFor(e, table, Append(r, <<n, h, x>>), n) = {Response(e.id, x)}
<1> DEFINE z == <<n, h, x>>
<1>1. z \in Runs /\ Range(Append(r, z)) = Range(r) \cup {z}
  <2>1. z \in Runs
    BY DEF Runs
  <2>2. QED
    BY <2>1, RangeOfAppend
<1>2. ASSUME NEW y PROVE <<n, h, y>> \notin Range(r)
  <2>1. SUFFICES ASSUME NEW j \in DOMAIN r, r[j] = <<n, h, y>> PROVE FALSE
    BY DEF Range
  <2>2. r[j][1] = n
    BY <2>1
  <2>3. r[j][1] \in Due(es, table, n)
    BY DEF RanTo, Enumerates, Range
  <2>4. n \notin Due(es, table, n)
    BY DEF Due
  <2>5. QED
    BY <2>2, <2>3, <2>4
<1>3. {y \in Results : <<n, h, y>> \in Range(Append(r, z))} = {x}
  BY <1>1, <1>2
<1>4. {Response(e.id, y) : y \in {x}} = {Response(e.id, x)}
  OBVIOUS
<1> HIDE DEF z
<1>5. OwedFor(e, table, Append(r, z), n)
        = {Response(e.id, y) : y \in {w \in Results : <<n, h, w>> \in Range(Append(r, z))}}
  BY DEF OwedFor
<1>6. QED
  BY <1>3, <1>4, <1>5 DEF z

\* An element is answered, or is a notification and is not.
LEMMA AnswerOne ==
    ASSUME NEW es, NEW table, NEW n \in Nat \ {0}, NEW r \in Seq(Runs), NEW r2,
           NEW rs \in Seq(Responses), AnsweredTo(es, table, n, r, rs),
           r2 = r \/ \E z \in Runs : z[1] = n /\ r2 = Append(r, z)
    PROVE  /\ ~WantsResponse(es[n]) => AnsweredTo(es, table, n + 1, r2, rs)
           /\ \A y \in Responses :
                WantsResponse(es[n]) /\ {y} = OwedFor(es[n], table, r2, n)
                  => AnsweredTo(es, table, n + 1, r2, Append(rs, y))
<1>1. PICK order \in Seq(Nat) :
        /\ Len(order) = Len(rs)
        /\ Enumerates(order, Calls(es, n))
        /\ \A k \in DOMAIN rs : {rs[k]} = OwedFor(es[order[k]], table, r, order[k])
  BY DEF AnsweredTo
<1>2. \A j : j \in 1..((n + 1) - 1) <=> j \in 1..(n - 1) \/ j = n
  OBVIOUS
<1>3. \A i \in 1..(n - 1) : OwedFor(es[i], table, r2, i) = OwedFor(es[i], table, r, i)
  <2> SUFFICES ASSUME NEW i \in 1..(n - 1), NEW z \in Runs, z[1] = n, r2 = Append(r, z)
               PROVE  OwedFor(es[i], table, r2, i) = OwedFor(es[i], table, r, i)
    OBVIOUS
  <2>1. QED
    BY OwedKept
<1>4. \A k \in DOMAIN rs : /\ k \in DOMAIN order /\ order[k] \in 1..(n - 1)
                           /\ {rs[k]} = OwedFor(es[order[k]], table, r2, order[k])
  <2>1. \A k \in DOMAIN rs : k \in DOMAIN order
    BY <1>1
  <2>2. \A k \in DOMAIN rs : order[k] \in Calls(es, n)
    BY <1>1, <2>1 DEF Enumerates, Range
  <2>3. \A k \in DOMAIN rs : order[k] \in 1..(n - 1)
    BY <2>2 DEF Calls
  <2>4. QED
    BY <1>1, <1>3, <2>1, <2>3
<1>5. ASSUME ~WantsResponse(es[n]) PROVE AnsweredTo(es, table, n + 1, r2, rs)
  <2>1. Calls(es, n + 1) = Calls(es, n)
    BY <1>2, <1>5 DEF Calls
  <2>2. QED
    BY <1>1, <1>4, <2>1 DEF AnsweredTo
<1>6. ASSUME NEW y \in Responses, WantsResponse(es[n]), {y} = OwedFor(es[n], table, r2, n)
      PROVE  AnsweredTo(es, table, n + 1, r2, Append(rs, y))
  <2> DEFINE order2 == Append(order, n)
             rs2 == Append(rs, y)
             k == Len(rs)
  <2>1. Calls(es, n + 1) = Calls(es, n) \cup {n} /\ \A i \in Calls(es, n) : i < n
    BY <1>2, <1>6 DEF Calls
  <2>2. order2 \in Seq(Nat) /\ Enumerates(order2, Calls(es, n + 1))
    BY <1>1, <2>1, EnumeratesOneMore
  <2>3. /\ k \in Nat /\ DOMAIN rs = 1..k /\ DOMAIN rs2 = 1..(k + 1)
        /\ Len(order2) = k + 1 /\ Len(rs2) = k + 1
        /\ rs2[k + 1] = y /\ order2[k + 1] = n
        /\ \A i \in 1..k : rs2[i] = rs[i] /\ order2[i] = order[i]
    BY <1>1
  <2> HIDE DEF order2, rs2, k
  <2>4. \A i \in 1..(k + 1) : i = k + 1 \/ i \in 1..k
    BY <2>3
  <2>5. \A i \in 1..k : {rs2[i]} = OwedFor(es[order2[i]], table, r2, order2[i])
    BY <1>4, <2>3
  <2>6. {rs2[k + 1]} = OwedFor(es[order2[k + 1]], table, r2, order2[k + 1])
    BY <1>6, <2>3
  <2>7. \A i \in DOMAIN rs2 : {rs2[i]} = OwedFor(es[order2[i]], table, r2, order2[i])
    BY <2>3, <2>4, <2>5, <2>6
  <2>8. QED
    BY <2>2, <2>3, <2>7 DEF AnsweredTo, rs2
<1>7. QED
  BY <1>5, <1>6

-----------------------------------------------------------------------------
\* A message whose data a step does not touch.
LEMMA Untouched ==
    ASSUME NEW q \in Messages, Progress(q),
           at'[q] = at[q], body'[q] = body[q], promised'[q] = promised[q], next'[q] = next[q],
           ran'[q] = ran[q], responses'[q] = responses[q], output'[q] = output[q],
           at[q] \in Live => heap'[holds'[q]] = heap[holds[q]]
    PROVE  Progress(q)'
<1>1. TableKept(q)'
  BY DEF Progress, TableKept, Live
<1>2. OnlyAccepted(q)'
  BY DEF Progress, OnlyAccepted, Accepted, Oversized
<1>3. Ran(q)' /\ Answered(q)'
  BY DEF Progress, Ran, Answered
<1>4. Returned(q)' /\ AtHandler(q)'
  BY DEF Progress, Returned, Accepted, Oversized, AtHandler, Element
<1>5. QED
  BY <1>1, <1>2, <1>3, <1>4 DEF Progress

\* A registration does not reach the clones: it is made in a copy of their table.
LEMMA RegisterStep ==
    ASSUME TypeOK, NEW q \in Messages, Progress(q), NEW name \in Methods, Register(name)
    PROVE  Progress(q)'
<1>1. /\ heap' = IF Shared THEN Append(heap, [heap[builder] EXCEPT ![name] = registered'])
                  ELSE [heap EXCEPT ![builder] = [heap[builder] EXCEPT ![name] = registered']]
      /\ UNCHANGED <<holds, promised, body, at, next, responses, output, ran>>
  BY DEF Register
<1>2. ASSUME at[q] \in Live PROVE heap'[holds[q]] = heap[holds[q]]
  <2>1. holds[q] \in 1..Len(heap) /\ heap \in Seq([Methods -> 0..registered]) /\ Len(heap) \in Nat
    BY <1>2 DEF TypeOK, Live
  <2>2. CASE Shared
    BY <1>1, <2>1, <2>2
  <2>3. CASE ~Shared
    <3>1. holds[q] # builder
      BY <1>2, <2>3 DEF Shared
    <3>2. QED
      BY <1>1, <2>1, <2>3, <3>1
  <2>4. QED
    BY <2>2, <2>3
<1>3. QED
  BY <1>1, <1>2, Untouched

\* What m has when it gets its clone of the router.
LEMMA CloneStep ==
    ASSUME TypeOK, NEW m \in Messages, Progress(m), Clone(m)
    PROVE  Progress(m)'
<1>1. PICK b \in Bodies[m] : body' = [body EXCEPT ![m] = b]
  BY DEF Clone
<1>2. /\ at[m] = "unborn" /\ at'[m] = "new" /\ next'[m] = next[m] /\ responses'[m] = responses[m]
      /\ ran'[m] = ran[m] /\ heap' = heap /\ holds'[m] = builder /\ promised'[m] = heap[builder]
  BY DEF Clone, TypeOK
<1>3. next'[m] = 1 /\ responses'[m] = <<>> /\ ran'[m] = <<>>
  BY <1>2 DEF Progress, OnlyAccepted
<1>4. Ran(m)' /\ Answered(m)'
  BY <1>3, NothingYet DEF Ran, Answered
<1>5. QED
  BY <1>2, <1>3, <1>4 DEF Progress, TableKept, OnlyAccepted, AtHandler, Returned

\* The handler of the element that m is at is the one promised to it.
LEMMA HandlerPromised ==
    ASSUME TypeOK, NEW m \in Messages, Progress(m), at[m] \in {"element", "handler"},
           next[m] <= Len(body[m].elements)
    PROVE  Handler(m) = promised[m][Element(m).method] /\ Handler(m) \in Nat
<1>1. Element(m).method \in Methods /\ promised[m] \in [Methods -> 0..registered]
  BY ElementShape DEF TypeOK
<1>2. Handler(m) = promised[m][Element(m).method]
  BY DEF Progress, TableKept, Live, Handler
<1>3. QED
  BY <1>1, <1>2

\* m has dealt with one more element.
LEMMA AnswerStep ==
    ASSUME TypeOK, NEW m \in Messages, Progress(m), at[m] \in {"element", "handler"},
           next[m] <= Len(body[m].elements),
           NEW rs, Answer(m, rs), UNCHANGED <<tables, body, output>>,
           RanTo(body[m].elements, promised[m], next[m] + 1, ran'[m]),
           \/ ran'[m] = ran[m]
           \/ \E z \in Runs : z[1] = next[m] /\ ran'[m] = Append(ran[m], z),
           IF WantsResponse(Element(m))
           THEN \E y \in Responses :
                  rs = <<y>> /\ {y} = OwedFor(Element(m), promised[m], ran'[m], next[m])
           ELSE rs = <<>>
    PROVE  Progress(m)'
<1>1. /\ next[m] \in Nat \ {0} /\ ran[m] \in Seq(Runs) /\ responses[m] \in Seq(Responses)
      /\ Element(m) = body[m].elements[next[m]]
  BY DEF TypeOK, Runs, Element
<1>2. /\ next'[m] = next[m] + 1 /\ responses'[m] = responses[m] \o rs /\ at'[m] = "element"
      /\ promised' = promised /\ heap' = heap /\ holds' = holds /\ body' = body
  BY DEF Answer, TypeOK, tables
<1>3. AnsweredTo(body[m].elements, promised[m], next[m], ran[m], responses[m])
  BY DEF Progress, Answered
<1>4. AnsweredTo(body[m].elements, promised[m], next[m] + 1, ran'[m], responses'[m])
  <2>1. CASE ~WantsResponse(Element(m))
    <3>1. responses'[m] = responses[m]
      BY <1>1, <1>2, <2>1
    <3>2. QED
      BY <1>1, <1>3, <2>1, <3>1, AnswerOne
  <2>2. CASE WantsResponse(Element(m))
    <3>1. PICK y \in Responses :
            rs = <<y>> /\ {y} = OwedFor(Element(m), promised[m], ran'[m], next[m])
      BY <2>2
    <3>2. responses'[m] = Append(responses[m], y)
      BY <1>1, <1>2, <3>1, OneResponse
    <3>3. QED
      <4> DEFINE es == body[m].elements
                 t == promised[m]
                 n == next[m]
                 r2 == ran'[m]
      <4>1. WantsResponse(es[n]) /\ {y} = OwedFor(es[n], t, r2, n) /\ AnsweredTo(es, t, n, ran[m], responses[m])
        BY <1>1, <1>3, <2>2, <3>1
      <4>2. n \in Nat \ {0} /\ (r2 = ran[m] \/ \E z \in Runs : z[1] = n /\ r2 = Append(ran[m], z))
        BY <1>1
      <4> HIDE DEF es, t, n, r2
      <4>3. AnsweredTo(es, t, n + 1, r2, Append(responses[m], y))
        BY <1>1, <4>1, <4>2, AnswerOne
      <4>4. QED
        BY <3>2, <4>3 DEF es, t, n, r2
  <2>3. QED
    BY <2>1, <2>2
<1>5. Ran(m)' /\ Answered(m)'
  BY <1>2, <1>4 DEF Ran, Answered
<1>6. Accepted(body[m])
  BY DEF Progress, OnlyAccepted
<1>7. TableKept(m)' /\ OnlyAccepted(m)' /\ AtHandler(m)' /\ Returned(m)'
  BY <1>2, <1>6 DEF Progress, TableKept, OnlyAccepted, AtHandler, Returned, Live, Accepted, Oversized
<1>8. QED
  BY <1>5, <1>7 DEF Progress

\* The dispatch of m keeps its progress.
LEMMA DispatchStep ==
    ASSUME TypeOK, NEW m \in Messages, Progress(m), Dispatch(m) \/ DropFuture(m)
    PROVE  Progress(m)'
<1> DEFINE es == body[m].elements
           e == es[next[m]]
<1>0. e = Element(m) /\ next[m] \in Nat \ {0} /\ ran[m] \in Seq(Runs)
  BY DEF Element, TypeOK, Runs
<1>1. CASE RejectBody(m)
  <2>1. /\ next'[m] = next[m] /\ responses'[m] = responses[m] /\ ran'[m] = ran[m] /\ body' = body
        /\ promised' = promised /\ at[m] = "new" /\ at'[m] = "done"
    BY <1>1 DEF RejectBody, Return, TypeOK, tables
  <2>2. ~Accepted(body[m])
    BY <1>1, BodyShape DEF RejectBody, Accepted
  <2>3. Oversized(body[m]) => output'[m] = Single(NullId, "invalid_request")
    BY <1>1 DEF RejectBody, Return, TypeOK
  <2>4. next[m] = 1 /\ responses[m] = <<>> /\ ran[m] = <<>> /\ Ran(m) /\ Answered(m)
    BY <2>1 DEF Progress, OnlyAccepted
  <2>5. QED
    BY <2>1, <2>2, <2>3, <2>4
       DEF Progress, TableKept, OnlyAccepted, AtHandler, Ran, Answered, Returned, Live, Accepted, Oversized
<1>2. CASE AcceptBody(m)
  <2>1. /\ next' = next /\ responses' = responses /\ ran' = ran /\ body' = body /\ heap' = heap
        /\ holds' = holds /\ promised' = promised /\ at[m] = "new" /\ at'[m] = "element"
        /\ Accepted(body[m])
    BY <1>2 DEF AcceptBody, TypeOK, tables, Accepted
  <2>2. QED
    BY <2>1 DEF Progress, TableKept, OnlyAccepted, AtHandler, Ran, Answered, Returned, Live, Accepted, Oversized
<1>3. CASE RejectElement(m)
  <2>1. Response(NullId, "invalid_request") \in Responses
    BY RouterAssumption DEF Response, Responses
  <2>2. /\ at[m] = "element" /\ next[m] <= Len(es) /\ ~e.valid /\ ran' = ran
        /\ Answer(m, <<Response(NullId, "invalid_request")>>) /\ UNCHANGED <<tables, body, output>>
    BY <1>0, <1>3 DEF RejectElement
  <2>3. WantsResponse(e) /\ OwedFor(e, promised[m], ran[m], next[m]) = {Response(NullId, "invalid_request")}
    BY <2>2 DEF WantsResponse, OwedFor
  <2>4. RanTo(es, promised[m], next[m] + 1, ran[m])
    BY <1>0, <2>2, PassOver DEF Progress, Ran
  <2>5. QED
    BY <1>0, <2>1, <2>2, <2>3, <2>4, AnswerStep
<1>4. CASE UnknownMethod(m)
  <2>1. /\ at[m] = "element" /\ next[m] <= Len(es) /\ e.valid /\ Handler(m) = 0 /\ ran' = ran
        /\ UNCHANGED <<tables, body, output>>
    BY <1>0, <1>4 DEF UnknownMethod
  <2>2. promised[m][e.method] = 0 /\ Response(e.id, "method_not_found") \in Responses
    BY <1>0, <2>1, HandlerPromised, ElementShape DEF Response, Responses
  <2>3. RanTo(es, promised[m], next[m] + 1, ran[m])
    BY <1>0, <2>2, PassOver DEF Progress, Ran
  <2>4. CASE e.id = NoId
    <3>1. Answer(m, <<>>) /\ ~WantsResponse(e)
      BY <1>0, <1>4, <2>1, <2>4 DEF UnknownMethod, IsNotification, WantsResponse
    <3>2. QED
      BY <1>0, <2>1, <2>3, <3>1, AnswerStep
  <2>5. CASE e.id # NoId
    <3>1. Answer(m, <<Response(e.id, "method_not_found")>>) /\ WantsResponse(e)
      BY <1>0, <1>4, <2>5 DEF UnknownMethod, IsNotification, WantsResponse
    <3>2. OwedFor(e, promised[m], ran[m], next[m]) = {Response(e.id, "method_not_found")}
      BY <2>1, <2>2, <2>5 DEF OwedFor
    <3>3. QED
      BY <1>0, <2>1, <2>2, <2>3, <3>1, <3>2, AnswerStep
  <2>6. QED
    BY <2>4, <2>5
<1>5. CASE CallHandler(m)
  <2>1. /\ next' = next /\ responses' = responses /\ ran' = ran /\ body' = body /\ heap' = heap
        /\ holds' = holds /\ promised' = promised /\ at[m] = "element" /\ at'[m] = "handler"
        /\ next[m] <= Len(es) /\ Element(m).valid /\ Handler(m) # 0
    BY <1>5 DEF CallHandler, TypeOK, tables
  <2>2. AtHandler(m)'
    BY <2>1, HandlerPromised DEF AtHandler, Element
  <2>3. QED
    BY <2>1, <2>2 DEF Progress, TableKept, OnlyAccepted, AtHandler, Ran, Answered, Returned, Live, Accepted, Oversized
<1>6. ASSUME NEW result \in Results, HandlerReturns(m, result) PROVE Progress(m)'
  <2> DEFINE z == <<next[m], Handler(m), result>>
  <2>1. /\ at[m] = "handler" /\ next[m] <= Len(es) /\ ran'[m] = Append(ran[m], z)
        /\ UNCHANGED <<tables, body, output>>
    BY <1>6 DEF HandlerReturns, TypeOK
  <2>2. e.valid /\ promised[m][e.method] # 0
    BY <1>0, <2>1 DEF Progress, AtHandler
  <2>3. Handler(m) = promised[m][e.method] /\ Handler(m) \in Nat
    BY <1>0, <2>1, HandlerPromised
  <2>4. z \in Runs /\ z[1] = next[m] /\ z[2] = promised[m][e.method]
    BY <1>0, <2>3 DEF Runs
  <2>5. RanTo(es, promised[m], next[m], ran[m])
    BY DEF Progress, Ran
  <2>6. RanTo(es, promised[m], next[m] + 1, ran'[m])
    BY <1>0, <2>1, <2>2, <2>4, <2>5, RunOne
  <2>7. CASE e.id = NoId
    <3>1. Answer(m, <<>>) /\ ~WantsResponse(e)
      BY <1>0, <1>6, <2>2, <2>7 DEF HandlerReturns, IsNotification, WantsResponse
    <3>2. QED
      BY <1>0, <2>1, <2>4, <2>6, <3>1, AnswerStep
  <2>8. CASE e.id # NoId
    <3>1. Answer(m, <<Response(e.id, result)>>) /\ WantsResponse(e)
      BY <1>0, <1>6, <2>8 DEF HandlerReturns, IsNotification, WantsResponse
    <3>2. OwedFor(e, promised[m], ran'[m], next[m]) = {Response(e.id, result)}
      <4>1. Handler(m) \in Nat \ {0} /\ Handler(m) = promised[m][e.method]
        BY <2>2, <2>3
      <4> HIDE DEF e
      <4>2. OwedFor(e, promised[m], Append(ran[m], z), next[m]) = {Response(e.id, result)}
        BY <1>0, <1>6, <2>2, <2>5, <2>8, <4>1, OwedOne
      <4>3. QED
        BY <2>1, <4>2
    <3>3. Response(e.id, result) \in Responses
      BY <1>0, <2>1, ElementShape DEF Response, Responses
    <3>4. QED
      BY <1>0, <2>1, <2>4, <2>6, <3>1, <3>2, <3>3, AnswerStep
  <2>9. QED
    BY <2>7, <2>8
<1>7. CASE ReturnOutput(m)
  <2>1. /\ next'[m] = next[m] /\ responses'[m] = responses[m] /\ ran'[m] = ran[m] /\ body' = body
        /\ promised' = promised /\ at[m] = "element" /\ at'[m] = "done"
        /\ next[m] > Len(es)
        /\ output'[m] = IF responses[m] = <<>> THEN Output("empty", <<>>)
                        ELSE Output(body[m].kind, responses[m])
    BY <1>7 DEF ReturnOutput, Return, TypeOK, tables
  <2>2. next[m] = Len(es) + 1
    <3>1. next[m] \in Nat /\ Len(es) \in Nat /\ next[m] <= Len(es) + 1
      BY BodyShape DEF TypeOK
    <3>2. QED
      BY <2>1, <3>1
  <2>3. Accepted(body[m]) /\ Ran(m) /\ Answered(m)
    BY <2>1 DEF Progress, OnlyAccepted
  <2>4. QED
    BY <2>1, <2>2, <2>3
       DEF Progress, TableKept, OnlyAccepted, AtHandler, Ran, Answered, Returned, Live, Accepted, Oversized
<1>8. CASE DropFuture(m)
  <2>1. /\ next' = next /\ responses' = responses /\ ran' = ran /\ body' = body
        /\ promised' = promised /\ at[m] = "handler" /\ at'[m] = "dropped"
    BY <1>8 DEF DropFuture, TypeOK, tables
  <2>2. QED
    BY <2>1 DEF Progress, TableKept, OnlyAccepted, AtHandler, Ran, Answered, Returned, Live, Accepted, Oversized
<1>9. QED
  BY <1>1, <1>2, <1>3, <1>4, <1>5, <1>6, <1>7, <1>8 DEF Dispatch

\* Every step keeps RouterInv.
LEMMA RouterStep ==
    ASSUME RouterInv, [Next]_vars
    PROVE  RouterInv'
<1>1. TypeOK /\ \A m \in Messages : Progress(m)
  BY DEF RouterInv
<1>2. TypeOK'
  BY <1>1, RouterTypes DEF Progress
<1>3. ASSUME NEW q \in Messages PROVE Progress(q)'
  <2>1. ASSUME NEW name \in Methods, Register(name) PROVE Progress(q)'
    BY <1>1, <2>1, RegisterStep
  <2>2. ASSUME NEW m \in Messages, Clone(m) PROVE Progress(q)'
    <3>1. CASE q = m
      BY <1>1, <2>2, <3>1, CloneStep
    <3>2. CASE q # m
      <4>1. /\ at'[q] = at[q] /\ body'[q] = body[q] /\ promised'[q] = promised[q] /\ next'[q] = next[q]
            /\ ran'[q] = ran[q] /\ responses'[q] = responses[q] /\ output'[q] = output[q]
            /\ heap' = heap /\ holds'[q] = holds[q]
        BY <2>2, <3>2 DEF Clone
      <4>2. QED
        BY <1>1, <4>1, Untouched
    <3>3. QED
      BY <3>1, <3>2
  <2>3. ASSUME NEW m \in Messages, Dispatch(m) \/ DropFuture(m) PROVE Progress(q)'
    <3>1. CASE q = m
      BY <1>1, <2>3, <3>1, DispatchStep
    <3>2. CASE q # m
      <4>1. /\ at'[q] = at[q] /\ next'[q] = next[q] /\ ran'[q] = ran[q]
            /\ responses'[q] = responses[q] /\ output'[q] = output[q]
            /\ UNCHANGED <<tables, body>>
        <5>1. CASE RejectBody(m) \/ ReturnOutput(m)
          BY <1>1, <3>2, <5>1 DEF RejectBody, ReturnOutput, Return, TypeOK
        <5>2. CASE AcceptBody(m) \/ CallHandler(m) \/ DropFuture(m)
          BY <1>1, <3>2, <5>2 DEF AcceptBody, CallHandler, DropFuture, TypeOK
        <5>3. CASE RejectElement(m) \/ UnknownMethod(m) \/ \E x \in Results : HandlerReturns(m, x)
          BY <1>1, <3>2, <5>3 DEF RejectElement, UnknownMethod, HandlerReturns, Answer, TypeOK
        <5>4. QED
          BY <2>3, <5>1, <5>2, <5>3 DEF Dispatch
      <4>2. QED
        BY <1>1, <4>1, Untouched DEF tables
    <3>3. QED
      BY <3>1, <3>2
  <2>4. CASE UNCHANGED vars
    BY <1>1, <2>4, Untouched DEF vars, tables
  <2>5. QED
    BY <2>1, <2>2, <2>3, <2>4 DEF Next, Rest
<1>4. QED
  BY <1>2, <1>3 DEF RouterInv

\* What has been returned answers the calls of an accepted body.
LEMMA AnswersFollow == RouterInv => AnswersEveryCall
<1> SUFFICES ASSUME RouterInv, NEW m \in Messages, at[m] = "done", Accepted(body[m])
             PROVE  LET calls == {i \in DOMAIN body[m].elements : WantsResponse(body[m].elements[i])}
                        rs == output[m].responses
                    IN  /\ \E order \in [DOMAIN rs -> calls] :
                             /\ Enumerates(order, calls)
                             /\ \A k \in DOMAIN rs : {rs[k]} = Owed(m, order[k])
                        /\ output[m].kind = IF calls = {} THEN "empty" ELSE body[m].kind
  BY DEF AnswersEveryCall
<1> DEFINE es == body[m].elements
           calls == {i \in DOMAIN es : WantsResponse(es[i])}
           rs == output[m].responses
<1>1. TypeOK /\ Progress(m)
  BY DEF RouterInv
<1>2. es \in Seq(Elements) /\ DOMAIN es = 1..Len(es) /\ Len(es) \in Nat
  BY <1>1, BodyShape
<1>3. /\ next[m] = Len(es) + 1
      /\ output[m] = IF responses[m] = <<>> THEN Output("empty", <<>>)
                     ELSE Output(body[m].kind, responses[m])
  BY <1>1 DEF Progress, Returned
<1>4. rs = responses[m] /\ output[m].kind = IF responses[m] = <<>> THEN "empty" ELSE body[m].kind
  BY <1>3 DEF Output
<1>5. calls = Calls(es, next[m])
  BY <1>2, <1>3 DEF Calls
<1>6. PICK order \in Seq(Nat) :
        /\ Len(order) = Len(rs)
        /\ Enumerates(order, calls)
        /\ \A k \in DOMAIN rs : {rs[k]} = OwedFor(es[order[k]], promised[m], ran[m], order[k])
  BY <1>1, <1>4, <1>5 DEF Progress, Answered, AnsweredTo
<1>7. \A k \in DOMAIN rs : {rs[k]} = Owed(m, order[k])
  BY <1>6 DEF Owed, OwedFor
<1>8. rs \in Seq(Responses) /\ DOMAIN rs = DOMAIN order
  BY <1>1, <1>4, <1>6 DEF TypeOK
<1>9. Range(order) = calls /\ order = [k \in DOMAIN rs |-> order[k]]
  BY <1>6, <1>8 DEF Enumerates
<1>10. order \in [DOMAIN rs -> calls]
  BY <1>8, <1>9 DEF Range
<1>11. (rs = <<>>) <=> (calls = {})
  <2>1. rs = <<>> <=> DOMAIN order = {}
    BY <1>8
  <2>2. DOMAIN order = {} <=> Range(order) = {}
    BY DEF Range
  <2>3. QED
    BY <1>9, <2>1, <2>2
<1>12. QED
  BY <1>4, <1>6, <1>7, <1>10, <1>11

\* The handlers that have run are those of the elements gone through, in order.
LEMMA RunsFollow == RouterInv => RunsInOrder
<1> SUFFICES ASSUME RouterInv, NEW m \in Messages
             PROVE  LET elements == body[m].elements
                        due == {j \in 1..(next[m] - 1) : /\ elements[j].valid
                                                        /\ promised[m][elements[j].method] # 0}
                    IN  /\ Enumerates([j \in DOMAIN ran[m] |-> ran[m][j][1]], due)
                        /\ \A j \in DOMAIN ran[m] :
                             ran[m][j][2] = promised[m][elements[ran[m][j][1]].method]
                        /\ Oversized(body[m]) =>
                             /\ ran[m] = <<>> /\ at[m] # "handler"
                             /\ at[m] = "done" => output[m] = Single(NullId, "invalid_request")
                        /\ body[m].kind = "single" /\ at[m] = "done" =>
                             output[m] # Single(NullId, "invalid_request")
  BY DEF RunsInOrder
<1> DEFINE es == body[m].elements
<1>1. TypeOK /\ Progress(m)
  BY DEF RouterInv
<1>2. /\ Enumerates([j \in DOMAIN ran[m] |-> ran[m][j][1]], Due(es, promised[m], next[m]))
      /\ \A j \in DOMAIN ran[m] : ran[m][j][2] = promised[m][es[ran[m][j][1]].method]
  BY <1>1 DEF Progress, Ran, RanTo
<1>3. ASSUME Oversized(body[m])
      PROVE  /\ ran[m] = <<>> /\ at[m] # "handler"
             /\ at[m] = "done" => output[m] = Single(NullId, "invalid_request")
  BY <1>1, <1>3 DEF Progress, TypeOK, OnlyAccepted, Returned, Accepted
<1>4. ASSUME body[m].kind = "single", at[m] = "done", output[m] = Single(NullId, "invalid_request")
      PROVE  FALSE
  <2>1. Accepted(body[m]) /\ Len(es) = 1 /\ es[1].valid
    BY <1>1, <1>4, BodyShape
  <2>2. /\ next[m] = 2
        /\ output[m] = IF responses[m] = <<>> THEN Output("empty", <<>>)
                       ELSE Output("single", responses[m])
    BY <1>1, <1>4, <2>1 DEF Progress, Returned
  <2>3. responses[m] = <<Response(NullId, "invalid_request")>>
    BY <1>4, <2>2 DEF Single, Output
  <2>4. PICK order \in Seq(Nat) :
          /\ Len(order) = 1
          /\ Enumerates(order, Calls(es, 2))
          /\ {responses[m][1]} = OwedFor(es[order[1]], promised[m], ran[m], order[1])
    BY <1>1, <2>2, <2>3 DEF Progress, Answered, AnsweredTo
  <2>5. order[1] = 1
    <3>1. order[1] \in Calls(es, 2)
      BY <2>4 DEF Enumerates, Range
    <3>2. QED
      BY <3>1 DEF Calls
  <2>6. \A y \in OwedFor(es[1], promised[m], ran[m], 1) : y.what # "invalid_request"
    <3>1. \A id : /\ Response(id, "value").what # "invalid_request"
                  /\ Response(id, "error").what # "invalid_request"
                  /\ Response(id, "method_not_found").what # "invalid_request"
      BY DEF Response
    <3>2. ASSUME NEW y \in OwedFor(es[1], promised[m], ran[m], 1)
          PROVE  \E id, x : y = Response(id, x) /\ x \in {"value", "error", "method_not_found"}
      <4>1. CASE es[1].id = NoId
        BY <2>1, <4>1 DEF OwedFor
      <4>2. CASE es[1].id # NoId /\ promised[m][es[1].method] = 0
        BY <2>1, <4>2 DEF OwedFor
      <4>3. CASE es[1].id # NoId /\ promised[m][es[1].method] # 0
        BY <2>1, <4>3 DEF OwedFor, Results
      <4>4. QED
        BY <4>1, <4>2, <4>3
    <3>3. QED
      BY <3>1, <3>2
  <2>7. QED
    BY <2>3, <2>4, <2>5, <2>6 DEF Response
<1>5. QED
  BY <1>2, <1>3, <1>4 DEF Due

-----------------------------------------------------------------------------
(* Theorems.                                                                *)

\* RouterInv holds in every reachable state.
THEOREM RouterInvariant == Spec => []RouterInv
BY RouterInit, RouterStep, PTL DEF Spec

\* The variables keep their types; in particular no message pushes or runs more
\* than it has gone through, and an output comes with the end of the dispatch.
THEOREM RouterTypeCorrect == Spec => []TypeOK
<1>1. RouterInv => TypeOK
  BY DEF RouterInv
<1>2. QED
  BY <1>1, RouterInvariant, PTL

\* handle_bytes answers every element of a message but the notifications, once
\* each, in order, with its own id and the result of its own handler.
THEOREM EveryCallAnswered == Spec => []AnswersEveryCall
<1>1. RouterInv => AnswersEveryCall
  BY AnswersFollow
<1>2. QED
  BY <1>1, RouterInvariant, PTL

\* The handlers run in the order of the elements, each once, and they are those
\* that were registered when the router was cloned; none runs for a batch above
\* the limit, and a single request is never taken for one.
THEOREM HandlersRunInOrder == Spec => []RunsInOrder
<1>1. RouterInv => RunsInOrder
  BY RunsFollow
<1>2. QED
  BY <1>1, RouterInvariant, PTL
=============================================================================
