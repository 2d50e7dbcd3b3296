------------------------- MODULE RelayAdapterProofs -------------------------
(***************************************************************************)
(* What is proved of the parts of RelayStream in front of the converter.    *)
(* The adapters, whatever the upstream sends and however many frames:       *)
(* events, frames and chunks are followed by their type alone (a sequence   *)
(* of them is Made of some types), FrameResult is what holds of the answer  *)
(* to a frame and EndResult of what comes behind the last one.  The         *)
(* request, of any length, with any number of calls and results: a call and *)
(* its result are kept together or dropped together, the result after the   *)
(* call, every call that was answered is kept, and so they reach each of    *)
(* the upstreams.  What a conversion joins is followed by the part and the  *)
(* place in it that each element comes from (Placed), what it folds by what *)
(* every value of the fold has.                                             *)
(***************************************************************************)
EXTENDS RelayStream, WellFoundedInduction, FiniteSetTheorems, TLAPS

-----------------------------------------------------------------------------
(* The request. *)

\* A conversation: messages, each of which makes a sequence of calls.
Messages(msgs) ==
    /\ \E S : msgs \in Seq(S)
    /\ \A i \in DOMAIN msgs : \E T : Requests!Calls(msgs, i) \in Seq(T)

\* Message k is a kept result of the j-th call of message i.
AnswersCall(msgs, i, j, k) ==
    /\ k \in DOMAIN msgs
    /\ msgs[k].id = Requests!Calls(msgs, i)[j]
    /\ Requests!Answer(msgs, k)

\* The places are natural numbers.
LEMMA PlacesNat ==
    ASSUME NEW msgs, Messages(msgs), NEW i \in DOMAIN msgs
    PROVE  /\ i \in Nat
           /\ DOMAIN Requests!Calls(msgs, i) \subseteq Nat
<1>1. PICK S : msgs \in Seq(S)
  BY DEF Messages
<1>2. PICK T : Requests!Calls(msgs, i) \in Seq(T)
  BY DEF Messages
<1> QED
  BY <1>1, <1>2

\* An id is declared in one place.
LEMMA DeclaredOnce ==
    ASSUME NEW msgs, Messages(msgs),
           NEW i \in DOMAIN msgs, NEW j, Requests!Declares(msgs, i, j),
           NEW k \in DOMAIN msgs, NEW l, Requests!Declares(msgs, k, l),
           Requests!Calls(msgs, i)[j] = Requests!Calls(msgs, k)[l]
    PROVE  i = k /\ j = l
<1>1. j \in DOMAIN Requests!Calls(msgs, i) /\ l \in DOMAIN Requests!Calls(msgs, k)
  BY DEF Requests!Declares
<1>2. i \in Nat /\ k \in Nat /\ j \in Nat /\ l \in Nat
  BY <1>1, PlacesNat
<1>3. ~Requests!Earlier(i, j, k, l) /\ ~Requests!Earlier(k, l, i, j)
  BY <1>1 DEF Requests!Declares
<1> QED
  BY <1>2, <1>3 DEF Requests!Earlier

\* The result that answers a call comes after it.
LEMMA AnsweredLater ==
    ASSUME NEW msgs, Messages(msgs), NEW i \in DOMAIN msgs, NEW j, Requests!Declares(msgs, i, j),
           NEW k \in DOMAIN msgs, msgs[k].role = "tool", msgs[k].id = Requests!Calls(msgs, i)[j],
           Requests!DeclaredBefore(msgs, k)
    PROVE  i < k
<1>1. PICK m \in DOMAIN msgs :
          m <= k /\ \E l : Requests!Calls(msgs, m)[l] = msgs[k].id /\ Requests!Declares(msgs, m, l)
  BY DEF Requests!DeclaredBefore
<1>2. m = i
  BY <1>1, DeclaredOnce
<1>3. i # k
  <2>1. j \in DOMAIN Requests!Calls(msgs, i)
    BY DEF Requests!Declares
  <2>2. msgs[i].role = "assistant"
    BY <2>1 DEF Requests!Calls
  <2> QED
    BY <2>2
<1>4. i \in Nat /\ k \in Nat
  BY PlacesNat
<1> QED
  BY <1>1, <1>2, <1>3, <1>4

\* Of the results with one id, one is kept.
LEMMA AnsweredOnce ==
    ASSUME NEW msgs, Messages(msgs),
           NEW k \in DOMAIN msgs, Requests!Answer(msgs, k), NEW l \in DOMAIN msgs, Requests!Answer(msgs, l),
           msgs[k].id = msgs[l].id
    PROVE  k = l
<1>1. k <= l /\ l <= k
  BY DEF Requests!Answer
<1>2. k \in Nat /\ l \in Nat
  BY PlacesNat
<1> QED
  BY <1>1, <1>2

\* A set of natural numbers has a smallest one.
LEMMA Smallest ==
    ASSUME NEW S \in SUBSET Nat, S # {}
    PROVE  \E m \in S : \A n \in S : m <= n
<1>1. IsWellFoundedOn(OpToRel(<, Nat), Nat)
  BY NatLessThanWellFounded
<1>2. PICK m \in S : \A n \in S : <<n, m>> \notin OpToRel(<, Nat)
  BY <1>1, WFMin
<1>3. \A n \in S : ~(n < m)
  BY <1>2, Zenon DEF OpToRel
<1> QED
  BY <1>3

\* A call that is kept has exactly one result that is kept, and the result comes
\* after it (convert.go: sanitizeToolMessages).
THEOREM KeptCallIsAnswered ==
    ASSUME NEW msgs, Messages(msgs), NEW i \in DOMAIN msgs, NEW j, Requests!KeptCall(msgs, i, j)
    PROVE  \E k \in DOMAIN msgs :
               /\ i < k /\ AnswersCall(msgs, i, j, k)
               /\ \A l : AnswersCall(msgs, i, j, l) => l = k
<1>1. Requests!Declares(msgs, i, j)
  BY DEF Requests!KeptCall
<1>2. PICK k \in DOMAIN msgs : msgs[k].id = Requests!Calls(msgs, i)[j] /\ Requests!Answer(msgs, k)
  BY DEF Requests!KeptCall
<1>3. i < k
  BY <1>1, <1>2, AnsweredLater DEF Requests!Answer
<1>4. ASSUME NEW l, AnswersCall(msgs, i, j, l) PROVE l = k
  BY <1>2, <1>4, AnsweredOnce DEF AnswersCall
<1> QED
  BY <1>2, <1>3, <1>4 DEF AnswersCall

\* A result that is kept has exactly one call that is kept, before it.
THEOREM AnswerHasItsCall ==
    ASSUME NEW msgs, Messages(msgs), NEW k \in DOMAIN msgs, Requests!Answer(msgs, k)
    PROVE  \E i \in DOMAIN msgs : \E j \in DOMAIN Requests!Calls(msgs, i) :
               /\ i < k /\ Requests!KeptCall(msgs, i, j) /\ Requests!Calls(msgs, i)[j] = msgs[k].id
               /\ \A m \in DOMAIN msgs : \A l :
                     Requests!KeptCall(msgs, m, l) /\ Requests!Calls(msgs, m)[l] = msgs[k].id =>
                         m = i /\ l = j
<1>1. Requests!DeclaredBefore(msgs, k) /\ msgs[k].role = "tool"
  BY DEF Requests!Answer
<1>2. PICK i \in DOMAIN msgs : \E j \in DOMAIN Requests!Calls(msgs, i) :
          Requests!Calls(msgs, i)[j] = msgs[k].id /\ Requests!Declares(msgs, i, j)
  BY <1>1 DEF Requests!DeclaredBefore
<1> PICK j \in DOMAIN Requests!Calls(msgs, i) :
          Requests!Calls(msgs, i)[j] = msgs[k].id /\ Requests!Declares(msgs, i, j)
  BY <1>2
<1>3. i < k
  BY <1>1, <1>2, AnsweredLater
<1>4. Requests!KeptCall(msgs, i, j)
  BY <1>2 DEF Requests!KeptCall
<1>5. ASSUME NEW m \in DOMAIN msgs, NEW l,
             Requests!KeptCall(msgs, m, l), Requests!Calls(msgs, m)[l] = msgs[k].id
      PROVE  m = i /\ l = j
  BY <1>2, <1>5, DeclaredOnce DEF Requests!KeptCall
<1> QED
  BY <1>2, <1>3, <1>4, <1>5

\* Nothing more is dropped than need be: a call whose id is declared first by it
\* and that the client answered later is kept.
THEOREM AnsweredCallIsKept ==
    ASSUME NEW msgs, Messages(msgs), NEW i \in DOMAIN msgs, NEW j, Requests!Declares(msgs, i, j),
           NEW k \in DOMAIN msgs, i < k, msgs[k].role = "tool", msgs[k].id = Requests!Calls(msgs, i)[j]
    PROVE  Requests!KeptCall(msgs, i, j)
<1> DEFINE Results == {l \in DOMAIN msgs : /\ msgs[l].role = "tool" /\ msgs[l].id = Requests!Calls(msgs, i)[j]
                                           /\ Requests!DeclaredBefore(msgs, l)}
<1>1. Results \subseteq Nat
  BY PlacesNat
<1>2. k \in Results
  <2>1. j \in DOMAIN Requests!Calls(msgs, i) /\ i <= k
    BY PlacesNat DEF Requests!Declares
  <2> QED
    BY <2>1 DEF Requests!DeclaredBefore
<1>3. PICK first \in Results : \A l \in Results : first <= l
  BY <1>1, <1>2, Smallest
<1>4. Requests!Answer(msgs, first)
  BY <1>3 DEF Requests!Answer
<1> QED
  BY <1>3, <1>4 DEF Requests!KeptCall

-----------------------------------------------------------------------------
(* Sequences of events of some types. *)

\* q is a sequence of things whose type is one of T; their other fields do not
\* matter to how a reply ends.
Made(q, T) == \E S : q \in Seq(S) /\ \A e \in S : e.type \in T

LEMMA MadeEmpty ==
    ASSUME NEW T
    PROVE  Made(<<>>, T)
<1> DEFINE S == {}
           q == <<>>
<1>1. q \in Seq(S)
  OBVIOUS
<1>2. \A x \in S : x.type \in T
  OBVIOUS
<1>3. Made(q, T)
  <2> HIDE DEF S, q
  <2> QED
    BY <1>1, <1>2 DEF Made
<1> QED
  BY <1>3

LEMMA MadeOne ==
    ASSUME NEW T, NEW e, e.type \in T
    PROVE  Made(<<e>>, T)
<1> DEFINE S == {e}
           q == <<e>>
<1>1. q \in Seq(S)
  OBVIOUS
<1>2. \A x \in S : x.type \in T
  OBVIOUS
<1>3. Made(q, T)
  <2> HIDE DEF S, q
  <2> QED
    BY <1>1, <1>2 DEF Made
<1> QED
  BY <1>3

LEMMA MadeTwo ==
    ASSUME NEW T, NEW d, NEW e, d.type \in T, e.type \in T
    PROVE  Made(<<d, e>>, T)
<1> DEFINE S == {d, e}
           q == <<d, e>>
<1>1. q \in Seq(S)
  OBVIOUS
<1>2. \A x \in S : x.type \in T
  OBVIOUS
<1>3. Made(q, T)
  <2> HIDE DEF S, q
  <2> QED
    BY <1>1, <1>2 DEF Made
<1> QED
  BY <1>3

\* Sequences that are made of T stay so when they are joined or appended to,
\* when a part of them is taken, and when T grows.
LEMMA MadeJoin ==
    ASSUME NEW T, NEW x, NEW y, Made(x, T), Made(y, T)
    PROVE  Made(x \o y, T)
<1>1. PICK S : x \in Seq(S) /\ \A e \in S : e.type \in T
  BY DEF Made
<1>2. PICK R : y \in Seq(R) /\ \A e \in R : e.type \in T
  BY DEF Made
<1>3. x \o y \in Seq(S \cup R)
  BY <1>1, <1>2
<1>4. \A e \in S \cup R : e.type \in T
  BY <1>1, <1>2
<1> QED
  BY <1>3, <1>4 DEF Made

LEMMA MadeAppend ==
    ASSUME NEW T, NEW x, NEW e, Made(x, T), e.type \in T
    PROVE  Made(Append(x, e), T)
<1>1. PICK S : x \in Seq(S) /\ \A d \in S : d.type \in T
  BY DEF Made
<1>2. Append(x, e) \in Seq(S \cup {e})
  BY <1>1
<1>3. \A d \in S \cup {e} : d.type \in T
  BY <1>1
<1> QED
  BY <1>2, <1>3 DEF Made

LEMMA MadeOnly ==
    ASSUME NEW T, NEW b, NEW x, Made(x, T)
    PROVE  Made(API!Only(b, x), T)
  BY MadeEmpty DEF API!Only

LEMMA MadeMore ==
    ASSUME NEW T, NEW U, T \subseteq U, NEW x, Made(x, T)
    PROVE  Made(x, U)
<1>1. PICK S : x \in Seq(S) /\ \A d \in S : d.type \in T
  BY DEF Made
<1>2. \A d \in S : d.type \in U
  BY <1>1
<1> QED
  BY <1>1, <1>2 DEF Made

LEMMA MadeAt ==
    ASSUME NEW T, NEW x, Made(x, T)
    PROVE  /\ Len(x) \in Nat /\ DOMAIN x = 1..Len(x)
           /\ \A p \in 1..Len(x) : x[p].type \in T
           /\ x # <<>> => /\ Len(x) # 0 /\ Head(x) = x[1] /\ Made(Tail(x), T)
                          /\ Len(Tail(x)) = Len(x) - 1
                          /\ \A p \in 1..(Len(x) - 1) : Tail(x)[p] = x[p + 1]
<1>1. PICK S : x \in Seq(S) /\ \A d \in S : d.type \in T
  BY DEF Made
<1>2. x # <<>> => Tail(x) \in Seq(S)
  BY <1>1
<1>3. x # <<>> => Made(Tail(x), T)
  BY <1>1, <1>2 DEF Made
<1>4. Len(x) \in Nat /\ DOMAIN x = 1..Len(x) /\ \A p \in 1..Len(x) : x[p] \in S
  BY <1>1
<1>5. x # <<>> => /\ Len(x) # 0 /\ Head(x) = x[1] /\ Len(Tail(x)) = Len(x) - 1
                  /\ \A p \in 1..(Len(x) - 1) : Tail(x)[p] = x[p + 1]
  BY <1>1
<1> QED
  BY <1>1, <1>3, <1>4, <1>5

-----------------------------------------------------------------------------
(* The joined sequence of FlattenSeq, a recursive function of the community   *)
(* modules: it exists, and it is made of what its parts are made of.          *)

\* A recursive function on the first numbers that joins sequences.
Joins(ss, f, n) ==
    f = [i \in 1..n |-> IF i = 1 THEN ss[i] ELSE f[i - 1] \o ss[i]]

\* The recursive function in FlattenSeq exists: of the lengths for which it
\* would not, the least is one more than a length for which it does.
LEMMA JoinExists ==
    ASSUME NEW ss, NEW n \in Nat
    PROVE  \E f : Joins(ss, f, n)
<1> DEFINE Bad == {m \in Nat : ~\E f : Joins(ss, f, m)}
<1> SUFFICES ASSUME Bad # {} PROVE FALSE
  OBVIOUS
<1>1. PICK m \in Bad : \A k \in Bad : m <= k
  BY Smallest
<1>2. m # 0
  <2> DEFINE g == [i \in 1..0 |-> 0]
  <2>1. Joins(ss, g, 0)
    BY DEF Joins
  <2> QED
    BY <2>1, <1>1
<1>3. m - 1 \in Nat /\ m - 1 \notin Bad
  BY <1>1, <1>2
<1>4. PICK f : Joins(ss, f, m - 1)
  BY <1>3
<1> DEFINE g == [i \in 1..m |-> IF i = m THEN (IF i = 1 THEN ss[i] ELSE f[i - 1] \o ss[i]) ELSE f[i]]
<1>5. \A i \in 1..m : g[i] = IF i = 1 THEN ss[i] ELSE g[i - 1] \o ss[i]
  <2> TAKE i \in 1..m
  <2>0. i # m => i \in 1..(m - 1)
    BY <1>3
  <2>1. i # m => f[i] = IF i = 1 THEN ss[i] ELSE f[i - 1] \o ss[i]
    BY <1>4, <2>0 DEF Joins
  <2>2. i # 1 => i - 1 \in 1..m /\ i - 1 # m
    OBVIOUS
  <2>3. i # 1 => g[i - 1] = f[i - 1]
    BY <2>2
  <2> QED
    BY <2>1, <2>3
<1>6. Joins(ss, g, m)
  BY <1>5 DEF Joins
<1> QED
  BY <1>1, <1>6

LEMMA JoinsUnfold ==
    ASSUME NEW ss, NEW f, NEW n \in Nat, Joins(ss, f, n), NEW i \in 1..n
    PROVE  f[i] = IF i = 1 THEN ss[i] ELSE f[i - 1] \o ss[i]
  BY DEF Joins

LEMMA FlattenIn ==
    ASSUME NEW S, NEW ss, Len(ss) \in Nat, \A i \in 1..Len(ss) : ss[i] \in Seq(S),
           Len(ss) = 0 => ss = <<>>
    PROVE  FlattenSeq(ss) \in Seq(S)
<1> DEFINE n == Len(ss)
           f == CHOOSE g : Joins(ss, g, n)
           Bad == {m \in Nat : m \in 1..n /\ f[m] \notin Seq(S)}
<1>1. CASE n = 0
  BY <1>1 DEF FlattenSeq
<1>2. CASE n # 0
  <2>1. FlattenSeq(ss) = f[n]
    BY <1>2 DEF FlattenSeq, Joins
  <2>2. Joins(ss, f, n)
    BY JoinExists
  <2>3. Bad = {}
    <3> SUFFICES ASSUME Bad # {} PROVE FALSE
      OBVIOUS
    <3>1. PICK m \in Bad : \A k \in Bad : m <= k
      BY Smallest
    <3>2. f[m] = IF m = 1 THEN ss[m] ELSE f[m - 1] \o ss[m]
      BY <2>2, <3>1, JoinsUnfold
    <3>3. CASE m = 1
      BY <3>1, <3>2, <3>3
    <3>4. CASE m # 1
      <4>1. m - 1 \in Nat /\ m - 1 \in 1..n /\ m - 1 \notin Bad
        BY <3>1, <3>4
      <4>2. f[m - 1] \in Seq(S) /\ ss[m] \in Seq(S)
        BY <3>1, <4>1
      <4>3. f[m - 1] \o ss[m] \in Seq(S)
        BY <4>2
      <4> QED
        BY <3>1, <3>2, <3>4, <4>3
    <3> QED
      BY <3>3, <3>4
  <2>4. n \in 1..n
    BY <1>2
  <2> QED
    BY <2>1, <2>3, <2>4
<1> QED
  BY <1>1, <1>2

\* What is flattened from sequences made of T is made of T.
LEMMA FlattenMade ==
    ASSUME NEW T, NEW ss, Len(ss) \in Nat, \A i \in 1..Len(ss) : Made(ss[i], T),
           Len(ss) = 0 => ss = <<>>
    PROVE  Made(FlattenSeq(ss), T)
<1> DEFINE R(i) == CHOOSE S : ss[i] \in Seq(S) /\ \A e \in S : e.type \in T
           U == UNION {R(i) : i \in 1..Len(ss)}
<1>1. \A i \in 1..Len(ss) : ss[i] \in Seq(R(i)) /\ \A e \in R(i) : e.type \in T
  BY DEF Made
<1> HIDE DEF R
<1>2. \A i \in 1..Len(ss) : R(i) \subseteq U
  OBVIOUS
<1>3. \A i \in 1..Len(ss) : ss[i] \in Seq(U)
  <2> SUFFICES ASSUME NEW i \in 1..Len(ss) PROVE ss[i] \in Seq(U)
    OBVIOUS
  <2> HIDE DEF U
  <2> QED
    BY <1>1, <1>2
<1>4. \A e \in U : e.type \in T
  BY <1>1
<1> HIDE DEF U
<1>5. FlattenSeq(ss) \in Seq(U)
  BY <1>3, FlattenIn
<1> QED
  BY <1>4, <1>5 DEF Made

-----------------------------------------------------------------------------
(* The folds of the adapters: over the parts of a candidate, the characters  *)
(* of a chunk and the events of the stripper.                                *)

\* What the think-tag stripper and SyncBlockState emit.
Stripped == {"block", "content"}

\* SyncBlockState's step.
Sync(s, e) ==
    IF e.type = "block" THEN [s EXCEPT !.thinking = TRUE, !.out = Append(@, e)]
    ELSE IF e.kind = "text"
         THEN [s EXCEPT !.text = TRUE, !.out = @ \o Completions!Announce(s.text, "text") \o <<e>>]
    ELSE [s EXCEPT !.out = Append(@, e)]

\* The step of WireMessages.
Wired(sent, m, toBamboo) ==
    IF m.role # "tool"
    THEN Append(sent, [role |-> m.role, blocks |-> Requests!MessageBlocks(m, toBamboo)])
    ELSE IF Requests!MergesResult(sent)
    THEN [sent EXCEPT ![Len(sent)].blocks = Append(@, Requests!Block("tool_result", m.id))]
    ELSE Append(sent, [role |-> "user", blocks |-> <<Requests!Block("tool_result", m.id)>>])

\* The step of MergeConsecutiveTurns.
Merging(merged, turn) ==
    IF /\ merged # <<>> /\ Requests!Last(merged).role = turn.role
       /\ ~Requests!HasFunctionPart(Requests!Last(merged)) /\ ~Requests!HasFunctionPart(turn)
    THEN [merged EXCEPT ![Len(merged)].parts = @ \o turn.parts]
    ELSE Append(merged, turn)

\* The steps that are folded with.
Step(fold, s, e) ==
    CASE fold = "part" -> Gemini!HandlePart(s, e)
      [] fold = "scan" -> Completions!Scan(s, e)
      [] fold = "anthropic" -> Wired(s, e, FALSE)
      [] fold = "bamboo" -> Wired(s, e, TRUE)
      [] fold = "turns" -> Merging(s, e)
      [] OTHER -> Sync(s, e)

\* The events an adapter sends between its start and its end.
Middle == {"stop", "usage", "block", "content", "signature", "tool", "fragment", "redacted",
           "blockstop", "metadata"}

\* Those that are no usage; and whether a usage is among the events of q.
Unbilled == Middle \ {"usage"}
Reports(q) == \E p \in 1..Len(q) : q[p].type = "usage"

LEMMA ReportsNot ==
    ASSUME NEW T, "usage" \notin T, NEW x, Made(x, T)
    PROVE  ~Reports(x)
<1>1. \A p \in 1..Len(x) : x[p].type \in T
  BY MadeAt
<1> QED
  BY <1>1 DEF Reports

LEMMA ReportsNone == ~Reports(<<>>)
<1>1. Made(<<>>, {})
  BY MadeEmpty
<1> QED
  BY <1>1, ReportsNot

LEMMA ReportsOne ==
    ASSUME NEW e
    PROVE  Reports(<<e>>) <=> e.type = "usage"
<1> DEFINE q == <<e>>
<1>1. Len(q) = 1 /\ q[1] = e
  OBVIOUS
<1>2. 1..1 = {1}
  OBVIOUS
<1> HIDE DEF q
<1>3. Reports(q) <=> e.type = "usage"
  BY <1>1, <1>2 DEF Reports
<1> QED
  BY <1>3 DEF q

\* A sequence reports what one of its parts does.
LEMMA ReportsJoin ==
    ASSUME NEW T, NEW U, NEW x, NEW y, Made(x, T), Made(y, U)
    PROVE  Reports(x \o y) <=> Reports(x) \/ Reports(y)
<1>1. PICK S : x \in Seq(S) /\ \A e \in S : e.type \in T
  BY DEF Made
<1>2. PICK R : y \in Seq(R) /\ \A e \in R : e.type \in U
  BY DEF Made
<1>3. /\ Len(x) \in Nat /\ Len(y) \in Nat /\ Len(x \o y) = Len(x) + Len(y)
      /\ \A p \in 1..Len(x) : (x \o y)[p] = x[p]
      /\ \A p \in 1..Len(y) : (x \o y)[Len(x) + p] = y[p]
  BY <1>1, <1>2
<1>4. \A p \in 1..(Len(x) + Len(y)) :
          p \in 1..Len(x) \/ (p - Len(x) \in 1..Len(y) /\ p = Len(x) + (p - Len(x)))
  BY <1>3
<1>5. \A p \in 1..Len(x) : p \in 1..Len(x \o y)
  BY <1>3
<1>6. \A p \in 1..Len(y) : Len(x) + p \in 1..Len(x \o y)
  BY <1>3
<1>7. ASSUME Reports(x \o y) PROVE Reports(x) \/ Reports(y)
  <2>1. PICK p \in 1..(Len(x) + Len(y)) : (x \o y)[p].type = "usage"
    BY <1>3, <1>7 DEF Reports
  <2>2. p \in 1..Len(x) => Reports(x)
    BY <1>3, <2>1 DEF Reports
  <2>3. p - Len(x) \in 1..Len(y) /\ p = Len(x) + (p - Len(x)) => Reports(y)
    BY <1>3, <2>1 DEF Reports
  <2> QED
    BY <1>4, <2>1, <2>2, <2>3
<1>8. Reports(x) => Reports(x \o y)
  BY <1>3, <1>5 DEF Reports
<1>9. Reports(y) => Reports(x \o y)
  BY <1>3, <1>6 DEF Reports
<1> QED
  BY <1>7, <1>8, <1>9

\* A user message of results has nothing else, and none of them follows another.
BeginsWithResult(m) == m.blocks[1].type = "tool_result"
Uniform(m) ==
    /\ "blocks" \in DOMAIN m /\ (\E S : m.blocks \in Seq(S)) /\ 1 \in 1..Len(m.blocks)
    /\ \A b \in 1..Len(m.blocks) : m.blocks[b].type = "tool_result" <=> BeginsWithResult(m)
    /\ BeginsWithResult(m) => m.role = "user"
Together(sent) ==
    /\ \E S : sent \in Seq(S)
    /\ \A p \in 1..Len(sent) : Uniform(sent[p])
    /\ \A p \in 1..Len(sent) : p > 1 /\ BeginsWithResult(sent[p]) => ~BeginsWithResult(sent[p - 1])

\* What each step keeps: a Gemini chunk has started its adapter, and what is
\* collected is made of the middle's events, but no usage; results are together.
Kept(fold, s) ==
    CASE fold = "part" -> "start" \in DOMAIN s.a /\ s.a.start = TRUE /\ Made(s.out, Unbilled)
      [] fold \in {"anthropic", "bamboo"} -> Together(s)
      [] OTHER -> "out" \in DOMAIN s /\ Made(s.out, Stripped)

\* f holds the values of the fold over every set of places of q up to m, as the
\* recursion in FoldLeft computes them.
Folds(fold, base, q, m, f) ==
    f = [s \in SUBSET (1..m) |->
            IF s = {} THEN base ELSE Step(fold, f[s \ {Max(s)}], q[Max(s)])]

LEMMA MaxIs ==
    ASSUME NEW m \in Nat, NEW s \in SUBSET (1..m), m \in s
    PROVE  Max(s) = m
<1>1. \A x \in s : m >= x
  OBVIOUS
<1>2. \A x \in s : (\A y \in s : x >= y) => x = m
  OBVIOUS
<1> QED
  BY <1>1, <1>2 DEF Max

\* Such an f exists for every length.
LEMMA FoldExists ==
    ASSUME NEW fold, NEW base, NEW q, NEW n \in Nat
    PROVE  \E f : Folds(fold, base, q, n, f)
<1> DEFINE Bad == {m \in Nat : ~\E f : Folds(fold, base, q, m, f)}
<1> SUFFICES ASSUME Bad # {} PROVE FALSE
  OBVIOUS
<1>1. PICK m \in Bad : \A k \in Bad : m <= k
  BY Smallest
<1>2. m # 0
  <2> DEFINE g == [s \in SUBSET (1..0) |-> base]
  <2>1. \A s \in SUBSET (1..0) : s = {}
    OBVIOUS
  <2>2. Folds(fold, base, q, 0, g)
    BY <2>1 DEF Folds
  <2> QED
    BY <2>2, <1>1
<1>3. m - 1 \in Nat /\ m - 1 \notin Bad
  BY <1>1, <1>2
<1>4. PICK f : Folds(fold, base, q, m - 1, f)
  BY <1>3
<1> DEFINE g == [s \in SUBSET (1..m) |-> IF m \in s THEN Step(fold, f[s \ {m}], q[m]) ELSE f[s]]
<1>5. \A s \in SUBSET (1..m) :
          g[s] = IF s = {} THEN base ELSE Step(fold, g[s \ {Max(s)}], q[Max(s)])
  <2> TAKE s \in SUBSET (1..m)
  <2>1. CASE m \in s
    <3>1. s \ {m} \in SUBSET (1..m) /\ m \notin s \ {m}
      OBVIOUS
    <3>2. g[s \ {m}] = f[s \ {m}]
      BY <3>1
    <3>3. Max(s) = m
      BY <2>1, MaxIs
    <3> QED
      BY <2>1, <3>2, <3>3
  <2>2. CASE m \notin s
    <3> DEFINE t == s \ {Max(s)}
    <3>1. s \in SUBSET (1..(m - 1)) /\ t \in SUBSET (1..m) /\ m \notin t
      <4>1. \A x \in s : x \in 1..(m - 1)
        BY <2>2, <1>3
      <4>2. t \subseteq s
        OBVIOUS
      <4> QED
        BY <4>1, <4>2, <2>2
    <3>2. g[s] = f[s] /\ g[t] = f[t]
      BY <2>2, <3>1
    <3>3. f[s] = IF s = {} THEN base ELSE Step(fold, f[t], q[Max(s)])
      BY <1>3, <1>4, <3>1 DEF Folds
    <3> QED
      BY <3>2, <3>3
  <2> QED
    BY <2>1, <2>2
<1>6. Folds(fold, base, q, m, g)
  BY <1>5 DEF Folds
<1> QED
  BY <1>1, <1>6

\* What a step keeps a fold of any length keeps.
LEMMA FoldKeeps ==
    ASSUME NEW fold, NEW base, NEW S, NEW q \in Seq(S), Kept(fold, base),
           \A s, e : Kept(fold, s) /\ e \in S => Kept(fold, Step(fold, s, e)),
           NEW f, Folds(fold, base, q, Len(q), f)
    PROVE  Kept(fold, f[1..Len(q)])
<1> DEFINE n == Len(q)
           Bad == {m \in Nat : m \in 0..n /\ ~Kept(fold, f[1..m])}
<1>0. n \in Nat
  OBVIOUS
<1>a. \A s \in SUBSET (1..n) :
          f[s] = IF s = {} THEN base ELSE Step(fold, f[s \ {Max(s)}], q[Max(s)])
  BY <1>0 DEF Folds
<1>1. Bad = {}
  <2> SUFFICES ASSUME Bad # {} PROVE FALSE
    OBVIOUS
  <2>1. PICK m \in Bad : \A k \in Bad : m <= k
    BY Smallest
  <2>2. 1..m \in SUBSET (1..n)
    BY <2>1, <1>0
  <2>3. CASE m = 0
    <3>1. 1..m = {}
      BY <2>3
    <3> QED
      BY <1>a, <2>1, <2>2, <3>1
  <2>4. CASE m # 0
    <3>1. m \in 1..m /\ Max(1..m) = m
      <4>1. 1..m \in SUBSET (1..m) /\ m \in 1..m
        BY <2>1, <2>4
      <4> QED
        BY <4>1, <2>1, MaxIs
    <3>2. (1..m) \ {m} = 1..(m - 1)
      BY <2>1, <2>4
    <3>3. f[1..m] = Step(fold, f[1..(m - 1)], q[m])
      BY <1>a, <2>2, <3>1, <3>2
    <3>4. m - 1 \in Nat /\ m - 1 \in 0..n /\ m - 1 \notin Bad
      BY <2>1, <2>4
    <3>5. Kept(fold, f[1..(m - 1)]) /\ q[m] \in S
      BY <3>4, <2>1, <2>4
    <3> QED
      BY <2>1, <3>3, <3>5
  <2> QED
    BY <2>3, <2>4
<1> QED
  BY <1>0, <1>1

\* The folds of the adapters are values of such an f.
LEMMA PartsFold ==
    ASSUME NEW base, NEW S, NEW q \in Seq(S)
    PROVE  \E f : /\ Folds("part", base, q, Len(q), f)
                  /\ Gemini!FoldLeft(Gemini!HandlePart, base, q) = f[1..Len(q)]
<1> DEFINE Is(f) == f = [s \in SUBSET DOMAIN q |->
                            IF s = {} THEN base
                            ELSE Gemini!HandlePart(f[s \ {Max(s)}], q[Max(s)])]
<1>1. DOMAIN q = 1..Len(q)
  OBVIOUS
<1>2. \A f : Is(f) <=> Folds("part", base, q, Len(q), f)
  BY <1>1 DEF Folds, Step
<1>3. \E f : Is(f)
  <2>1. Len(q) \in Nat
    OBVIOUS
  <2>2. \E f : Folds("part", base, q, Len(q), f)
    BY <2>1, FoldExists
  <2> QED
    BY <2>2, <1>2
<1>4. Gemini!FoldLeft(Gemini!HandlePart, base, q) = (CHOOSE f : Is(f))[DOMAIN q]
  BY DEF Gemini!FoldLeft, Gemini!MapThenFoldSet, Gemini!Max, Max
<1>5. Is(CHOOSE f : Is(f))
  BY <1>3
<1> QED
  BY <1>1, <1>2, <1>4, <1>5

LEMMA ScansFold ==
    ASSUME NEW base, NEW S, NEW q \in Seq(S)
    PROVE  \E f : /\ Folds("scan", base, q, Len(q), f)
                  /\ Completions!FoldLeft(Completions!Scan, base, q) = f[1..Len(q)]
<1> DEFINE Is(f) == f = [s \in SUBSET DOMAIN q |->
                            IF s = {} THEN base
                            ELSE Completions!Scan(f[s \ {Max(s)}], q[Max(s)])]
<1>1. DOMAIN q = 1..Len(q)
  OBVIOUS
<1>2. \A f : Is(f) <=> Folds("scan", base, q, Len(q), f)
  BY <1>1 DEF Folds, Step
<1>3. \E f : Is(f)
  <2>1. Len(q) \in Nat
    OBVIOUS
  <2>2. \E f : Folds("scan", base, q, Len(q), f)
    BY <2>1, FoldExists
  <2> QED
    BY <2>2, <1>2
<1>4. Completions!FoldLeft(Completions!Scan, base, q) = (CHOOSE f : Is(f))[DOMAIN q]
  BY DEF Completions!FoldLeft, Completions!MapThenFoldSet, Completions!Max, Max
<1>5. Is(CHOOSE f : Is(f))
  BY <1>3
<1> QED
  BY <1>1, <1>2, <1>4, <1>5

\* What SyncBlockState starts with.
Unsynced(s) == [text |-> s.text, thinking |-> s.thinking, out |-> <<>>]

LEMMA SyncsFold ==
    ASSUME NEW s, NEW S, NEW q \in Seq(S)
    PROVE  \E f : /\ Folds("sync", Unsynced(s), q, Len(q), f)
                  /\ Completions!SyncBlockState(s, q) = f[1..Len(q)]
<1> DEFINE Is(f) == f = [t \in SUBSET DOMAIN q |->
                            IF t = {} THEN Unsynced(s) ELSE Sync(f[t \ {Max(t)}], q[Max(t)])]
<1>1. DOMAIN q = 1..Len(q)
  OBVIOUS
<1>2. \A f : Is(f) <=> Folds("sync", Unsynced(s), q, Len(q), f)
  BY <1>1 DEF Folds, Step
<1>3. \E f : Is(f)
  <2>1. Len(q) \in Nat
    OBVIOUS
  <2>2. \E f : Folds("sync", Unsynced(s), q, Len(q), f)
    BY <2>1, FoldExists
  <2> QED
    BY <2>2, <1>2
<1>4. Completions!SyncBlockState(s, q) = (CHOOSE f : Is(f))[DOMAIN q]
  BY DEF Completions!SyncBlockState, Completions!FoldLeft, Completions!MapThenFoldSet,
         Completions!Max, Max, Sync, Unsynced
<1>5. Is(CHOOSE f : Is(f))
  BY <1>3
<1> QED
  BY <1>1, <1>2, <1>4, <1>5

LEMMA ScanKeeps ==
    ASSUME NEW s, NEW c, Kept("scan", s)
    PROVE  Kept("scan", Completions!Scan(s, c))
<1>1. \A b, x : Completions!Released(b, x).type \in Stripped
  BY DEF Completions!Released, Completions!ThinkingOf, Completions!TextOf, Completions!PEvent, Stripped
<1>2. Completions!BlockOf("thinking").type \in Stripped
  BY DEF Completions!BlockOf, Completions!PEvent, Stripped
<1>3. ASSUME NEW t, Kept("scan", t)
      PROVE  Kept("scan", Completions!FlushPending(t))
  <2>1. Made(Append(t.out, Completions!Released(t.thinking, t.pending)), Stripped)
    BY <1>1, <1>3, MadeAppend DEF Kept
  <2> QED
    BY <1>3, <2>1 DEF Kept, Completions!FlushPending
<1>4. ASSUME NEW t, Kept("scan", t)
      PROVE  Kept("scan", Completions!EnterThinking(t))
  <2> DEFINE u == Completions!FlushPending(t)
  <2>1. Kept("scan", u)
    BY <1>3, <1>4
  <2>2. Made(Append(u.out, Completions!BlockOf("thinking")), Stripped)
    BY <1>2, <2>1, MadeAppend DEF Kept
  <2> QED
    BY <2>1, <2>2 DEF Kept, Completions!EnterThinking
<1>5. \A b : Kept("scan", Completions!Candidate(s, b))
  <2> TAKE b
  <2>1. Kept("scan", Completions!LeaveThinking(s))
    BY DEF Kept, Completions!LeaveThinking
  <2>2. Kept("scan", Completions!GiveUp(s, b))
    BY DEF Kept, Completions!GiveUp
  <2>3. Kept("scan", [s EXCEPT !.buf = b])
    BY DEF Kept
  <2> QED
    BY <1>4, <2>1, <2>2, <2>3 DEF Completions!Candidate
<1>6. Kept("scan", [Completions!FlushPending(s) EXCEPT !.buf = <<c>>])
  BY <1>3 DEF Kept
<1>7. Kept("scan", [s EXCEPT !.pending = Append(@, c)])
  BY DEF Kept
<1> QED
  BY <1>5, <1>6, <1>7 DEF Completions!Scan

LEMMA SyncKeeps ==
    ASSUME NEW s, NEW e, Kept("sync", s), e.type \in Stripped
    PROVE  Kept("sync", Sync(s, e))
<1>1. Made(Append(s.out, e), Stripped)
  BY MadeAppend DEF Kept
<1>2. Made(s.out \o Completions!Announce(s.text, "text") \o <<e>>, Stripped)
  <2>1. Completions!BlockOf("text").type \in Stripped
    BY DEF Completions!BlockOf, Completions!PEvent, Stripped
  <2>2. Made(<<Completions!BlockOf("text")>>, Stripped)
    BY <2>1, MadeOne
  <2>3. Made(Completions!Announce(s.text, "text"), Stripped)
    BY <2>2, MadeEmpty DEF Completions!Announce, Completions!Only
  <2>4. Made(<<e>>, Stripped)
    BY MadeOne
  <2>5. Made(s.out \o Completions!Announce(s.text, "text"), Stripped)
    BY <2>3, MadeJoin DEF Kept
  <2> QED
    BY <2>4, <2>5, MadeJoin
<1> QED
  BY <1>1, <1>2 DEF Kept, Sync

\* Whatever the characters of a chunk, the stripper emits text and thinking
\* only.
LEMMA ProcessMade ==
    ASSUME NEW s, NEW S, NEW chunk \in Seq(S)
    PROVE  Made(Completions!Process(s, chunk).out, Stripped)
<1> DEFINE base == [thinking |-> s.thinking, buf |-> s.buf, pending |-> <<>>, out |-> <<>>]
           folded == Completions!FoldLeft(Completions!Scan, base, chunk)
<1>1. Kept("scan", base)
  BY MadeEmpty DEF Kept
<1>2. \A t, e : Kept("scan", t) /\ e \in S => Kept("scan", Step("scan", t, e))
  BY ScanKeeps DEF Step
<1>3. PICK f : Folds("scan", base, chunk, Len(chunk), f) /\ folded = f[1..Len(chunk)]
  BY ScansFold
<1> HIDE DEF base, folded
<1>4. Kept("scan", folded)
  BY <1>1, <1>2, <1>3, FoldKeeps
<1>5. Kept("scan", Completions!FlushPending(folded))
  <2>1. \A b, x : Completions!Released(b, x).type \in Stripped
    BY DEF Completions!Released, Completions!ThinkingOf, Completions!TextOf, Completions!PEvent, Stripped
  <2>2. Made(Append(folded.out, Completions!Released(folded.thinking, folded.pending)), Stripped)
    BY <1>4, <2>1, MadeAppend DEF Kept
  <2> QED
    BY <1>4, <2>2 DEF Kept, Completions!FlushPending
<1> QED
  BY <1>5 DEF Kept, Completions!Process, folded, base

\* SyncBlockState adds to that the blocks it starts.
LEMMA SyncMade ==
    ASSUME NEW s, NEW stripped, Made(stripped, Stripped)
    PROVE  Made(Completions!SyncBlockState(s, stripped).out, Stripped)
<1>1. PICK S : stripped \in Seq(S) /\ \A e \in S : e.type \in Stripped
  BY DEF Made
<1>2. Kept("sync", Unsynced(s))
  BY MadeEmpty DEF Kept, Unsynced
<1>3. \A t, e : Kept("sync", t) /\ e \in S => Kept("sync", Step("sync", t, e))
  BY <1>1, SyncKeeps DEF Step
<1>4. PICK f : /\ Folds("sync", Unsynced(s), stripped, Len(stripped), f)
               /\ Completions!SyncBlockState(s, stripped) = f[1..Len(stripped)]
  BY <1>1, SyncsFold
<1>5. Kept("sync", f[1..Len(stripped)])
  BY <1>1, <1>2, <1>3, <1>4, FoldKeeps
<1> QED
  BY <1>4, <1>5 DEF Kept

LEMMA FlushMade ==
    ASSUME NEW s
    PROVE  Made(Completions!FlushStripper(s), Stripped)
<1>1. Completions!Released(s.thinking, s.buf).type \in Stripped
  BY DEF Completions!Released, Completions!ThinkingOf, Completions!TextOf, Completions!PEvent, Stripped
<1>2. Made(<<Completions!Released(s.thinking, s.buf)>>, Stripped)
  BY <1>1, MadeOne
<1> QED
  BY <1>2, MadeEmpty DEF Completions!FlushStripper, Completions!Only

LEMMA PartKeeps ==
    ASSUME NEW s, NEW part, Kept("part", s)
    PROVE  Kept("part", Gemini!HandlePart(s, part))
<1> DEFINE id == Gemini!NextID(s.a.used, part.id)
           Block(k) == Gemini!BlockOf(k)
<1>1. \A k : Made(<<Gemini!BlockOf(k)>>, Unbilled)
  <2>1. \A k : Gemini!BlockOf(k).type \in Unbilled
    BY DEF Gemini!BlockOf, Gemini!PEvent, Middle, Unbilled
  <2> QED
    BY <2>1, MadeOne
<1>2. \A x : Made(<<Gemini!ThinkingOf(x)>>, Unbilled) /\ Made(<<Gemini!TextOf(x)>>, Unbilled)
  <2>1. \A x : Gemini!ThinkingOf(x).type \in Unbilled /\ Gemini!TextOf(x).type \in Unbilled
    BY DEF Gemini!ThinkingOf, Gemini!TextOf, Gemini!PEvent, Middle, Unbilled
  <2> QED
    BY <2>1, MadeOne
<1>3. Made(<<Gemini!SignatureEvent>>, Unbilled)
  <2>1. Gemini!SignatureEvent.type \in Unbilled
    BY DEF Gemini!SignatureEvent, Gemini!Plain, Gemini!PEvent, Middle, Unbilled
  <2> QED
    BY <2>1, MadeOne
<1>4. Made(<<Gemini!ToolCall(id, NoIndex), Gemini!Fragment(id, NoIndex, <<"whole">>)>>, Unbilled)
  <2>1. /\ Gemini!ToolCall(id, NoIndex).type \in Unbilled
        /\ Gemini!Fragment(id, NoIndex, <<"whole">>).type \in Unbilled
    BY DEF Gemini!ToolCall, Gemini!Fragment, Gemini!PEvent, Middle, Unbilled
  <2> QED
    BY <2>1, MadeTwo
<1>5. \A b, x : Made(x, Unbilled) => Made(Gemini!Only(b, x), Unbilled)
  BY MadeEmpty DEF Gemini!Only
<1>6. \A x, y : Made(x, Unbilled) /\ Made(y, Unbilled) => Made(x \o y, Unbilled)
  BY MadeJoin
<1>7. Made(s.out, Unbilled)
  BY DEF Kept
<1>8. Made(Gemini!HandlePart(s, part).out, Unbilled)
  BY <1>1, <1>2, <1>3, <1>4, <1>5, <1>6, <1>7, Zenon DEF Gemini!HandlePart
<1>9. "start" \in DOMAIN s.a /\ s.a.start = TRUE
  BY DEF Kept
<1>10. "start" \in DOMAIN Gemini!HandlePart(s, part).a /\ Gemini!HandlePart(s, part).a.start = TRUE
  BY <1>9 DEF Gemini!HandlePart
<1> QED
  BY <1>8, <1>10 DEF Kept

-----------------------------------------------------------------------------
(* The frames an upstream may send, and those the scanner keeps of them. *)

\* q is a sequence, of whatever.
IsSequence(q) == \E S : q \in Seq(S)

\* What an adapter takes apart of a frame is a sequence.
WholeChunk(f) == f.type \in {"error", "junk"} \/ (IsSequence(f.content) /\ IsSequence(f.calls))
WholeCandidate(f) == f.type \in {"error", "junk"} \/ IsSequence(f.parts)

\* What the adapter of kind k takes for a report of the usage.
Billed(k, f) ==
    CASE k \in CompletionsKinds \cup {"gemini"} -> f.type \notin {"error", "junk"} /\ f.usage
      [] k \in {"responses", "websocket"} ->
            f.type \in {"completed", "incomplete", "failed"} /\ f.usage
      [] OTHER -> \/ f.type = "message_start" /\ f.usage
                  \/ f.type = "message_delta" /\ f.usage = "inside"

\* The frame f has what the adapter of kind k takes apart, and the adapter looks
\* for a usage where the upstream tells one.
Legible(k, f) ==
    /\ k \in CompletionsKinds => WholeChunk(f)
    /\ k = "gemini" => WholeCandidate(f)
    /\ Billed(k, f) <=> TellsUsage(f)

LEMMA SequenceOfOne ==
    ASSUME NEW x
    PROVE  IsSequence(<<x>>)
<1> DEFINE S == {x}
           q == <<x>>
<1>1. q \in Seq(S)
  OBVIOUS
<1> HIDE DEF S, q
<1>2. IsSequence(q)
  BY <1>1 DEF IsSequence
<1> QED
  BY <1>2 DEF q

LEMMA SequenceOfTwo ==
    ASSUME NEW x, NEW y
    PROVE  IsSequence(<<x, y>>)
<1> DEFINE S == {x, y}
           q == <<x, y>>
<1>1. q \in Seq(S)
  OBVIOUS
<1> HIDE DEF S, q
<1>2. IsSequence(q)
  BY <1>1 DEF IsSequence
<1> QED
  BY <1>2 DEF q

LEMMA SequenceOfNone == IsSequence(<<>>)
<1> DEFINE S == {}
           q == <<>>
<1>1. q \in Seq(S)
  OBVIOUS
<1> HIDE DEF S, q
<1>2. IsSequence(q)
  BY <1>1 DEF IsSequence
<1> QED
  BY <1>2 DEF q

LEMMA SequenceOfThree ==
    ASSUME NEW x, NEW y, NEW z
    PROVE  IsSequence(<<x, y, z>>)
<1> DEFINE S == {x, y, z}
           q == <<x, y, z>>
<1>1. q \in Seq(S)
  OBVIOUS
<1> HIDE DEF S, q
<1>2. IsSequence(q)
  BY <1>1 DEF IsSequence
<1> QED
  BY <1>2 DEF q

\* The frames of an event of the body are some of its lines.
LEMMA FramesOfIn ==
    ASSUME NEW S, NEW lines \in Seq(S)
    PROVE  Body!FramesOf(lines) \in Seq({f \in S : Body!IsFrame(f)})
<1> DEFINE F == {f \in S : Body!IsFrame(f)}
           ss == [p \in DOMAIN lines |-> IF Body!IsFrame(lines[p]) THEN <<lines[p]>> ELSE <<>>]
<1>1. Len(ss) = Len(lines) /\ Len(ss) \in Nat /\ (Len(ss) = 0 => ss = <<>>)
  OBVIOUS
<1>2. \A i \in 1..Len(ss) : ss[i] \in Seq(F)
  <2> SUFFICES ASSUME NEW i \in 1..Len(lines) PROVE ss[i] \in Seq(F)
    BY <1>1
  <2>1. lines[i] \in S
    OBVIOUS
  <2>2. CASE Body!IsFrame(lines[i])
    <3>1. lines[i] \in F
      BY <2>1, <2>2
    <3> HIDE DEF F
    <3>2. <<lines[i]>> \in Seq(F)
      BY <3>1
    <3> QED
      BY <2>2, <3>2
  <2>3. CASE ~Body!IsFrame(lines[i])
    <3> HIDE DEF F
    <3> QED
      BY <2>3
  <2> QED
    BY <2>2, <2>3
<1>3. Body!FramesOf(lines) = FlattenSeq(ss)
  BY DEF Body!FramesOf, Body!FlattenSeq, FlattenSeq
<1> HIDE DEF ss, F
<1>4. FlattenSeq(ss) \in Seq(F)
  BY <1>1, <1>2, FlattenIn
<1> QED
  BY <1>3, <1>4 DEF F

LEMMA CompletionsFramesLegible ==
    ASSUME NEW k, NEW given, NEW f \in API!CompletionsFrames(k, given)
    PROVE  WholeChunk(f)
<1> DEFINE Empty == API!EmptyChunk
<1>1. IsSequence(Empty.content) /\ IsSequence(Empty.calls)
  BY SequenceOfNone DEF API!EmptyChunk, API!Nothing
<1>2. \A x : /\ [Empty EXCEPT !.content = x].content = x
             /\ [Empty EXCEPT !.content = x].calls = Empty.calls
             /\ [Empty EXCEPT !.calls = x].calls = x
             /\ [Empty EXCEPT !.calls = x].content = Empty.content
             /\ [Empty EXCEPT !.finish = x].calls = Empty.calls
             /\ [Empty EXCEPT !.finish = x].content = Empty.content
             /\ [Empty EXCEPT !.usage = x].calls = Empty.calls
             /\ [Empty EXCEPT !.usage = x].content = Empty.content
             /\ [Empty EXCEPT !.reasoning = x].calls = Empty.calls
             /\ [Empty EXCEPT !.reasoning = x].content = Empty.content
             /\ [Empty EXCEPT !.signature = x].calls = Empty.calls
             /\ [Empty EXCEPT !.signature = x].content = Empty.content
  BY DEF API!EmptyChunk
<1> HIDE DEF Empty
<1>3. \A s \in API!Snippets : IsSequence(s)
  BY SequenceOfOne, SequenceOfTwo, SequenceOfThree DEF API!Snippets
<1>4. IsSequence(API!NewPiece(given))
  BY SequenceOfOne DEF API!NewPiece
<1>5. \A c \in API!CallDeltas(k, given) : IsSequence(c)
  <2>1. \A c \in API!CallDeltas(k, given) : (\E x : c = <<x>>) \/ (\E x, y : c = <<x, y>>)
    BY SMT DEF API!CallDeltas
  <2> QED
    BY <2>1, SequenceOfOne, SequenceOfTwo
<1>6. \A x \in {[type |-> "error"], [type |-> "junk"]} : WholeChunk(x)
  BY DEF WholeChunk
<1>7. \A x : (\E s : IsSequence(s) /\ x = [Empty EXCEPT !.content = s]) => WholeChunk(x)
  BY <1>1, <1>2 DEF WholeChunk
<1>8. \A x : (\E s : IsSequence(s) /\ x = [Empty EXCEPT !.calls = s]) => WholeChunk(x)
  BY <1>1, <1>2 DEF WholeChunk
<1>9. \A x : (\E s : x = [Empty EXCEPT !.finish = s]) => WholeChunk(x)
  BY <1>1, <1>2 DEF WholeChunk
<1>10. \A x : WholeChunk([Empty EXCEPT !.usage = x])
  BY <1>1, <1>2 DEF WholeChunk
<1>11. \A x : WholeChunk([Empty EXCEPT !.reasoning = x]) /\ WholeChunk([Empty EXCEPT !.signature = x])
  BY <1>1, <1>2 DEF WholeChunk
<1> HIDE DEF Empty
<1>12. f \in API!CompletionsFrames(k, given)
  OBVIOUS
<1>13. \A s \in API!Snippets : WholeChunk([Empty EXCEPT !.content = s])
  BY <1>3, <1>7
<1>14. WholeChunk([Empty EXCEPT !.content = API!NewPiece(given)])
  BY <1>4, <1>7
<1>15. \A c \in {d \in API!CallDeltas(k, given) : API!Legal(given, d)} :
          WholeChunk([Empty EXCEPT !.calls = c])
  BY <1>5, <1>8
<1>16. \A r : WholeChunk([Empty EXCEPT !.finish = r])
  BY <1>9
<1> QED
  BY <1>6, <1>10, <1>11, <1>12, <1>13, <1>14, <1>15, <1>16, Zenon DEF API!CompletionsFrames, Empty

LEMMA GeminiFramesLegible ==
    ASSUME NEW given, NEW used, NEW f \in API!GeminiFrames(given, used)
    PROVE  WholeCandidate(f)
<1>1. \A x \in {[type |-> "error"], [type |-> "junk"]} : WholeCandidate(x)
  BY DEF WholeCandidate
<1>2. \A u, q, r : IsSequence(q) =>
          WholeCandidate([type |-> "candidate", usage |-> u, parts |-> q, finish |-> r])
  BY DEF WholeCandidate
<1>3. \A q \in API!CandidateParts(given, used) : IsSequence(q)
  BY SequenceOfNone, SequenceOfOne, SequenceOfTwo, Zenon DEF API!CandidateParts
<1>4. f \notin {[type |-> "error"], [type |-> "junk"]} =>
          \E u, r : \E q \in API!CandidateParts(given, used) :
              f = [type |-> "candidate", usage |-> u, parts |-> q, finish |-> r]
  BY DEF API!GeminiFrames
<1> QED
  BY <1>1, <1>2, <1>3, <1>4

\* A usage is where the adapter looks for it: in a chunk, ...
LEMMA ChunkBilled ==
    ASSUME NEW k \in CompletionsKinds \cup {"gemini"}, NEW f,
           \/ f \in {[type |-> "error"], [type |-> "junk"]}
           \/ f.type \in {"chunk", "candidate"} /\ "usage" \in DOMAIN f
    PROVE  Billed(k, f) <=> TellsUsage(f)
<1>1. f \in {[type |-> "error"], [type |-> "junk"]} =>
          f.type \in {"error", "junk"} /\ "usage" \notin DOMAIN f
  OBVIOUS
<1>2. Billed(k, f) <=> f.type \notin {"error", "junk"} /\ f.usage
  BY DEF Billed, CompletionsKinds
<1>3. CASE f \in {[type |-> "error"], [type |-> "junk"]}
  <2>1. f.type \in {"error", "junk"} /\ "usage" \notin DOMAIN f /\ f.type # "message_delta"
    BY <1>1, <1>3
  <2> QED
    BY <1>2, <2>1 DEF TellsUsage
<1>4. CASE f.type \in {"chunk", "candidate"} /\ "usage" \in DOMAIN f
  <2>1. f.type \notin {"error", "junk"} /\ f.type # "message_delta"
    BY <1>4
  <2> QED
    BY <1>2, <1>4, <2>1 DEF TellsUsage
<1> QED
  BY <1>3, <1>4

LEMMA CompletionsFramesBilled ==
    ASSUME NEW k \in CompletionsKinds, NEW kk, NEW given, NEW f \in API!CompletionsFrames(kk, given)
    PROVE  Billed(k, f) <=> TellsUsage(f)
<1> DEFINE Empty == API!EmptyChunk
           Chunk(x) == x.type \in {"chunk", "candidate"} /\ "usage" \in DOMAIN x
<1>1. \A x : /\ Chunk([Empty EXCEPT !.content = x]) /\ Chunk([Empty EXCEPT !.calls = x])
             /\ Chunk([Empty EXCEPT !.finish = x]) /\ Chunk([Empty EXCEPT !.usage = x])
             /\ Chunk([Empty EXCEPT !.reasoning = x]) /\ Chunk([Empty EXCEPT !.signature = x])
  BY DEF API!EmptyChunk
<1> HIDE DEF Chunk
<1>2. f \in {[type |-> "error"], [type |-> "junk"]} \/ Chunk(f)
  BY <1>1, Zenon DEF API!CompletionsFrames
<1> QED
  BY <1>2, ChunkBilled DEF Chunk

LEMMA GeminiFramesBilled ==
    ASSUME NEW given, NEW used, NEW f \in API!GeminiFrames(given, used)
    PROVE  Billed("gemini", f) <=> TellsUsage(f)
<1>1. \A u, q, r : LET x == [type |-> "candidate", usage |-> u, parts |-> q, finish |-> r]
                   IN  x.type = "candidate" /\ "usage" \in DOMAIN x
  OBVIOUS
<1>2. f \notin {[type |-> "error"], [type |-> "junk"]} =>
          \E u, r : \E q \in API!CandidateParts(given, used) :
              f = [type |-> "candidate", usage |-> u, parts |-> q, finish |-> r]
  BY DEF API!GeminiFrames
<1>3. f \notin {[type |-> "error"], [type |-> "junk"]} => f.type = "candidate" /\ "usage" \in DOMAIN f
  BY <1>1, <1>2
<1> QED
  BY <1>3, ChunkBilled

\* ... in the last event of a response, ...
LEMMA ResponsesFramesBilled ==
    ASSUME NEW k \in {"responses", "websocket"}, NEW given, NEW f \in API!ResponsesFrames(given)
    PROVE  Billed(k, f) <=> TellsUsage(f)
<1> DEFINE Final == {"completed", "incomplete", "failed"}
           Shape(x) == /\ x.type \in Final => "usage" \in DOMAIN x
                       /\ x.type \notin Final => "usage" \notin DOMAIN x
                       /\ x.type # "message_delta"
<1>1. \A t, u, c : t \in Final => Shape([type |-> t, usage |-> u, calls |-> c])
  OBVIOUS
<1>2. \A x : /\ Shape([type |-> "text", piece |-> x]) /\ Shape([type |-> "reasoning", piece |-> x])
             /\ Shape([type |-> "item_reasoning", encrypted |-> x])
             /\ Shape([type |-> "item_call", id |-> x])
             /\ \A y : Shape([type |-> "arguments", id |-> x, piece |-> y])
  OBVIOUS
<1>3. \A t \in {"created", "error", "junk", "summary_part", "reasoning_done"} : Shape([type |-> t])
  OBVIOUS
<1>4. {"completed", "incomplete", "failed"} = Final
  OBVIOUS
<1>5. Shape(f)
  <2> HIDE DEF Shape
  <2>1. \A t \in {"created", "error"} : Shape([type |-> t])
    BY <1>3
  <2>2. \A u, c : /\ Shape([type |-> "completed", usage |-> u, calls |-> c])
                  /\ Shape([type |-> "incomplete", usage |-> u, calls |-> c])
                  /\ Shape([type |-> "failed", usage |-> u, calls |-> c])
    BY <1>1
  <2>3. /\ Shape([type |-> "error"]) /\ Shape([type |-> "junk"])
        /\ Shape([type |-> "summary_part"]) /\ Shape([type |-> "reasoning_done"])
    BY <1>3
  <2> HIDE DEF Final
  <2> DEFINE calls == {given[p].id : p \in API!Sent(given, {"item_call"})}
             lastCall == {given[p].id : p \in {q \in API!Sent(given, {"item_call"}) :
                             \A r \in API!Sent(given, {"item_call"}) : r <= q}}
             End(t, usage) == [type |-> t, usage |-> usage, calls |-> calls # {}]
             OnceOf(t) == API!Once(given, t, {[type |-> t]})
             Arguments == UNION {{[type |-> "arguments", id |-> id, piece |-> piece] :
                                     piece \in API!NextArguments(given, id)} : id \in lastCall}
  <2>4. /\ Shape(End("failed", FALSE)) /\ Shape(End("failed", TRUE))
        /\ Shape(End("completed", TRUE)) /\ Shape(End("completed", FALSE))
        /\ Shape(End("incomplete", TRUE))
    BY <2>2
  <2>5. \A x \in OnceOf("error") \cup OnceOf("junk") \cup OnceOf("summary_part")
                    \cup OnceOf("reasoning_done") : Shape(x)
    BY <2>3 DEF API!Once
  <2>6. \A x \in Arguments : Shape(x)
    <3> HIDE DEF lastCall
    <3> QED
      BY <1>2
  <2>7. \/ f \in {[type |-> t] : t \in {"created", "error"}}
        \/ f \in {End("failed", FALSE)} \cup OnceOf("junk")
        \/ f \in {[type |-> "text", piece |-> API!NewPiece(given)],
                  [type |-> "reasoning", piece |-> API!NewPiece(given)]}
        \/ f \in {[type |-> "item_reasoning", encrypted |-> b] : b \in BOOLEAN}
        \/ f \in OnceOf("summary_part") \cup OnceOf("reasoning_done") \cup OnceOf("error")
        \/ f \in {[type |-> "item_call", id |-> id] : id \in API!NextCallIDs(calls)}
        \/ f \in Arguments
        \/ f \in {End("completed", TRUE), End("completed", FALSE), End("incomplete", TRUE),
                   End("failed", TRUE)}
    BY DEF API!ResponsesFrames
  <2> HIDE DEF calls, lastCall, End, OnceOf, Arguments
  <2>8. CASE f \in {[type |-> t] : t \in {"created", "error"}}
    BY <2>1, <2>8
  <2>9. CASE f \in {End("failed", FALSE)} \cup OnceOf("junk")
    BY <2>4, <2>5, <2>9
  <2>10. CASE f \in {[type |-> "text", piece |-> API!NewPiece(given)],
                     [type |-> "reasoning", piece |-> API!NewPiece(given)]}
    BY <1>2, <2>10
  <2>11. CASE f \in {[type |-> "item_reasoning", encrypted |-> b] : b \in BOOLEAN}
    BY <1>2, <2>11
  <2>12. CASE f \in OnceOf("summary_part") \cup OnceOf("reasoning_done") \cup OnceOf("error")
    BY <2>5, <2>12
  <2>13. CASE f \in {[type |-> "item_call", id |-> id] : id \in API!NextCallIDs(calls)}
    BY <1>2, <2>13
  <2>14. CASE f \in Arguments
    BY <2>6, <2>14
  <2>15. CASE f \in {End("completed", TRUE), End("completed", FALSE), End("incomplete", TRUE),
                     End("failed", TRUE)}
    BY <2>4, <2>15
  <2> QED
    BY <2>7, <2>8, <2>9, <2>10, <2>11, <2>12, <2>13, <2>14, <2>15
<1>6. k \notin CompletionsKinds \cup {"gemini"}
  BY DEF CompletionsKinds
<1>7. Billed(k, f) <=> f.type \in Final /\ f.usage
  BY <1>6 DEF Billed
<1> QED
  BY <1>5, <1>7 DEF TellsUsage

\* ... in message_start, or inside the delta of message_delta.
LEMMA AnthropicFramesBilled ==
    ASSUME NEW k \in FramedKinds, NEW given, NEW f \in API!AnthropicFrames(k, given)
    PROVE  Billed(k, f) <=> TellsUsage(f)
<1> DEFINE Shape(x) == x.type \notin {"message_start", "message_delta"} => "usage" \notin DOMAIN x
           Started(x) == x.type = "message_start" /\ "usage" \in DOMAIN x
<1>1. \A q, x, y, z : /\ Shape([type |-> "block_start", kind |-> q, id |-> x, index |-> y, piece |-> z])
                      /\ Shape([type |-> "block_delta", kind |-> q, id |-> x, index |-> y, piece |-> z])
                      /\ Shape([type |-> "block_stop", index |-> y])
                      /\ Shape([type |-> "message_delta", reason |-> x, usage |-> y])
                      /\ [type |-> "message_delta", reason |-> x, usage |-> y].type # "message_start"
  OBVIOUS
<1>2. \A x : Started([type |-> "message_start", usage |-> x])
  OBVIOUS
<1>3. /\ Shape([type |-> "ping"]) /\ Shape([type |-> "error"]) /\ Shape([type |-> "message_stop"])
  OBVIOUS
<1>4. (Shape(f) /\ f.type # "message_start") \/ Started(f)
  <2> DEFINE Good(x) == (Shape(x) /\ x.type # "message_start") \/ Started(x)
  <2>1. \A q, x, y, z : /\ Good([type |-> "block_start", kind |-> q, id |-> x, index |-> y, piece |-> z])
                        /\ Good([type |-> "block_delta", kind |-> q, id |-> x, index |-> y, piece |-> z])
                        /\ Good([type |-> "block_stop", index |-> y])
                        /\ Good([type |-> "message_delta", reason |-> x, usage |-> y])
                        /\ Good([type |-> "message_start", usage |-> x])
    BY <1>1, <1>2
  <2>2. Good([type |-> "ping"]) /\ Good([type |-> "error"]) /\ Good([type |-> "message_stop"])
    BY <1>3
  <2> HIDE DEF Good
  <2> DEFINE starts == API!Sent(given, {"block_start"})
             block == given[CHOOSE p \in starts : \A q \in starts : q <= p]
             calls == {given[p].id : p \in starts} \ {NoID, API!NoCallID}
             at == IF k = "bamboo" THEN NoIndex ELSE API!Cardinality(starts)
             Block(q, id, piece) == [type |-> "block_start", kind |-> q, id |-> id, index |-> at,
                                     piece |-> piece]
             Delta(q, id, piece) == [type |-> "block_delta", kind |-> q, id |-> id,
                                     index |-> block.index, piece |-> piece]
             Arguments == {Delta("tool_use", block.id, piece) :
                              piece \in API!NextArguments(given, block.id)}
             Errors == API!Once(given, "error", {[type |-> "error"]})
             Deltas == CASE block.kind = "text" -> {Delta("text", NoID, API!NewPiece(given))}
                         [] block.kind = "thinking" -> {Delta("thinking", NoID, API!NewPiece(given)),
                                                        Delta("signature", NoID, API!Nothing)}
                         [] block.kind \in {"tool_use", "server_tool_use"} -> Arguments
                         [] OTHER -> {}
             Blocks == {Block("text", NoID, API!Nothing), Block("thinking", NoID, API!Nothing),
                        Block("thinking", NoID, API!NewPiece(given)),
                        Block("redacted_thinking", NoID, API!Nothing),
                        Block("redacted_thinking", NoID, <<"data">>)}
                       \cup {Block("server_tool_use", API!NoCallID, API!Nothing)}
                       \cup {Block("tool_use", id, API!Nothing) : id \in API!NextCallIDs(calls)}
  <2>3. \A q, id, piece : Good(Block(q, id, piece)) /\ Good(Delta(q, id, piece))
    BY <2>1
  <2>a. \A x \in Blocks : Good(x)
    <3> HIDE DEF Block, calls
    <3> QED
      BY <2>3
  <2>4. \A x \in Deltas : Good(x)
    <3> HIDE DEF Delta, block
    <3>1. \A x \in Arguments : Good(x)
      BY <2>3
    <3> HIDE DEF Arguments
    <3> QED
      BY <2>3, <3>1
  <2>5. \A x \in Errors : Good(x)
    BY <2>2 DEF API!Once
  <2>6. \/ f \in {[type |-> "message_start", usage |-> b] : b \in BOOLEAN}
        \/ f \in {[type |-> "ping"], [type |-> "error"], [type |-> "message_stop"]}
        \/ f \in {[type |-> "block_stop", index |-> block.index]}
        \/ f \in Errors
        \/ f \in Deltas
        \/ f \in Blocks
        \/ f \in API!MessageDeltas
    <3> DEFINE Stopped == [type |-> "block_stop", index |-> block.index]
    <3>1. API!AnthropicFrames(k, given) =
            CASE given = <<>> -> {[type |-> "message_start", usage |-> b] : b \in BOOLEAN}
                                    \cup {[type |-> "ping"], [type |-> "error"]}
              [] API!Sent(given, {"message_stop"}) # {} -> {}
              [] API!Sent(given, {"message_delta"}) # {} -> {[type |-> "message_stop"]}
              [] API!Cardinality(starts) > API!Cardinality(API!Sent(given, {"block_stop"})) ->
                    Deltas \cup {Stopped} \cup Errors
              [] OTHER -> Blocks \cup API!MessageDeltas \cup Errors
      BY Zenon DEF API!AnthropicFrames
    <3> HIDE DEF starts, Errors, Deltas, Blocks, Stopped
    <3>2. \/ f \in {[type |-> "message_start", usage |-> b] : b \in BOOLEAN}
                     \cup {[type |-> "ping"], [type |-> "error"]}
          \/ f \in {[type |-> "message_stop"]}
          \/ f \in Deltas \cup {Stopped} \cup Errors
          \/ f \in Blocks \cup API!MessageDeltas \cup Errors
      BY <3>1, Zenon
    <3> QED
      BY <3>2 DEF Stopped
  <2> HIDE DEF starts, block, calls, at, Block, Delta, Arguments, Errors, Deltas, Blocks
  <2>7. Good(f)
    <3>1. CASE f \in {[type |-> "message_start", usage |-> b] : b \in BOOLEAN}
      BY <2>1, <3>1
    <3>2. CASE f \in {[type |-> "ping"], [type |-> "error"], [type |-> "message_stop"]}
      BY <2>2, <3>2
    <3>3. CASE f \in {[type |-> "block_stop", index |-> block.index]}
      BY <2>1, <3>3
    <3>4. CASE f \in API!MessageDeltas
      <4>1. PICK r, u : f = [type |-> "message_delta", reason |-> r, usage |-> u]
        BY <3>4 DEF API!MessageDeltas
      <4> QED
        BY <2>1, <4>1
    <3> QED
      BY <2>a, <2>4, <2>5, <2>6, <3>1, <3>2, <3>3, <3>4
  <2> QED
    BY <2>7 DEF Good
<1>5. k \notin CompletionsKinds \cup {"gemini"} /\ k \notin {"responses", "websocket"}
  BY DEF CompletionsKinds, FramedKinds
<1>6. Billed(k, f) <=> \/ f.type = "message_start" /\ f.usage
                       \/ f.type = "message_delta" /\ f.usage = "inside"
  BY <1>5 DEF Billed
<1> QED
  BY <1>4, <1>6 DEF TellsUsage

\* Whatever an upstream may send next is legible to its adapter.
LEMMA NextFramesLegible ==
    ASSUME NEW k \in API!Kinds, NEW given, NEW used, NEW f \in API!NextFrames(k, given, used)
    PROVE  Legible(k, f)
<1>1. CASE k \in CompletionsKinds
  <2>1. f \in API!CompletionsFrames(k, given)
    BY <1>1 DEF API!NextFrames, CompletionsKinds
  <2> QED
    BY <1>1, <2>1, CompletionsFramesLegible, CompletionsFramesBilled DEF Legible, CompletionsKinds
<1>2. CASE k = "gemini"
  <2>1. f \in API!GeminiFrames(given, used)
    BY <1>2 DEF API!NextFrames
  <2> QED
    BY <1>2, <2>1, GeminiFramesLegible, GeminiFramesBilled DEF Legible, CompletionsKinds
<1>3. CASE k \in {"responses", "websocket"}
  <2>1. f \in API!ResponsesFrames(given)
    BY <1>3 DEF API!NextFrames
  <2>2. k \notin CompletionsKinds /\ k # "gemini"
    BY <1>3 DEF CompletionsKinds
  <2> QED
    BY <1>3, <2>1, <2>2, ResponsesFramesBilled DEF Legible
<1>4. CASE k \in FramedKinds
  <2>1. f \in API!AnthropicFrames(k, given)
    BY <1>4 DEF API!NextFrames, FramedKinds
  <2>2. k \notin CompletionsKinds /\ k # "gemini"
    BY <1>4 DEF CompletionsKinds, FramedKinds
  <2> QED
    BY <1>4, <2>1, <2>2, AnthropicFramesBilled DEF Legible
<1> QED
  BY <1>1, <1>2, <1>3, <1>4 DEF API!Kinds, CompletionsKinds, FramedKinds

\* Whatever is read next, the frames the scanner finds in it are legible.
LEMMA EventsLegible ==
    ASSUME NEW k \in API!Kinds, NEW given, NEW used, NEW event \in API!NextEvents(k, given, used)
    PROVE  \E S : Body!FramesOf(event.lines) \in Seq(S) /\ \A f \in S : Legible(k, f)
<1>1. CASE k = "glued"
  <2> DEFINE Next0(after) == API!NextFrames("glued", after, {})
             L == Next0(given) \cup (UNION {Next0(Append(given, f)) : f \in Next0(given)})
                      \cup {API!CutLine, API!DoneLine}
             F == {f \in L : Body!IsFrame(f)}
  <2>1. event.lines \in Seq(L)
    <3>1. event \in API!GluedEvents(given)
      BY <1>1 DEF API!NextEvents
    <3>2. \/ \E f \in {h \in Next0(given) : h.type # "error"}, g \in L : event.lines = <<f, g>>
          \/ \E f \in Next0(given) : event.lines = <<f>>
          \/ \E f \in Next0(given) : event.lines = <<API!CutLine, f>>
          \/ \E f \in Next0(given) : event.lines = <<f, API!DoneLine>>
          \/ event.lines = <<API!CutLine>>
          \/ event.lines = <<API!DoneLine>>
      BY <3>1, Zenon DEF API!GluedEvents
    <3> HIDE DEF Next0
    <3>3. Next0(given) \subseteq L /\ API!CutLine \in L /\ API!DoneLine \in L
      OBVIOUS
    <3>4. \A f \in {h \in Next0(given) : h.type # "error"} : f \in L
      BY <3>3
    <3> HIDE DEF L
    <3>5. \A x \in L : <<x>> \in Seq(L)
      OBVIOUS
    <3>6. \A x, y \in L : <<x, y>> \in Seq(L)
      OBVIOUS
    <3> QED
      BY <3>2, <3>3, <3>4, <3>5, <3>6, Zenon
  <2>2. \A f \in F : Legible(k, f)
    <3>1. \A f \in L : f \in {API!CutLine, API!DoneLine} \/ \E after : f \in Next0(after)
      <4> HIDE DEF Next0
      <4> QED
        BY Zenon
    <3>2. ~Body!IsFrame(API!CutLine) /\ ~Body!IsFrame(API!DoneLine)
      BY DEF Body!IsFrame, API!CutLine, API!DoneLine
    <3> QED
      BY <3>1, <3>2, <1>1, NextFramesLegible
  <2> HIDE DEF F, L
  <2>3. Body!FramesOf(event.lines) \in Seq(F)
    BY <2>1, FramesOfIn DEF F
  <2> QED
    BY <2>2, <2>3
<1>2. CASE k # "glued"
  <2>1. PICK f \in API!NextFrames(k, given, used) : event.lines = <<f>>
    BY <1>2 DEF API!NextEvents, API!Event
  <2> DEFINE L == {f}
             F == {g \in L : Body!IsFrame(g)}
  <2>2. event.lines \in Seq(L)
    BY <2>1
  <2>3. \A g \in F : Legible(k, g)
    BY NextFramesLegible
  <2> HIDE DEF F, L
  <2>4. Body!FramesOf(event.lines) \in Seq(F)
    BY <2>2, FramesOfIn DEF F
  <2> QED
    BY <2>3, <2>4
<1> QED
  BY <1>1, <1>2

-----------------------------------------------------------------------------
(* What an adapter sends for a frame: a start first if `b', an error last if  *)
(* `c', and between them anything but Done.                                   *)

\* All that an adapter sends before Done.
Speech == Middle \cup {"start", "error"}
Speaks(out, b, c) ==
    /\ Made(out, Speech)
    /\ \A p \in 1..Len(out) : out[p].type = "start" => p = 1 /\ b
    /\ \A p \in 1..Len(out) : out[p].type = "error" => p = Len(out) /\ c

LEMMA MiddleSpeaks ==
    ASSUME NEW x, Made(x, Middle), NEW b, NEW c
    PROVE  Speaks(x, b, c)
<1>1. Made(x, Speech)
  BY MadeMore DEF Speech
<1>2. \A p \in 1..Len(x) : x[p].type \in Middle
  BY MadeAt
<1>3. "start" \notin Middle /\ "error" \notin Middle
  BY DEF Middle
<1> QED
  BY <1>1, <1>2, <1>3 DEF Speaks

LEMMA StartSpeaks ==
    ASSUME NEW b
    PROVE  Speaks(API!Only(b, <<API!StartEvent>>), b, FALSE)
<1>1. API!StartEvent.type = "start"
  BY DEF API!StartEvent, API!Plain, API!PEvent
<1>2. Made(<<API!StartEvent>>, Speech)
  BY <1>1, MadeOne DEF Speech
<1>3. Made(API!Only(b, <<API!StartEvent>>), Speech)
  BY <1>2, MadeOnly
<1>4. \A p \in 1..1 : p = 1 /\ <<API!StartEvent>>[p].type = "start"
  BY <1>1
<1>5. Len(<<API!StartEvent>>) = 1 /\ Len(<<>>) = 0
  OBVIOUS
<1> QED
  BY <1>3, <1>4, <1>5 DEF Speaks, API!Only

LEMMA ErrorSpeaks ==
    Speaks(<<API!ErrorEvent>>, FALSE, TRUE)
<1>1. API!ErrorEvent.type = "error"
  BY DEF API!ErrorEvent, API!Plain, API!PEvent
<1>2. Made(<<API!ErrorEvent>>, Speech)
  BY <1>1, MadeOne DEF Speech
<1>4. \A p \in 1..1 : p = 1 /\ <<API!ErrorEvent>>[p].type = "error"
  BY <1>1
<1>5. Len(<<API!ErrorEvent>>) = 1
  OBVIOUS
<1> QED
  BY <1>2, <1>4, <1>5 DEF Speaks

\* The second part begins with nothing, the first ends with nothing.
LEMMA SpeaksJoin ==
    ASSUME NEW x, NEW y, NEW b, NEW c, Speaks(x, b, FALSE), Speaks(y, FALSE, c)
    PROVE  Speaks(x \o y, b, c)
<1>1. Made(x \o y, Speech)
  BY MadeJoin DEF Speaks
<1>2. /\ Len(x) \in Nat /\ Len(y) \in Nat
      /\ Len(x \o y) = Len(x) + Len(y)
      /\ \A p \in 1..(Len(x) + Len(y)) : (x \o y)[p] = IF p <= Len(x) THEN x[p] ELSE y[p - Len(x)]
  <2>1. PICK S : x \in Seq(S) /\ \A e \in S : e.type \in Speech
    BY DEF Speaks, Made
  <2>2. PICK R : y \in Seq(R) /\ \A e \in R : e.type \in Speech
    BY DEF Speaks, Made
  <2> QED
    BY <2>1, <2>2
<1>3. ASSUME NEW p \in 1..Len(x \o y)
      PROVE  /\ (x \o y)[p].type = "start" => p = 1 /\ b
             /\ (x \o y)[p].type = "error" => p = Len(x \o y) /\ c
  <2>1. CASE p <= Len(x)
    <3>1. p \in 1..Len(x) /\ (x \o y)[p] = x[p]
      BY <1>2, <1>3, <2>1
    <3> QED
      BY <3>1 DEF Speaks
  <2>2. CASE ~(p <= Len(x))
    <3>1. p - Len(x) \in 1..Len(y) /\ (x \o y)[p] = y[p - Len(x)]
      BY <1>2, <1>3, <2>2
    <3>2. y[p - Len(x)].type = "error" => p - Len(x) = Len(y) /\ c
      BY <3>1 DEF Speaks
    <3>3. y[p - Len(x)].type # "start"
      BY <3>1 DEF Speaks
    <3> QED
      BY <1>2, <1>3, <3>1, <3>2, <3>3
  <2> QED
    BY <2>1, <2>2
<1> QED
  BY <1>1, <1>3 DEF Speaks

\* What r, an adapter's answer to a frame, says of it: k is the upstream, b what
\* the adapter kept before.
FrameResult(k, b, r) ==
    /\ Speaks(r.out, ~b.start, k \in ReadsOn \/ r.then # "read")
    /\ r.then \in {"read", "end", "return"}
    /\ r.then = "end" => k = "websocket" /\ r.a.start
    /\ "start" \in DOMAIN r.a /\ r.a.start \in BOOLEAN
    /\ b.start => r.a.start
    /\ ~r.a.start => r.then = "return" \/ r.out = <<>>
    /\ \A p \in 1..Len(r.out) : r.out[p].type = "start" => r.a.start

\* A condition on a start or an error may be weaker.
LEMMA SpeaksLess ==
    ASSUME NEW x, NEW b, NEW c, NEW d, NEW e, Speaks(x, b, c), b => d, c => e
    PROVE  Speaks(x, d, e)
  BY DEF Speaks

\* More of the middle may be said behind it.
LEMMA SpeaksOn ==
    ASSUME NEW x, NEW y, NEW b, Speaks(x, b, FALSE), Made(y, Middle)
    PROVE  Speaks(x \o y, b, FALSE)
<1>1. Speaks(y, FALSE, FALSE)
  BY MiddleSpeaks
<1> QED
  BY <1>1, SpeaksJoin

\* The usage of a frame is an event of its own, and no other part of an answer
\* is one.
LEMMA ReportsOnly ==
    ASSUME NEW e, e.type = "usage", NEW b
    PROVE  /\ Made(API!Only(b, <<e>>), Middle)
           /\ Reports(API!Only(b, <<e>>)) <=> b
<1>1. Made(<<e>>, Middle)
  BY MadeOne DEF Middle
<1>2. Reports(<<e>>) /\ ~Reports(<<>>)
  BY ReportsOne, ReportsNone
<1> QED
  BY <1>1, <1>2, MadeOnly DEF API!Only

LEMMA ReportsOn ==
    ASSUME NEW x, NEW y, NEW T, Made(x, T), Made(y, Unbilled)
    PROVE  Reports(x \o y) <=> Reports(x)
  BY ReportsJoin, ReportsNot DEF Unbilled

LEMMA UnbilledMiddle ==
    ASSUME NEW x, Made(x, Unbilled)
    PROVE  Made(x, Middle)
  BY MadeMore DEF Unbilled

LEMMA StartReports ==
    ASSUME NEW b
    PROVE  ~Reports(API!Only(b, <<API!StartEvent>>))
<1>1. API!StartEvent.type # "usage"
  BY DEF API!StartEvent, API!Plain, API!PEvent
<1>2. ~Reports(<<API!StartEvent>>)
  BY <1>1, ReportsOne
<1> QED
  BY <1>2, ReportsNone DEF API!Only

LEMMA ErrorReports == ~Reports(<<API!ErrorEvent>>)
  BY ReportsOne DEF API!ErrorEvent, API!Plain, API!PEvent

LEMMA HandleChunkMade ==
    ASSUME NEW b, NEW f, IsSequence(f.content), IsSequence(f.calls)
    PROVE  /\ Speaks(Completions!HandleChunk(b, f).out, ~b.start, FALSE)
           /\ Reports(Completions!HandleChunk(b, f).out) <=> f.usage
<1> DEFINE M(x) == Made(x, Unbilled)
<1>1. \A k : M(<<Completions!BlockOf(k)>>)
  <2>1. \A k : Completions!BlockOf(k).type \in Unbilled
    BY DEF Completions!BlockOf, Completions!PEvent, Middle, Unbilled
  <2> QED
    BY <2>1, MadeOne
<1>2. \A x : M(<<Completions!ThinkingOf(x)>>) /\ M(<<Completions!TextOf(x)>>) /\ M(<<Completions!StopEvent(x)>>)
  <2>1. \A x : /\ Completions!ThinkingOf(x).type \in Unbilled /\ Completions!TextOf(x).type \in Unbilled
               /\ Completions!StopEvent(x).type \in Unbilled
    BY DEF Completions!ThinkingOf, Completions!TextOf, Completions!StopEvent, Completions!PEvent, Middle, Unbilled
  <2> QED
    BY <2>1, MadeOne
<1>3. M(<<Completions!SignatureEvent>>)
  <2>1. Completions!SignatureEvent.type \in Unbilled
    BY DEF Completions!SignatureEvent, Completions!Plain, Completions!PEvent, Middle, Unbilled
  <2> QED
    BY <2>1, MadeOne
<1>4. \A d, x : M(x) => M(Completions!Only(d, x))
  BY MadeEmpty DEF Completions!Only
<1>5. \A x, y : M(x) /\ M(y) => M(x \o y)
  BY MadeJoin
<1>6. \A c : M(Completions!HandleToolCallDelta(c))
  <2>1. \A i, x, piece : Completions!ToolCall(i, x).type \in Unbilled /\ Completions!Fragment(i, x, piece).type \in Unbilled
    BY DEF Completions!ToolCall, Completions!Fragment, Completions!PEvent, Middle, Unbilled
  <2>2. \A i, x, piece : M(<<Completions!ToolCall(i, x)>>) /\ M(<<Completions!Fragment(i, x, piece)>>)
    BY <2>1, MadeOne
  <2> HIDE DEF M
  <2> QED
    BY <1>3, <1>4, <1>5, <2>2, Zenon DEF Completions!HandleToolCallDelta
<1>7. M(Completions!FlattenSeq([p \in DOMAIN f.calls |-> Completions!HandleToolCallDelta(f.calls[p])]))
  <2> DEFINE ss == [p \in DOMAIN f.calls |-> Completions!HandleToolCallDelta(f.calls[p])]
  <2>1. PICK S : f.calls \in Seq(S)
    BY DEF IsSequence
  <2>2. Len(ss) \in Nat /\ (Len(ss) = 0 => ss = <<>>) /\ DOMAIN ss = 1..Len(ss) /\ DOMAIN ss = DOMAIN f.calls
    BY <2>1
  <2>3. \A i \in 1..Len(ss) : Made(ss[i], Unbilled)
    BY <1>6, <2>2
  <2> HIDE DEF ss
  <2>4. Made(FlattenSeq(ss), Unbilled)
    BY <2>2, <2>3, FlattenMade
  <2> QED
    BY <2>4 DEF ss, Completions!FlattenSeq, FlattenSeq
<1>8. \A s : M(Completions!SyncBlockState(s, Completions!Process(b.stripper, f.content).out).out)
  <2>1. PICK S : f.content \in Seq(S)
    BY DEF IsSequence
  <2>2. Made(Completions!Process(b.stripper, f.content).out, Stripped)
    BY <2>1, ProcessMade
  <2>3. Stripped \subseteq Unbilled
    BY DEF Stripped, Middle, Unbilled
  <2> QED
    BY <2>2, <2>3, SyncMade, MadeMore
<1>9. \A d, k : M(Completions!Announce(d, k))
  BY <1>1, <1>4 DEF Completions!Announce
<1>10. Speaks(Completions!Only(~b.start, <<Completions!StartEvent>>), ~b.start, FALSE)
  BY StartSpeaks DEF Completions!Only, API!Only, Completions!StartEvent, API!StartEvent,
     Completions!Plain, API!Plain, Completions!PEvent, API!PEvent, Completions!Nothing, API!Nothing
<1> DEFINE Q(x) == Speaks(x, ~b.start, FALSE) /\ (Reports(x) <=> f.usage)
<1>11. \A x, y : Q(x) /\ M(y) => Q(x \o y)
  BY SpeaksOn, ReportsOn, UnbilledMiddle DEF Speaks
<1> HIDE DEF M
<1> DEFINE thinks == f.reasoning # Completions!Nothing
           hasContent == f.content # Completions!Nothing
           y1 == Completions!Only(f.usage, <<Completions!UsageEvent>>)
           y2 == Completions!Only(thinks, Completions!Announce(b.thinking, "thinking")
                                              \o <<Completions!ThinkingOf(f.reasoning)>>)
           y3 == Completions!Only(f.signature, Completions!Announce(b.thinking \/ thinks, "thinking")
                                                   \o <<Completions!SignatureEvent>>)
           s == [b EXCEPT !.thinking = b.thinking \/ thinks \/ f.signature]
           synced == Completions!SyncBlockState(s, Completions!Process(b.stripper, f.content).out)
           y4 == Completions!Only(hasContent,
                            IF b.strip THEN synced.out
                            ELSE Completions!Announce(b.text, "text") \o <<Completions!TextOf(f.content)>>)
           y5 == Completions!FlattenSeq([p \in DOMAIN f.calls |-> Completions!HandleToolCallDelta(f.calls[p])])
           y6 == Completions!Only(f.finish # "none", <<Completions!StopEvent(Completions!CompletionsReason(f.finish))>>)
<1>12. Q(Completions!Only(~b.start, <<Completions!StartEvent>>) \o y1)
  <2> DEFINE x == Completions!Only(~b.start, <<Completions!StartEvent>>)
  <2>1. Completions!UsageEvent.type = "usage"
    BY DEF Completions!UsageEvent, Completions!Plain, Completions!PEvent
  <2>2. Made(y1, Middle) /\ (Reports(y1) <=> f.usage)
    BY <2>1, ReportsOnly DEF Completions!Only, API!Only
  <2>3. ~Reports(x)
    BY StartReports DEF Completions!Only, API!Only, Completions!StartEvent, API!StartEvent,
       Completions!Plain, API!Plain, Completions!PEvent, API!PEvent, Completions!Nothing, API!Nothing
  <2> HIDE DEF x, y1
  <2>4. Speaks(x, ~b.start, FALSE)
    BY <1>10 DEF x
  <2>5. Speaks(x \o y1, ~b.start, FALSE)
    BY <2>2, <2>4, SpeaksOn
  <2>6. Reports(x \o y1) <=> f.usage
    BY <2>2, <2>3, <2>4, ReportsJoin DEF Speaks
  <2>7. Q(x \o y1)
    BY <2>5, <2>6
  <2> QED
    BY <2>7 DEF x
<1>13. M(y2)
  BY <1>2, <1>4, <1>5, <1>9
<1>14. M(y3)
  BY <1>3, <1>4, <1>5, <1>9
<1>15. M(y4)
  <2>1. M(synced.out)
    BY <1>8
  <2>2. M(Completions!Announce(b.text, "text") \o <<Completions!TextOf(f.content)>>)
    BY <1>2, <1>5, <1>9
  <2> HIDE DEF synced
  <2> QED
    BY <2>1, <2>2, <1>4
<1>16. M(y5)
  BY <1>7
<1>17. M(y6)
  BY <1>2, <1>4
<1>18. Completions!HandleChunk(b, f).out =
          Completions!Only(~b.start, <<Completions!StartEvent>>) \o y1 \o y2 \o y3 \o y4 \o y5 \o y6
  BY Zenon DEF Completions!HandleChunk
<1> HIDE DEF y1, y2, y3, y4, y5, y6, Q
<1>19. Q(Completions!HandleChunk(b, f).out)
  BY <1>11, <1>12, <1>13, <1>14, <1>15, <1>16, <1>17, <1>18, Zenon
<1> QED
  BY <1>19 DEF Q

LEMMA StartedChunk ==
    ASSUME NEW b, "start" \in DOMAIN b, NEW s, NEW h, NEW x, NEW y, NEW c,
           c = [b EXCEPT !.start = TRUE, !.stop = s, !.thinking = h, !.text = x, !.stripper = y]
    PROVE  "start" \in DOMAIN c /\ c.start = TRUE
<1>1. DOMAIN c = DOMAIN b
  OBVIOUS
<1>2. DOMAIN [b EXCEPT !.start = TRUE] = DOMAIN b /\ [b EXCEPT !.start = TRUE].start = TRUE
  OBVIOUS
<1> DEFINE d == [b EXCEPT !.start = TRUE]
<1>3. c = [d EXCEPT !.stop = s, !.thinking = h, !.text = x, !.stripper = y]
  OBVIOUS
<1> HIDE DEF d
<1>4. c.start = d.start
  BY <1>2, <1>3 DEF d
<1> QED
  BY <1>1, <1>2, <1>4 DEF d

\* FrameResult holds of the chat completions adapter, and it reports the usages
\* it is told; so do the others in the lemmas after this one.
LEMMA CompletionsSays ==
    ASSUME NEW k, NEW b, "start" \in DOMAIN b, b.start \in BOOLEAN, NEW f, WholeChunk(f)
    PROVE  /\ FrameResult(k, b, Completions!CompletionsFrame(b, f))
           /\ Reports(Completions!CompletionsFrame(b, f).out) <=>
                 f.type \notin {"error", "junk"} /\ f.usage
<1> DEFINE r == Completions!CompletionsFrame(b, f)
<1>1. CASE f.type = "error"
  <2>1. r = [a |-> b, out |-> <<Completions!ErrorEvent>>, then |-> "return"]
    BY <1>1 DEF Completions!CompletionsFrame
  <2> HIDE DEF r
  <2>2. Speaks(<<Completions!ErrorEvent>>, FALSE, TRUE)
    BY ErrorSpeaks DEF Completions!ErrorEvent, API!ErrorEvent, Completions!Plain, API!Plain,
       Completions!PEvent, API!PEvent, Completions!Nothing, API!Nothing
  <2>3. Speaks(r.out, ~b.start, k \in ReadsOn \/ r.then # "read")
    BY <2>1, <2>2 DEF Speaks
  <2>4. \A p \in 1..Len(r.out) : r.out[p].type # "start"
    BY <2>1, <2>2 DEF Speaks
  <2>30. FrameResult(k, b, r)
    BY <2>1, <2>3, <2>4 DEF FrameResult
  <2>31. ~Reports(r.out)
    BY <2>1, ErrorReports DEF Completions!ErrorEvent, API!ErrorEvent, Completions!Plain, API!Plain,
       Completions!PEvent, API!PEvent, Completions!Nothing, API!Nothing
  <2> QED
    BY <1>1, <2>30, <2>31 DEF r
<1>2. CASE f.type = "junk"
  <2>1. r = [a |-> [b EXCEPT !.start = TRUE],
             out |-> Completions!Only(~b.start, <<Completions!StartEvent>>), then |-> "read"]
    BY <1>2 DEF Completions!CompletionsFrame
  <2> HIDE DEF r
  <2>2. Speaks(Completions!Only(~b.start, <<Completions!StartEvent>>), ~b.start, FALSE)
    BY StartSpeaks DEF Completions!Only, API!Only, Completions!StartEvent, API!StartEvent,
       Completions!Plain, API!Plain, Completions!PEvent, API!PEvent, Completions!Nothing, API!Nothing
  <2>3. Speaks(r.out, ~b.start, k \in ReadsOn \/ r.then # "read")
    BY <2>1, <2>2 DEF Speaks
  <2>4. "start" \in DOMAIN r.a /\ r.a.start = TRUE
    BY <2>1
  <2>30. FrameResult(k, b, r)
    BY <2>1, <2>3, <2>4 DEF FrameResult
  <2>31. ~Reports(r.out)
    BY <2>1, StartReports DEF Completions!Only, API!Only, Completions!StartEvent, API!StartEvent,
       Completions!Plain, API!Plain, Completions!PEvent, API!PEvent, Completions!Nothing, API!Nothing
  <2> QED
    BY <1>2, <2>30, <2>31 DEF r
<1>3. CASE f.type \notin {"error", "junk"}
  <2>1. r = Completions!HandleChunk(b, f)
    BY <1>3 DEF Completions!CompletionsFrame
  <2>2. Speaks(r.out, ~b.start, FALSE) /\ (Reports(r.out) <=> f.usage)
    BY <1>3, <2>1, HandleChunkMade DEF WholeChunk
  <2>3. Speaks(r.out, ~b.start, k \in ReadsOn \/ r.then # "read")
    BY <2>2 DEF Speaks
  <2> DEFINE thinks == f.reasoning # Completions!Nothing
             thinking == b.thinking \/ thinks \/ f.signature
             stripped == Completions!Process(b.stripper, f.content)
             synced == Completions!SyncBlockState([b EXCEPT !.thinking = thinking], stripped.out)
             hasContent == f.content # Completions!Nothing
             s == b.stop \/ f.finish # "none"
             h == IF hasContent /\ b.strip THEN synced.thinking ELSE thinking
             x == IF hasContent /\ b.strip THEN synced.text ELSE b.text \/ hasContent
             y == IF hasContent /\ b.strip
                  THEN [thinking |-> stripped.thinking, buf |-> stripped.buf] ELSE b.stripper
  <2>4. Completions!HandleChunk(b, f).a =
            [b EXCEPT !.start = TRUE, !.stop = s, !.thinking = h, !.text = x, !.stripper = y]
    BY Zenon DEF Completions!HandleChunk
  <2>6. Completions!HandleChunk(b, f).then = "read"
    BY Zenon DEF Completions!HandleChunk
  <2> HIDE DEF r, s, h, x, y
  <2>5. "start" \in DOMAIN r.a /\ r.a.start = TRUE /\ r.then = "read"
    BY <2>1, <2>4, <2>6, StartedChunk
  <2>30. FrameResult(k, b, r)
    BY <2>3, <2>4, <2>5 DEF FrameResult
  <2> QED
    BY <1>3, <2>2, <2>30 DEF r
<1> QED
  BY <1>1, <1>2, <1>3

LEMMA GeminiSays ==
    ASSUME NEW k, NEW b, "start" \in DOMAIN b, b.start \in BOOLEAN, NEW f, WholeCandidate(f)
    PROVE  /\ FrameResult(k, b, Gemini!GeminiFrame(b, f))
           /\ Reports(Gemini!GeminiFrame(b, f).out) <=> f.type \notin {"error", "junk"} /\ f.usage
<1> DEFINE r == Gemini!GeminiFrame(b, f)
           c == [b EXCEPT !.start = TRUE]
           s == Gemini!HandleCandidate(c, f)
           start == Gemini!Only(~b.start, <<Gemini!StartEvent>>)
<1>0. Speaks(start, ~b.start, FALSE) /\ ~Reports(start)
  BY StartSpeaks, StartReports DEF Gemini!Only, API!Only, Gemini!StartEvent, API!StartEvent,
     Gemini!Plain, API!Plain, Gemini!PEvent, API!PEvent, Gemini!Nothing, API!Nothing
<1>1. CASE f.type = "error"
  <2>1. r = [a |-> b, out |-> <<Gemini!ErrorEvent>>, then |-> "return"]
    BY <1>1, Zenon DEF Gemini!GeminiFrame
  <2>2. Speaks(<<Gemini!ErrorEvent>>, FALSE, TRUE) /\ ~Reports(<<Gemini!ErrorEvent>>)
    BY ErrorSpeaks, ErrorReports DEF Gemini!ErrorEvent, API!ErrorEvent, Gemini!Plain, API!Plain,
       Gemini!PEvent, API!PEvent, Gemini!Nothing, API!Nothing
  <2> HIDE DEF r
  <2>3. Speaks(r.out, ~b.start, k \in ReadsOn \/ r.then # "read")
    BY <2>1, <2>2 DEF Speaks
  <2>4. \A p \in 1..Len(r.out) : r.out[p].type # "start"
    BY <2>1, <2>2 DEF Speaks
  <2>30. FrameResult(k, b, r)
    BY <2>1, <2>3, <2>4 DEF FrameResult
  <2>31. ~Reports(r.out)
    BY <2>1, <2>2
  <2> QED
    BY <1>1, <2>30, <2>31 DEF r
<1>2. CASE f.type = "junk"
  <2>1. r = [a |-> c, out |-> start, then |-> "read"]
    BY <1>2, Zenon DEF Gemini!GeminiFrame
  <2> HIDE DEF r, start
  <2>3. Speaks(r.out, ~b.start, k \in ReadsOn \/ r.then # "read")
    BY <2>1, <1>0 DEF Speaks
  <2>4. "start" \in DOMAIN r.a /\ r.a.start = TRUE
    BY <2>1
  <2>30. FrameResult(k, b, r)
    BY <2>1, <2>3, <2>4 DEF FrameResult
  <2>31. ~Reports(r.out)
    BY <1>0, <2>1
  <2> QED
    BY <1>2, <2>30, <2>31 DEF r
<1>3. CASE f.type \notin {"error", "junk"}
  <2> DEFINE base == [a |-> c, out |-> <<>>]
             folded == Gemini!FoldLeft(Gemini!HandlePart, base, f.parts)
             stop == Gemini!Only(f.finish # "none", <<Gemini!StopEvent(Gemini!GeminiReason(folded.a, f.finish))>>)
             usage == Gemini!Only(f.usage, <<Gemini!UsageEvent>>)
  <2>1. r = [a |-> s.a, out |-> start \o usage \o s.out, then |-> "read"]
    <3>1. f.type # "error" /\ f.type # "junk"
      BY <1>3
    <3> QED
      BY <3>1, Zenon DEF Gemini!GeminiFrame
  <2>2. Kept("part", base)
    BY MadeEmpty DEF Kept
  <2>3. PICK S : f.parts \in Seq(S)
    BY <1>3 DEF WholeCandidate, IsSequence
  <2>4. \A t, e : Kept("part", t) /\ e \in S => Kept("part", Step("part", t, e))
    BY PartKeeps DEF Step
  <2>5. PICK g : Folds("part", base, f.parts, Len(f.parts), g) /\ folded = g[1..Len(f.parts)]
    BY <2>3, PartsFold
  <2>6. Kept("part", folded)
    <3> HIDE DEF base, folded
    <3> QED
      BY <2>2, <2>3, <2>4, <2>5, FoldKeeps
  <2>7. s = [a |-> [folded.a EXCEPT !.stop = @ \/ f.finish # "none"], out |-> folded.out \o stop]
    BY Zenon DEF Gemini!HandleCandidate
  <2>8. Made(stop, Unbilled)
    <3>1. \A x : Gemini!StopEvent(x).type \in Unbilled
      BY DEF Gemini!StopEvent, Gemini!PEvent, Middle, Unbilled
    <3>2. \A x : Made(<<Gemini!StopEvent(x)>>, Unbilled)
      BY <3>1, MadeOne
    <3> QED
      BY <3>2, MadeEmpty DEF Gemini!Only
  <2>u. Made(usage, Middle) /\ (Reports(usage) <=> f.usage)
    <3>1. Gemini!UsageEvent.type = "usage"
      BY DEF Gemini!UsageEvent, Gemini!Plain, Gemini!PEvent
    <3> QED
      BY <3>1, ReportsOnly DEF Gemini!Only, API!Only
  <2> HIDE DEF r, start, s, folded, stop, usage, base
  <2>9. Made(s.out, Unbilled) /\ "start" \in DOMAIN s.a /\ s.a.start = TRUE
    <3>1. Made(folded.out \o stop, Unbilled)
      BY <2>6, <2>8, MadeJoin DEF Kept
    <3> QED
      BY <2>6, <2>7, <3>1 DEF Kept
  <2>10. Speaks(start \o usage \o s.out, ~b.start, FALSE)
    BY <1>0, <2>u, <2>9, SpeaksOn, UnbilledMiddle
  <2>13. Reports(start \o usage \o s.out) <=> f.usage
    <3>1. Speaks(start \o usage, ~b.start, FALSE)
      BY <1>0, <2>u, SpeaksOn
    <3>2. Reports(start \o usage) <=> f.usage
      BY <1>0, <2>u, ReportsJoin DEF Speaks
    <3> QED
      BY <2>9, <3>1, <3>2, ReportsOn DEF Speaks
  <2>11. Speaks(r.out, ~b.start, k \in ReadsOn \/ r.then # "read")
    BY <2>1, <2>10 DEF Speaks
  <2>12. "start" \in DOMAIN r.a /\ r.a.start = TRUE /\ r.then = "read"
    BY <2>1, <2>9
  <2>30. FrameResult(k, b, r)
    BY <2>11, <2>12 DEF FrameResult
  <2> QED
    BY <1>3, <2>1, <2>13, <2>30 DEF r
<1> QED
  BY <1>1, <1>2, <1>3

\* A framed upstream: a frame is a start, events of the middle, or an error.
LEMMA AnthropicSays ==
    ASSUME NEW k \in ReadsOn, NEW b, "start" \in DOMAIN b, b.start \in BOOLEAN, NEW f
    PROVE  /\ FrameResult(k, b, Anthropic!AnthropicFrame(b, f))
           /\ Reports(Anthropic!AnthropicFrame(b, f).out) <=>
                 \/ f.type = "message_start" /\ f.usage
                 \/ f.type = "message_delta" /\ f.usage = "inside"
<1> DEFINE r == Anthropic!AnthropicFrame(b, f)
           start == Anthropic!Only(~b.start, <<Anthropic!StartEvent>>)
           says == Anthropic!AnthropicEvents(b, f)
<1>1. Speaks(start, ~b.start, FALSE) /\ ~Reports(start)
  BY StartSpeaks, StartReports DEF Anthropic!Only, API!Only, Anthropic!StartEvent, API!StartEvent,
     Anthropic!Plain, API!Plain, Anthropic!PEvent, API!PEvent, Anthropic!Nothing, API!Nothing
<1>2. Speaks(<<Anthropic!ErrorEvent>>, FALSE, TRUE) /\ ~Reports(<<Anthropic!ErrorEvent>>)
  BY ErrorSpeaks, ErrorReports DEF Anthropic!ErrorEvent, API!ErrorEvent, Anthropic!Plain, API!Plain,
     Anthropic!PEvent, API!PEvent, Anthropic!Nothing, API!Nothing
<1>3. f.type \notin {"error", "message_start", "message_delta"} => Made(says, Unbilled)
  <2>1. \A x : /\ Anthropic!BlockOf(x).type \in Unbilled /\ Anthropic!ThinkingOf(x).type \in Unbilled
               /\ Anthropic!TextOf(x).type \in Unbilled /\ Anthropic!ToolBlock(x).type \in Unbilled
               /\ Anthropic!BlockStopOf(x).type \in Unbilled /\ Anthropic!StopEvent(x).type \in Unbilled
               /\ \A y : Anthropic!Fragment(x, NoIndex, y).type \in Unbilled
    BY DEF Anthropic!BlockOf, Anthropic!ThinkingOf, Anthropic!TextOf, Anthropic!ToolBlock,
       Anthropic!BlockStopOf, Anthropic!StopEvent, Anthropic!Fragment, Anthropic!PEvent, Middle, Unbilled
  <2>2. Anthropic!SignatureEvent.type \in Unbilled /\ Anthropic!RedactedEvent.type \in Unbilled
    BY DEF Anthropic!SignatureEvent, Anthropic!RedactedEvent,
       Anthropic!Plain, Anthropic!PEvent, Middle, Unbilled
  <2> DEFINE M(x) == Made(x, Unbilled)
  <2>3. \A x : /\ M(<<Anthropic!BlockOf(x)>>) /\ M(<<Anthropic!ThinkingOf(x)>>)
               /\ M(<<Anthropic!TextOf(x)>>) /\ M(<<Anthropic!ToolBlock(x)>>)
               /\ M(<<Anthropic!BlockStopOf(x)>>) /\ M(<<Anthropic!StopEvent(x)>>)
               /\ \A y : M(<<Anthropic!Fragment(x, NoIndex, y)>>)
    BY <2>1, MadeOne
  <2>4. M(<<Anthropic!SignatureEvent>>) /\ M(<<Anthropic!RedactedEvent>>)
    BY <2>2, MadeOne
  <2>5. M(<<>>)
    BY MadeEmpty
  <2>6. \A d, x : M(x) => M(Anthropic!Only(d, x))
    BY MadeEmpty DEF Anthropic!Only
  <2>7. \A x, y : M(x) /\ M(y) => M(x \o y)
    BY MadeJoin
  <2> HIDE DEF M
  <2>8. M(Anthropic!ContentBlockStart(f))
    BY <2>3, <2>4, <2>5, <2>6, <2>7, Zenon DEF Anthropic!ContentBlockStart
  <2>9. M(Anthropic!ContentBlockDelta(f))
    BY <2>3, <2>4, <2>5, <2>6, <2>7, Zenon DEF Anthropic!ContentBlockDelta
  <2>10. f.type \notin {"error", "message_start", "message_delta"} => M(says)
    BY <2>3, <2>4, <2>5, <2>6, <2>8, <2>9, Zenon DEF Anthropic!AnthropicEvents
  <2> QED
    BY <2>10 DEF M
<1>4. f.type = "error" => says = <<Anthropic!ErrorEvent>>
  BY DEF Anthropic!AnthropicEvents
<1>u. /\ f.type = "message_start" =>
            Made(says, Middle) /\ (Reports(says) <=> f.usage)
      /\ f.type = "message_delta" =>
            Made(says, Middle) /\ (Reports(says) <=> f.usage = "inside")
  <2>1. Anthropic!UsageEvent.type = "usage"
    BY DEF Anthropic!UsageEvent, Anthropic!Plain, Anthropic!PEvent
  <2> DEFINE x == Anthropic!Only(f.usage, <<Anthropic!UsageEvent>>)
             y == Anthropic!Only(f.usage = "inside", <<Anthropic!UsageEvent>>)
  <2>2. /\ Made(x, Middle) /\ (Reports(x) <=> f.usage)
        /\ Made(y, Middle) /\ (Reports(y) <=> f.usage = "inside")
    BY <2>1, ReportsOnly DEF Anthropic!Only, API!Only
  <2>3. f.type = "message_start" => says = x
    BY DEF Anthropic!AnthropicEvents
  <2>4. f.type = "message_delta" => says = y
    BY DEF Anthropic!AnthropicEvents
  <2> HIDE DEF says, x, y
  <2> QED
    BY <2>2, <2>3, <2>4
<1>5. "start" \in DOMAIN r.a /\ r.a.start = TRUE /\ r.then = "read" /\ r.out = start \o says
  BY DEF Anthropic!AnthropicFrame
<1> HIDE DEF r, start, says
<1>6. Speaks(says, FALSE, TRUE)
  <2>1. f.type # "error" => Made(says, Middle)
    BY <1>3, <1>u, UnbilledMiddle
  <2> QED
    BY <1>2, <1>4, <2>1, MiddleSpeaks
<1>9. Reports(says) <=> \/ f.type = "message_start" /\ f.usage
                        \/ f.type = "message_delta" /\ f.usage = "inside"
  <2>1. f.type \notin {"error", "message_start", "message_delta"} => ~Reports(says)
    BY <1>3, ReportsNot DEF Unbilled
  <2> QED
    BY <1>2, <1>4, <1>u, <2>1
<1>10. Reports(r.out) <=> Reports(says)
  BY <1>1, <1>5, <1>6, ReportsJoin DEF Speaks
<1>7. Speaks(start \o says, ~b.start, TRUE)
  BY <1>1, <1>6, SpeaksJoin
<1>8. Speaks(r.out, ~b.start, k \in ReadsOn \/ r.then # "read")
  BY <1>5, <1>7 DEF Speaks
<1>11. FrameResult(k, b, r)
  BY <1>5, <1>8 DEF FrameResult
<1> QED
  BY <1>9, <1>10, <1>11 DEF r

LEMMA BambooSays ==
    ASSUME NEW k \in ReadsOn, NEW b, "start" \in DOMAIN b, b.start \in BOOLEAN, NEW f
    PROVE  /\ FrameResult(k, b, Bamboo!BambooFrame(b, f))
           /\ Reports(Bamboo!BambooFrame(b, f).out) <=>
                 \/ f.type = "message_start" /\ f.usage
                 \/ f.type = "message_delta" /\ f.usage = "inside"
<1> DEFINE r == Bamboo!BambooFrame(b, f)
           start == Bamboo!Only(~b.start, <<Bamboo!StartEvent>>)
           says == Bamboo!BambooEvents(b, f)
<1>1. Speaks(start, ~b.start, FALSE) /\ ~Reports(start)
  BY StartSpeaks, StartReports DEF Bamboo!Only, API!Only, Bamboo!StartEvent, API!StartEvent,
     Bamboo!Plain, API!Plain, Bamboo!PEvent, API!PEvent, Bamboo!Nothing, API!Nothing
<1>2. Speaks(<<Bamboo!ErrorEvent>>, FALSE, TRUE) /\ ~Reports(<<Bamboo!ErrorEvent>>)
  BY ErrorSpeaks, ErrorReports DEF Bamboo!ErrorEvent, API!ErrorEvent, Bamboo!Plain, API!Plain,
     Bamboo!PEvent, API!PEvent, Bamboo!Nothing, API!Nothing
<1>3. f.type \notin {"error", "message_start", "message_delta"} => Made(says, Unbilled)
  <2>1. \A x : /\ Bamboo!BlockOf(x).type \in Unbilled /\ Bamboo!ThinkingOf(x).type \in Unbilled
               /\ Bamboo!TextOf(x).type \in Unbilled /\ Bamboo!ToolBlock(x).type \in Unbilled
               /\ Bamboo!BlockStopOf(x).type \in Unbilled /\ Bamboo!StopEvent(x).type \in Unbilled
               /\ \A y : Bamboo!Fragment(x, NoIndex, y).type \in Unbilled
    BY DEF Bamboo!BlockOf, Bamboo!ThinkingOf, Bamboo!TextOf, Bamboo!ToolBlock,
       Bamboo!BlockStopOf, Bamboo!StopEvent, Bamboo!Fragment, Bamboo!PEvent, Middle, Unbilled
  <2>2. Bamboo!SignatureEvent.type \in Unbilled /\ Bamboo!RedactedEvent.type \in Unbilled
    BY DEF Bamboo!SignatureEvent, Bamboo!RedactedEvent,
       Bamboo!Plain, Bamboo!PEvent, Middle, Unbilled
  <2> DEFINE M(x) == Made(x, Unbilled)
  <2>3. \A x : /\ M(<<Bamboo!BlockOf(x)>>) /\ M(<<Bamboo!ThinkingOf(x)>>)
               /\ M(<<Bamboo!TextOf(x)>>) /\ M(<<Bamboo!ToolBlock(x)>>)
               /\ M(<<Bamboo!BlockStopOf(x)>>) /\ M(<<Bamboo!StopEvent(x)>>)
               /\ \A y : M(<<Bamboo!Fragment(x, NoIndex, y)>>)
    BY <2>1, MadeOne
  <2>4. M(<<Bamboo!SignatureEvent>>) /\ M(<<Bamboo!RedactedEvent>>)
    BY <2>2, MadeOne
  <2>5. M(<<>>)
    BY MadeEmpty
  <2>6. \A d, x : M(x) => M(Bamboo!Only(d, x))
    BY MadeEmpty DEF Bamboo!Only
  <2>7. \A x, y : M(x) /\ M(y) => M(x \o y)
    BY MadeJoin
  <2> HIDE DEF M
  <2>8. M(Bamboo!BambooBlockStart(f))
    BY <2>3, <2>4, <2>5, <2>6, <2>7, Zenon DEF Bamboo!BambooBlockStart
  <2>9. M(Bamboo!BambooBlockDelta(f))
    BY <2>3, <2>4, <2>5, <2>6, <2>7, Zenon DEF Bamboo!BambooBlockDelta
  <2>10. f.type \notin {"error", "message_start", "message_delta"} => M(says)
    BY <2>3, <2>4, <2>5, <2>6, <2>8, <2>9, Zenon DEF Bamboo!BambooEvents
  <2> QED
    BY <2>10 DEF M
<1>4. f.type = "error" => says = <<Bamboo!ErrorEvent>>
  BY DEF Bamboo!BambooEvents
<1>u. /\ f.type = "message_start" =>
            Made(says, Middle) /\ (Reports(says) <=> f.usage)
      /\ f.type = "message_delta" =>
            Made(says, Middle) /\ (Reports(says) <=> f.usage = "inside")
  <2>1. Bamboo!UsageEvent.type = "usage"
    BY DEF Bamboo!UsageEvent, Bamboo!Plain, Bamboo!PEvent
  <2> DEFINE x == Bamboo!Only(f.usage, <<Bamboo!UsageEvent>>)
             y == Bamboo!Only(f.usage = "inside", <<Bamboo!UsageEvent>>)
  <2>2. /\ Made(x, Middle) /\ (Reports(x) <=> f.usage)
        /\ Made(y, Middle) /\ (Reports(y) <=> f.usage = "inside")
    BY <2>1, ReportsOnly DEF Bamboo!Only, API!Only
  <2>3. f.type = "message_start" => says = x
    BY DEF Bamboo!BambooEvents
  <2>4. f.type = "message_delta" => says = y
    BY DEF Bamboo!BambooEvents
  <2> HIDE DEF says, x, y
  <2> QED
    BY <2>2, <2>3, <2>4
<1>5. "start" \in DOMAIN r.a /\ r.a.start = TRUE /\ r.then = "read" /\ r.out = start \o says
  BY DEF Bamboo!BambooFrame
<1> HIDE DEF r, start, says
<1>6. Speaks(says, FALSE, TRUE)
  <2>1. f.type # "error" => Made(says, Middle)
    BY <1>3, <1>u, UnbilledMiddle
  <2> QED
    BY <1>2, <1>4, <2>1, MiddleSpeaks
<1>9. Reports(says) <=> \/ f.type = "message_start" /\ f.usage
                        \/ f.type = "message_delta" /\ f.usage = "inside"
  <2>1. f.type \notin {"error", "message_start", "message_delta"} => ~Reports(says)
    BY <1>3, ReportsNot DEF Unbilled
  <2> QED
    BY <1>2, <1>4, <1>u, <2>1
<1>10. Reports(r.out) <=> Reports(says)
  BY <1>1, <1>5, <1>6, ReportsJoin DEF Speaks
<1>7. Speaks(start \o says, ~b.start, TRUE)
  BY <1>1, <1>6, SpeaksJoin
<1>8. Speaks(r.out, ~b.start, k \in ReadsOn \/ r.then # "read")
  BY <1>5, <1>7 DEF Speaks
<1>11. FrameResult(k, b, r)
  BY <1>5, <1>8 DEF FrameResult
<1> QED
  BY <1>9, <1>10, <1>11 DEF r

\* The Responses API over its two transports.
LEMMA ResponsesSays ==
    ASSUME NEW b, "start" \in DOMAIN b, b.start \in BOOLEAN, NEW f
    PROVE  /\ FrameResult("responses", b, Responses!ResponsesFrame(b, f))
           /\ FrameResult("websocket", b, Responses!WebSocketFrame(b, f))
           /\ \A r \in {Responses!ResponsesFrame(b, f), Responses!WebSocketFrame(b, f)} :
                 Reports(r.out) <=> f.type \in {"completed", "incomplete", "failed"} /\ f.usage
<1> DEFINE h == Responses!ResponsesFrame(b, f)
           w == Responses!WebSocketFrame(b, f)
           start == Responses!Only(~b.start, <<Responses!StartEvent>>)
           says == Responses!ResponsesEvents(b, f)
           isError == f.type \in {"error", "failed"}
           isLast == f.type \in {"completed", "incomplete", "failed"}
<1>1. Speaks(start, ~b.start, FALSE) /\ ~Reports(start)
  BY StartSpeaks, StartReports DEF Responses!Only, API!Only, Responses!StartEvent, API!StartEvent,
     Responses!Plain, API!Plain, Responses!PEvent, API!PEvent, Responses!Nothing, API!Nothing
<1>2. Speaks(<<Responses!ErrorEvent>>, FALSE, TRUE) /\ ~Reports(<<Responses!ErrorEvent>>)
  BY ErrorSpeaks, ErrorReports DEF Responses!ErrorEvent, API!ErrorEvent, Responses!Plain, API!Plain,
     Responses!PEvent, API!PEvent, Responses!Nothing, API!Nothing
<1>a. LET x == Responses!Only(f.usage, <<Responses!UsageEvent>>)
      IN  Made(x, Middle) /\ (Reports(x) <=> f.usage)
  <2>1. Responses!UsageEvent.type = "usage"
    BY DEF Responses!UsageEvent, Responses!Plain, Responses!PEvent
  <2> QED
    BY <2>1, ReportsOnly DEF Responses!Only, API!Only
<1>3. ~isError /\ ~isLast => Made(says, Unbilled)
  <2>1. \A x : /\ Responses!BlockOf(x).type \in Unbilled /\ Responses!ThinkingOf(x).type \in Unbilled
               /\ Responses!TextOf(x).type \in Unbilled /\ Responses!StopEvent(x).type \in Unbilled
               /\ Responses!MetadataOf(x).type \in Unbilled /\ Responses!ToolCall(x, NoIndex).type \in Unbilled
               /\ \A y : Responses!Fragment(x, NoIndex, y).type \in Unbilled
    BY DEF Responses!BlockOf, Responses!ThinkingOf, Responses!TextOf, Responses!StopEvent,
       Responses!MetadataOf, Responses!ToolCall, Responses!Fragment, Responses!PEvent, Middle, Unbilled
  <2>2. Responses!SignatureEvent.type \in Unbilled
    BY DEF Responses!SignatureEvent, Responses!Plain, Responses!PEvent, Middle, Unbilled
  <2> DEFINE M(x) == Made(x, Unbilled)
  <2>3. \A x : /\ M(<<Responses!BlockOf(x)>>) /\ M(<<Responses!ThinkingOf(x)>>)
               /\ M(<<Responses!TextOf(x)>>) /\ M(<<Responses!StopEvent(x)>>)
               /\ M(<<Responses!MetadataOf(x)>>) /\ M(<<Responses!ToolCall(x, NoIndex)>>)
               /\ \A y : M(<<Responses!Fragment(x, NoIndex, y)>>)
    BY <2>1, MadeOne
  <2>4. M(<<Responses!SignatureEvent>>)
    BY <2>2, MadeOne
  <2>5. M(<<>>)
    BY MadeEmpty
  <2>6. \A d, x : M(x) => M(Responses!Only(d, x))
    BY MadeEmpty DEF Responses!Only
  <2>7. \A x, y : M(x) /\ M(y) => M(x \o y)
    BY MadeJoin
  <2> HIDE DEF M
  <2>8. \A d, k, x : M(x) => M(Responses!WithBlock(d, k, x))
    BY <2>3, <2>6, <2>7, Zenon DEF Responses!WithBlock
  <2>9. M(Responses!ItemAdded(b, f))
    BY <2>3, <2>4, <2>6, <2>8, Zenon DEF Responses!ItemAdded
  <2>11. ~isError /\ ~isLast => M(says)
    BY <2>3, <2>5, <2>8, <2>9, Zenon DEF Responses!ResponsesEvents
  <2> QED
    BY <2>11 DEF M
<1>f. /\ f.type = "error" => says = <<Responses!ErrorEvent>>
      /\ f.type = "failed" =>
            says = Responses!Only(f.usage, <<Responses!UsageEvent>>) \o <<Responses!ErrorEvent>>
  BY DEF Responses!ResponsesEvents, Responses!FinalEvents
<1>4. isError => \/ says = <<Responses!ErrorEvent>>
                 \/ says = Responses!Only(f.usage, <<Responses!UsageEvent>>) \o <<Responses!ErrorEvent>>
  BY DEF Responses!ResponsesEvents, Responses!FinalEvents
<1>e. isLast /\ ~isError => Made(says, Middle) /\ (Reports(says) <=> f.usage)
  <2> DEFINE x == Responses!Only(f.usage, <<Responses!UsageEvent>>)
             stop == Responses!StopEvent(Responses!ResponseFinishReason(f))
  <2>1. isLast /\ ~isError => says = x \o <<stop>>
    BY DEF Responses!ResponsesEvents, Responses!FinalEvents
  <2>2. stop.type \in Unbilled
    BY DEF Responses!StopEvent, Responses!PEvent, Middle, Unbilled
  <2>3. Made(<<stop>>, Unbilled)
    BY <2>2, MadeOne
  <2>4. Made(x, Middle) /\ (Reports(x) <=> f.usage)
    BY <1>a
  <2> HIDE DEF says, x, stop
  <2>5. Made(x \o <<stop>>, Middle)
    BY <2>3, <2>4, UnbilledMiddle, MadeJoin
  <2>6. Reports(x \o <<stop>>) <=> f.usage
    BY <2>3, <2>4, ReportsOn
  <2> QED
    BY <2>1, <2>5, <2>6
<1>5. /\ f.type = "junk" => h = [a |-> b, out |-> <<>>, then |-> "read"]
      /\ f.type # "junk" => /\ "start" \in DOMAIN h.a /\ h.a.start = TRUE /\ h.then = "read"
                            /\ h.out = start \o says
  BY DEF Responses!ResponsesFrame
<1>6. /\ isError /\ ~b.start => w = [a |-> b, out |-> says, then |-> "return"]
      /\ ~(isError /\ ~b.start) => /\ w.a = h.a /\ w.out = h.out
                                   /\ f.type = "junk" => w.then = "read"
                                   /\ f.type # "junk" => w.then \in {"read", "end"}
                                   /\ isError => w.then = "end"
  <2>1. DOMAIN h = {"a", "out", "then"}
    BY DEF Responses!ResponsesFrame
  <2> HIDE DEF h
  <2> QED
    BY <1>5, <2>1 DEF Responses!WebSocketFrame, h
<1> HIDE DEF h, w, start, says
<1>7. Speaks(says, FALSE, isError)
  <2>1. Speaks(Responses!Only(f.usage, <<Responses!UsageEvent>>) \o <<Responses!ErrorEvent>>, FALSE, TRUE)
    <3> DEFINE y == Responses!Only(f.usage, <<Responses!UsageEvent>>)
    <3>1. Speaks(y, FALSE, FALSE)
      BY <1>a, MiddleSpeaks
    <3> HIDE DEF y
    <3>2. Speaks(y \o <<Responses!ErrorEvent>>, FALSE, TRUE)
      BY <1>2, <3>1, SpeaksJoin
    <3> QED
      BY <3>2 DEF y
  <2>2. isError => Speaks(says, FALSE, TRUE)
    BY <1>2, <1>4, <2>1
  <2>3. ~isError => Speaks(says, FALSE, FALSE)
    BY <1>3, <1>e, UnbilledMiddle, MiddleSpeaks
  <2> QED
    BY <2>2, <2>3 DEF Speaks
<1>r. Reports(says) <=> isLast /\ f.usage
  <2> DEFINE x == Responses!Only(f.usage, <<Responses!UsageEvent>>)
  <2>1. Made(x, Middle) /\ (Reports(x) <=> f.usage)
    BY <1>a
  <2> HIDE DEF x
  <2>2. f.type = "error" => ~Reports(says)
    BY <1>2, <1>f
  <2>3. f.type = "failed" => (Reports(says) <=> f.usage)
    <3>1. f.type = "failed" => says = x \o <<Responses!ErrorEvent>>
      BY <1>f DEF x
    <3>2. Made(<<Responses!ErrorEvent>>, Speech)
      BY <1>2 DEF Speaks
    <3>3. Reports(x \o <<Responses!ErrorEvent>>) <=> f.usage
      BY <1>2, <2>1, <3>2, ReportsJoin
    <3> QED
      BY <3>1, <3>3
  <2>4. ~isError /\ ~isLast => ~Reports(says)
    BY <1>3, ReportsNot DEF Unbilled
  <2> QED
    BY <1>e, <2>2, <2>3, <2>4
<1>t. Reports(start \o says) <=> isLast /\ f.usage
  BY <1>1, <1>7, <1>r, ReportsJoin DEF Speaks
<1>8. Speaks(start \o says, ~b.start, isError)
  BY <1>1, <1>7, SpeaksJoin
<1>9. \A c, d : Speaks(<<>>, c, d)
  BY MadeEmpty, MiddleSpeaks
<1>10. FrameResult("responses", b, h)
  <2>0. "responses" \in ReadsOn
    BY DEF ReadsOn
  <2>1. CASE f.type = "junk"
    <3>1. Speaks(h.out, ~b.start, "responses" \in ReadsOn \/ h.then # "read")
      BY <1>5, <1>9, <2>1
    <3> QED
      BY <1>5, <2>1, <3>1 DEF FrameResult
  <2>2. CASE f.type # "junk"
    <3>1. Speaks(h.out, ~b.start, "responses" \in ReadsOn \/ h.then # "read")
      BY <1>5, <1>8, <2>0, <2>2 DEF Speaks
    <3> QED
      BY <1>5, <2>2, <3>1 DEF FrameResult
  <2> QED
    BY <2>1, <2>2
<1>11. FrameResult("websocket", b, w)
  <2>1. CASE isError /\ ~b.start
    <3>1. Speaks(w.out, ~b.start, "websocket" \in ReadsOn \/ w.then # "read")
      BY <1>6, <1>7, <2>1 DEF Speaks
    <3>2. \A p \in 1..Len(w.out) : w.out[p].type # "start"
      BY <1>6, <1>7, <2>1 DEF Speaks
    <3> QED
      BY <1>6, <2>1, <3>1, <3>2 DEF FrameResult
  <2>2. CASE ~(isError /\ ~b.start)
    <3>1. isError => f.type # "junk"
      OBVIOUS
    <3>2. Speaks(w.out, ~b.start, "websocket" \in ReadsOn \/ w.then # "read")
      <4>1. f.type = "junk" => w.out = <<>>
        BY <1>5, <1>6, <2>2
      <4>2. f.type # "junk" => w.out = start \o says /\ (isError => w.then = "end")
        BY <1>5, <1>6, <2>2
      <4>3. CASE f.type = "junk"
        BY <1>9, <4>1, <4>3
      <4>4. CASE f.type # "junk"
        BY <1>8, <4>2, <4>4 DEF Speaks
      <4> QED
        BY <4>3, <4>4
    <3>3. CASE f.type = "junk"
      BY <1>5, <1>6, <2>2, <3>2, <3>3 DEF FrameResult
    <3>4. CASE f.type # "junk"
      <4>1. w.a.start = TRUE /\ "start" \in DOMAIN w.a /\ w.then \in {"read", "end"}
        BY <1>5, <1>6, <2>2, <3>4
      <4> QED
        BY <3>2, <4>1 DEF FrameResult
    <3> QED
      BY <3>3, <3>4
  <2> QED
    BY <2>1, <2>2
<1>12. Reports(h.out) <=> isLast /\ f.usage
  <2>1. f.type = "junk" => ~Reports(h.out) /\ ~isLast
    BY <1>5, ReportsNone
  <2> QED
    BY <1>5, <1>t, <2>1
<1>13. Reports(w.out) <=> isLast /\ f.usage
  BY <1>6, <1>r, <1>12
<1> QED
  BY <1>10, <1>11, <1>12, <1>13 DEF h, w

-----------------------------------------------------------------------------
(* What an adapter sends at the end: Done last, a start only when there was  *)
(* none, an error only when there was no start and before everything else.  *)

\* What a failed adapter still says.
Farewell == {"stop", "done"}

\* All that an adapter sends at the end: no usage.
Farewells == (Speech \ {"usage"}) \cup {"done"}

\* What q, sent behind the last frame, may be: Done is its last event, a start
\* is the only one there ever was, an error comes only if nothing was sent
\* before, and a WebSocket call that had begun says but farewell.
EndResult(k, b, q) ==
    /\ Made(q, Farewells)
    /\ \A p \in 1..Len(q) : q[p].type = "done" => p = Len(q)
    /\ \A p \in 1..Len(q) : q[p].type = "start" =>
          ~b.start /\ \A r \in 1..Len(q) : q[r].type = "start" => r = p
    /\ \A p \in 1..Len(q) : q[p].type = "error" => p = 1 /\ ~b.start
    /\ k = "websocket" /\ b.start => \A p \in 1..Len(q) : q[p].type \in Farewell

\* The part of it before Done: an error first, if at all, and only when nothing
\* was sent.
Opens(q, b) ==
    /\ Made(q, Unbilled \cup {"error"})
    /\ \A p \in 1..Len(q) : q[p].type = "error" => p = 1 /\ ~b.start

LEMMA OpensWith ==
    ASSUME NEW b, NEW broken \in BOOLEAN, b.start \in BOOLEAN
    PROVE  Opens(API!Only(broken /\ ~b.start, <<API!ErrorEvent>>), b)
<1>1. API!ErrorEvent.type = "error"
  BY DEF API!ErrorEvent, API!Plain, API!PEvent
<1>2. Made(<<API!ErrorEvent>>, Unbilled \cup {"error"}) /\ Made(<<>>, Unbilled \cup {"error"})
  BY <1>1, MadeOne, MadeEmpty
<1>3. Len(<<API!ErrorEvent>>) = 1 /\ Len(<<>>) = 0
  OBVIOUS
<1> QED
  BY <1>2, <1>3 DEF Opens, API!Only

LEMMA OpensOn ==
    ASSUME NEW q, NEW b, Opens(q, b), NEW y, Made(y, Unbilled)
    PROVE  Opens(q \o y, b)
<1>1. Made(y, Unbilled \cup {"error"})
  BY MadeMore
<1>2. Made(q \o y, Unbilled \cup {"error"})
  BY <1>1, MadeJoin DEF Opens
<1>3. /\ Len(q) \in Nat /\ Len(y) \in Nat /\ Len(q \o y) = Len(q) + Len(y)
      /\ \A p \in 1..(Len(q) + Len(y)) : (q \o y)[p] = IF p <= Len(q) THEN q[p] ELSE y[p - Len(q)]
      /\ \A p \in 1..Len(y) : y[p].type \in Unbilled
  <2>1. PICK S : q \in Seq(S) /\ \A e \in S : e.type \in Unbilled \cup {"error"}
    BY DEF Opens, Made
  <2>2. PICK R : y \in Seq(R) /\ \A e \in R : e.type \in Unbilled
    BY DEF Made
  <2> QED
    BY <2>1, <2>2
<1>4. ASSUME NEW p \in 1..Len(q \o y), (q \o y)[p].type = "error"
      PROVE  p = 1 /\ ~b.start
  <2>1. CASE p <= Len(q)
    <3>1. p \in 1..Len(q) /\ (q \o y)[p] = q[p]
      BY <1>3, <1>4, <2>1
    <3> QED
      BY <1>4, <3>1 DEF Opens
  <2>2. CASE ~(p <= Len(q))
    <3>1. p - Len(q) \in 1..Len(y) /\ (q \o y)[p] = y[p - Len(q)]
      BY <1>3, <1>4, <2>2
    <3>2. "error" \notin Unbilled
      BY DEF Unbilled, Middle
    <3> QED
      BY <1>3, <1>4, <3>1, <3>2
  <2> QED
    BY <2>1, <2>2
<1> QED
  BY <1>2, <1>4 DEF Opens

\* Done alone, or behind a late start.
LEMMA ClosesDone ==
    ASSUME NEW k, NEW q, NEW b, Opens(q, b), NEW y, y \in {<<>>, <<API!StartEvent>>},
           y # <<>> => ~b.start,
           k = "websocket" /\ b.start => \A p \in 1..Len(q) : q[p].type \in Farewell
    PROVE  EndResult(k, b, q \o y \o <<API!DoneEvent>>)
<1> DEFINE z == q \o y \o <<API!DoneEvent>>
           T == Farewells
<1>1. API!StartEvent.type = "start" /\ API!DoneEvent.type = "done"
  BY DEF API!StartEvent, API!DoneEvent, API!Plain, API!PEvent
<1>2. Unbilled \cup {"error"} \subseteq T /\ "start" \in T /\ "done" \in T
  BY DEF Farewells, Speech, Unbilled
<1>3. Made(q, T)
  BY <1>2, MadeMore DEF Opens
<1>4. Made(<<>>, T) /\ Made(<<API!StartEvent>>, T) /\ Made(<<API!DoneEvent>>, T)
  BY <1>1, <1>2, MadeEmpty, MadeOne
<1>5. Made(z, T)
  BY <1>3, <1>4, MadeJoin
<1>6. /\ Len(q) \in Nat /\ Len(y) \in {0, 1} /\ (Len(y) = 1 => ~b.start)
      /\ Len(z) = Len(q) + Len(y) + 1
      /\ \A p \in 1..Len(q) : z[p] = q[p] /\ q[p].type \in Unbilled \cup {"error"}
      /\ \A p \in 1..Len(z) : p > Len(q) =>
            \/ p = Len(z) /\ z[p] = API!DoneEvent
            \/ Len(y) = 1 /\ p = Len(q) + 1 /\ z[p] = API!StartEvent
  <2>1. PICK S : q \in Seq(S) /\ \A e \in S : e.type \in Unbilled \cup {"error"}
    BY DEF Opens, Made
  <2>2. CASE y = <<>>
    <3>1. q \o y = q
      BY <2>1, <2>2
    <3>2. z = Append(q, API!DoneEvent)
      BY <2>1, <3>1
    <3> HIDE DEF z
    <3> QED
      BY <2>1, <2>2, <3>2
  <2>3. CASE y = <<API!StartEvent>>
    <3>1. q \o y = Append(q, API!StartEvent)
      BY <2>1, <2>3
    <3>2. Append(q, API!StartEvent) \in Seq(S \cup {API!StartEvent})
      BY <2>1
    <3>3. z = Append(Append(q, API!StartEvent), API!DoneEvent)
      BY <3>1, <3>2
    <3> HIDE DEF z
    <3>4. Len(y) = 1 /\ ~b.start
      BY <2>3
    <3> QED
      BY <2>1, <3>2, <3>3, <3>4
  <2> QED
    BY <2>2, <2>3
<1>7. "start" \notin Unbilled /\ "done" \notin Unbilled /\ "error" \notin Unbilled
  BY DEF Unbilled, Middle
<1> HIDE DEF z
<1>8. \A p \in 1..Len(z) : z[p].type = "done" => p = Len(z)
  BY <1>1, <1>6, <1>7
<1>9. \A p \in 1..Len(z) : z[p].type = "start" => ~b.start /\ p = Len(q) + 1
  BY <1>1, <1>6, <1>7
<1>10. \A p \in 1..Len(z) : z[p].type = "error" => p \in 1..Len(q)
  BY <1>1, <1>6, <1>7
<1>11. \A p \in 1..Len(z) : z[p].type = "error" => p = 1 /\ ~b.start
  BY <1>6, <1>10 DEF Opens
<1>12. k = "websocket" /\ b.start => \A p \in 1..Len(z) : z[p].type \in Farewell
  BY <1>1, <1>6 DEF Farewell
<1>13. EndResult(k, b, z)
  BY <1>5, <1>8, <1>9, <1>11, <1>12 DEF EndResult
<1> QED
  BY <1>13 DEF z

\* With a Done behind it, it is the end of the reply.
LEMMA ClosesPlain ==
    ASSUME NEW k, NEW q, NEW b, Opens(q, b),
           k = "websocket" /\ b.start => \A p \in 1..Len(q) : q[p].type \in Farewell
    PROVE  EndResult(k, b, q \o <<API!DoneEvent>>)
<1>1. EndResult(k, b, q \o <<>> \o <<API!DoneEvent>>)
  <2> DEFINE y == <<>>
  <2>1. y \in {<<>>, <<API!StartEvent>>} /\ ~(y # <<>>)
    OBVIOUS
  <2> HIDE DEF y
  <2>2. EndResult(k, b, q \o y \o <<API!DoneEvent>>)
    BY <2>1, ClosesDone
  <2> QED
    BY <2>2 DEF y
<1>2. q \o <<>> = q
  <2>1. PICK S : q \in Seq(S)
    BY DEF Opens, Made
  <2> QED
    BY <2>1
<1> QED
  BY <1>1, <1>2

LEMMA OpensWithStop ==
    ASSUME NEW q, NEW b, Opens(q, b), NEW c, NEW r
    PROVE  Opens(q \o API!Only(c, <<API!StopEvent(r)>>), b)
<1>1. API!StopEvent(r).type \in Unbilled
  BY DEF API!StopEvent, API!PEvent, Unbilled, Middle
<1>2. Made(<<API!StopEvent(r)>>, Unbilled)
  BY <1>1, MadeOne
<1>3. Made(API!Only(c, <<API!StopEvent(r)>>), Unbilled)
  BY <1>2, MadeOnly
<1> QED
  BY <1>3, OpensOn

\* EndResult holds of each adapter's end.
LEMMA CompletionsEndSays ==
    ASSUME NEW k, k # "websocket", NEW b, b.start \in BOOLEAN, NEW broken \in BOOLEAN, NEW degraded
    PROVE  EndResult(k, b, Completions!CompletionsEnd(b, broken, degraded))
<1> DEFINE e == API!Only(broken /\ ~b.start, <<API!ErrorEvent>>)
           m == API!Only(b.strip, Completions!SyncBlockState(b, Completions!FlushStripper(b.stripper)).out)
           s == API!Only(~b.stop, <<API!StopEvent(degraded)>>)
<1>1. Opens(e, b)
  BY OpensWith
<1>2. Made(m, Unbilled)
  <2>1. Made(Completions!SyncBlockState(b, Completions!FlushStripper(b.stripper)).out, Stripped)
    BY FlushMade, SyncMade
  <2>2. Stripped \subseteq Unbilled
    BY DEF Stripped, Unbilled, Middle
  <2> QED
    BY <2>1, <2>2, MadeMore, MadeOnly
<1>3. Opens(e \o m, b)
  BY <1>1, <1>2, OpensOn
<1>4. Opens(e \o m \o s, b)
  BY <1>3, OpensWithStop
<1>5. Completions!CompletionsEnd(b, broken, degraded) = e \o m \o s \o <<API!DoneEvent>>
  BY Zenon DEF Completions!CompletionsEnd, Completions!ErrorEvent, API!ErrorEvent, Completions!StartEvent, API!StartEvent,
     Completions!DoneEvent, API!DoneEvent, Completions!Plain, API!Plain, Completions!PEvent, API!PEvent, Completions!Nothing, API!Nothing,
     Completions!Only, API!Only,
     Completions!StopEvent, API!StopEvent
<1> HIDE DEF e, m, s
<1>6. EndResult(k, b, e \o m \o s \o <<API!DoneEvent>>)
  BY <1>4, ClosesPlain
<1> QED
  BY <1>5, <1>6

LEMMA GeminiEndSays ==
    ASSUME NEW k, k # "websocket", NEW b, b.start \in BOOLEAN, NEW broken \in BOOLEAN, NEW degraded
    PROVE  EndResult(k, b, Gemini!GeminiEnd(b, broken, degraded))
<1> DEFINE e == API!Only(broken /\ ~b.start, <<API!ErrorEvent>>)
           s == API!Only(~b.stop, <<API!StopEvent(IF b.sawToolCall THEN "tool_calls" ELSE degraded)>>)
<1>1. Opens(e, b)
  BY OpensWith
<1>2. Opens(e \o s, b)
  BY <1>1, OpensWithStop
<1>3. Gemini!GeminiEnd(b, broken, degraded) = e \o s \o <<API!DoneEvent>>
  BY Zenon DEF Gemini!GeminiEnd, Gemini!ErrorEvent, API!ErrorEvent, Gemini!StartEvent, API!StartEvent,
     Gemini!DoneEvent, API!DoneEvent, Gemini!Plain, API!Plain, Gemini!PEvent, API!PEvent, Gemini!Nothing, API!Nothing,
     Gemini!Only, API!Only,
     Gemini!StopEvent, API!StopEvent
<1> HIDE DEF e, s
<1>4. EndResult(k, b, e \o s \o <<API!DoneEvent>>)
  BY <1>2, ClosesPlain
<1> QED
  BY <1>3, <1>4

LEMMA AnthropicEndSays ==
    ASSUME NEW k, k # "websocket", NEW b, b.start \in BOOLEAN, NEW broken \in BOOLEAN, NEW degraded
    PROVE  EndResult(k, b, Anthropic!AnthropicEnd(b, broken, degraded))
<1> DEFINE e == API!Only(broken /\ ~b.start, <<API!ErrorEvent>>)
           s == API!Only(b.finish = Anthropic!NoReason /\ b.start, <<API!StopEvent(degraded)>>)
<1>1. Opens(e, b)
  BY OpensWith
<1>2. Opens(e \o s, b)
  BY <1>1, OpensWithStop
<1>3. Anthropic!AnthropicEnd(b, broken, degraded) = e \o s \o <<API!DoneEvent>>
  BY Zenon DEF Anthropic!AnthropicEnd, Anthropic!ErrorEvent, API!ErrorEvent, Anthropic!StartEvent, API!StartEvent,
     Anthropic!DoneEvent, API!DoneEvent, Anthropic!Plain, API!Plain, Anthropic!PEvent, API!PEvent, Anthropic!Nothing, API!Nothing,
     Anthropic!Only, API!Only,
     Anthropic!StopEvent, API!StopEvent
<1> HIDE DEF e, s
<1>4. EndResult(k, b, e \o s \o <<API!DoneEvent>>)
  BY <1>2, ClosesPlain
<1> QED
  BY <1>3, <1>4

LEMMA BambooEndSays ==
    ASSUME NEW k, k # "websocket", NEW b, b.start \in BOOLEAN, NEW broken \in BOOLEAN
    PROVE  EndResult(k, b, Bamboo!BambooEnd(b, broken))
<1> DEFINE e == API!Only(broken /\ ~b.start, <<API!ErrorEvent>>)
           s == API!Only(b.finish = "none" /\ b.start, <<API!StopEvent("stop")>>)
<1>1. Opens(e, b)
  BY OpensWith
<1>2. Opens(e \o s, b)
  BY <1>1, OpensWithStop
<1>3. Bamboo!BambooEnd(b, broken) = e \o s \o <<API!DoneEvent>>
  BY Zenon DEF Bamboo!BambooEnd, Bamboo!ErrorEvent, API!ErrorEvent, Bamboo!StartEvent, API!StartEvent,
     Bamboo!DoneEvent, API!DoneEvent, Bamboo!Plain, API!Plain, Bamboo!PEvent, API!PEvent, Bamboo!Nothing, API!Nothing,
     Bamboo!Only, API!Only,
     Bamboo!StopEvent, API!StopEvent
<1> HIDE DEF e, s
<1>4. EndResult(k, b, e \o s \o <<API!DoneEvent>>)
  BY <1>2, ClosesPlain
<1> QED
  BY <1>3, <1>4

LEMMA ResponsesEndSays ==
    ASSUME NEW k, NEW b, b.start \in BOOLEAN, NEW broken \in BOOLEAN, NEW degraded
    PROVE  EndResult(k, b, Responses!ResponsesEnd(b, broken, degraded))
<1> DEFINE e == API!Only(broken /\ ~b.start, <<API!ErrorEvent>>)
           s == API!Only(~b.stop /\ b.start, <<API!StopEvent(degraded)>>)
           y == API!Only(~b.start, <<API!StartEvent>>)
<1>1. Opens(e, b)
  BY OpensWith
<1>2. Opens(e \o s, b)
  BY <1>1, OpensWithStop
<1>3. Responses!ResponsesEnd(b, broken, degraded) = e \o s \o y \o <<API!DoneEvent>>
  BY Zenon DEF Responses!ResponsesEnd, Responses!ErrorEvent, API!ErrorEvent, Responses!StartEvent, API!StartEvent,
     Responses!DoneEvent, API!DoneEvent, Responses!Plain, API!Plain, Responses!PEvent, API!PEvent, Responses!Nothing, API!Nothing,
     Responses!Only, API!Only,
     Responses!StopEvent, API!StopEvent
<1>4. y \in {<<>>, <<API!StartEvent>>} /\ (y # <<>> => ~b.start)
  BY DEF API!Only
<1>5. b.start => \A p \in 1..Len(e \o s) : (e \o s)[p].type \in Farewell
  <2>1. API!StopEvent(degraded).type \in Farewell
    BY DEF API!StopEvent, API!PEvent, Farewell
  <2>2. Made(<<API!StopEvent(degraded)>>, Farewell)
    BY <2>1, MadeOne
  <2>3. Made(s, Farewell)
    BY <2>2, MadeOnly
  <2>4. b.start => Made(e, Farewell)
    BY MadeEmpty DEF API!Only
  <2> HIDE DEF e, s
  <2>5. b.start => Made(e \o s, Farewell)
    BY <2>3, <2>4, MadeJoin
  <2> QED
    BY <2>5, MadeAt
<1> HIDE DEF e, s, y
<1>6. EndResult(k, b, e \o s \o y \o <<API!DoneEvent>>)
  BY <1>2, <1>4, <1>5, ClosesDone
<1> QED
  BY <1>3, <1>6

-----------------------------------------------------------------------------
(* The adapter of the reply. *)

\* The answer to a frame, for every kind of upstream.
LEMMA AdapterAnswers ==
    ASSUME kind \in API!Kinds, "start" \in DOMAIN a, a.start \in BOOLEAN, NEW f, Legible(kind, f)
    PROVE  /\ FrameResult(kind, a, AdapterFrame(f))
           /\ Reports(AdapterFrame(f).out) <=> TellsUsage(f)
<1>0. Billed(kind, f) <=> TellsUsage(f)
  BY DEF Legible
<1>1. CASE kind \in CompletionsKinds
  <2>1. WholeChunk(f)
    BY <1>1 DEF Legible
  <2>2. AdapterFrame(f) = Completions!CompletionsFrame(a, f)
    BY <1>1 DEF AdapterFrame, CompletionsKinds
  <2>3. Billed(kind, f) <=> f.type \notin {"error", "junk"} /\ f.usage
    BY <1>1 DEF Billed, CompletionsKinds
  <2> QED
    BY <1>0, <2>1, <2>2, <2>3, CompletionsSays
<1>2. CASE kind = "gemini"
  <2>1. Billed(kind, f) <=> f.type \notin {"error", "junk"} /\ f.usage
    BY <1>2 DEF Billed, CompletionsKinds
  <2>2. AdapterFrame(f) = Gemini!GeminiFrame(a, f) /\ WholeCandidate(f)
    BY <1>2 DEF AdapterFrame, CompletionsKinds, Legible
  <2> QED
    BY <1>0, <1>2, <2>1, <2>2, GeminiSays
<1>3. CASE kind \in {"responses", "websocket"}
  <2>1. Billed(kind, f) <=> f.type \in {"completed", "incomplete", "failed"} /\ f.usage
    BY <1>3 DEF Billed, CompletionsKinds
  <2>2. /\ kind = "responses" => AdapterFrame(f) = Responses!ResponsesFrame(a, f)
        /\ kind = "websocket" => AdapterFrame(f) = Responses!WebSocketFrame(a, f)
    BY DEF AdapterFrame, CompletionsKinds
  <2> QED
    BY <1>0, <1>3, <2>1, <2>2, ResponsesSays
<1>4. CASE kind \in FramedKinds
  <2>1. Billed(kind, f) <=> \/ f.type = "message_start" /\ f.usage
                            \/ f.type = "message_delta" /\ f.usage = "inside"
    BY <1>4 DEF Billed, CompletionsKinds, FramedKinds
  <2>2. /\ kind = "anthropic" => AdapterFrame(f) = Anthropic!AnthropicFrame(a, f)
        /\ kind = "bamboo" => AdapterFrame(f) = Bamboo!BambooFrame(a, f)
        /\ kind \in ReadsOn
    BY <1>4 DEF AdapterFrame, CompletionsKinds, FramedKinds, ReadsOn
  <2> QED
    BY <1>0, <1>4, <2>1, <2>2, AnthropicSays, BambooSays DEF FramedKinds
<1> QED
  BY <1>1, <1>2, <1>3, <1>4 DEF API!Kinds, CompletionsKinds, FramedKinds

\* The end, for every kind of upstream.
LEMMA AdapterEnds ==
    ASSUME kind \in API!Kinds, a.start \in BOOLEAN, NEW broken \in BOOLEAN, NEW degraded
    PROVE  EndResult(kind, a, AdapterEnd(broken, degraded))
<1>1. CASE kind \in CompletionsKinds
  BY <1>1, CompletionsEndSays DEF AdapterEnd, CompletionsKinds
<1>2. CASE kind = "gemini"
  BY <1>2, GeminiEndSays DEF AdapterEnd, CompletionsKinds
<1>3. CASE kind \in {"responses", "websocket"}
  BY <1>3, ResponsesEndSays DEF AdapterEnd, CompletionsKinds
<1>4. CASE kind = "anthropic"
  BY <1>4, AnthropicEndSays DEF AdapterEnd, CompletionsKinds
<1>5. CASE kind = "bamboo"
  BY <1>5, BambooEndSays DEF AdapterEnd, CompletionsKinds
<1> QED
  BY <1>1, <1>2, <1>3, <1>4, <1>5 DEF API!Kinds, CompletionsKinds

-----------------------------------------------------------------------------
(* The places of a joined sequence. *)

\* flat is joined of the first n parts: its place k is place w[k] of part o[k].
Placed(flat, ss, n, o, w) ==
    /\ IsSequence(flat)
    /\ \A k \in 1..Len(flat) :
          o[k] \in 1..n /\ w[k] \in 1..Len(ss[o[k]]) /\ flat[k] = ss[o[k]][w[k]]
    /\ \A k, l \in 1..Len(flat) : k < l => o[k] < o[l] \/ (o[k] = o[l] /\ w[k] < w[l])
    /\ \A i \in 1..n : \A j \in 1..Len(ss[i]) : \E k \in 1..Len(flat) : o[k] = i /\ w[k] = j

\* One more part behind it.
LEMMA PlacedOne ==
    ASSUME NEW x, NEW ss, NEW n \in Nat, NEW o, NEW w, Placed(x, ss, n, o, w),
           NEW m, m = n + 1, IsSequence(ss[m])
    PROVE  \E v, u : Placed(x \o ss[m], ss, m, v, u)
<1> DEFINE y == ss[m]
           z == x \o y
           v == [k \in 1..(Len(x) + Len(y)) |-> IF k <= Len(x) THEN o[k] ELSE m]
           u == [k \in 1..(Len(x) + Len(y)) |-> IF k <= Len(x) THEN w[k] ELSE k - Len(x)]
<1>1. PICK S : x \in Seq(S)
  BY DEF Placed, IsSequence
<1>2. PICK R : y \in Seq(R)
  BY DEF IsSequence
<1>3. /\ Len(x) \in Nat /\ Len(y) \in Nat /\ Len(z) = Len(x) + Len(y)
      /\ \A p \in 1..Len(x) : z[p] = x[p]
      /\ \A p \in 1..Len(y) : z[Len(x) + p] = y[p]
  BY <1>1, <1>2
<1>4. IsSequence(z)
  <2>1. x \in Seq(S \cup R) /\ y \in Seq(S \cup R)
    BY <1>1, <1>2
  <2>2. z \in Seq(S \cup R)
    BY <2>1
  <2> QED
    BY <2>2 DEF IsSequence
<1> DEFINE a0 == Len(x)
           b0 == Len(y)
<1>5. /\ \A k \in 1..a0 : k \in 1..(a0 + b0) /\ v[k] = o[k] /\ u[k] = w[k]
      /\ \A k \in 1..b0 : a0 + k \in 1..(a0 + b0) /\ v[a0 + k] = m /\ u[a0 + k] = k
      /\ \A k \in 1..(a0 + b0) : k \in 1..a0 \/ (k - a0 \in 1..b0 /\ k = a0 + (k - a0))
  BY <1>3
<1>6. /\ \A k \in 1..a0 : o[k] \in 1..n /\ w[k] \in 1..Len(ss[o[k]]) /\ x[k] = ss[o[k]][w[k]]
      /\ \A k, l \in 1..a0 : k < l => o[k] < o[l] \/ (o[k] = o[l] /\ w[k] < w[l])
      /\ \A i \in 1..n : \A j \in 1..Len(ss[i]) : \E k \in 1..a0 : o[k] = i /\ w[k] = j
  BY DEF Placed
<1>7. \A i \in 1..n : i \in 1..m /\ i < m
  OBVIOUS
<1>8. m \in 1..m
  OBVIOUS
<1>9. \A i \in 1..m : i \in 1..n \/ i = m
  OBVIOUS
<1> HIDE DEF v, u
<1>10. ASSUME NEW k \in 1..(a0 + b0)
       PROVE  v[k] \in 1..m /\ u[k] \in 1..Len(ss[v[k]]) /\ z[k] = ss[v[k]][u[k]]
  <2>1. CASE k \in 1..a0
    BY <1>3, <1>5, <1>6, <1>7, <2>1
  <2>2. CASE k - a0 \in 1..b0 /\ k = a0 + (k - a0)
    <3> DEFINE h == k - a0
    <3>1. h \in 1..b0 /\ k = a0 + h
      BY <2>2
    <3> HIDE DEF h
    <3> QED
      BY <1>3, <1>5, <1>8, <3>1
  <2> QED
    BY <1>5, <2>1, <2>2
<1>11. ASSUME NEW k \in 1..(a0 + b0), NEW l \in 1..(a0 + b0), k < l
       PROVE  v[k] < v[l] \/ (v[k] = v[l] /\ u[k] < u[l])
  <2>1. CASE l \in 1..a0
    <3>1. k \in 1..a0
      BY <1>3, <1>11, <2>1
    <3> QED
      BY <1>5, <1>6, <1>11, <2>1, <3>1
  <2>2. CASE l - a0 \in 1..b0 /\ l = a0 + (l - a0)
    <3>1. v[l] = m /\ u[l] = l - a0
      BY <1>5, <2>2
    <3>2. CASE k \in 1..a0
      <4>1. v[k] = o[k] /\ o[k] \in 1..n
        BY <1>5, <1>6, <3>2
      <4>2. o[k] < m
        BY <1>7, <4>1
      <4> QED
        BY <3>1, <4>1, <4>2
    <3>3. CASE k - a0 \in 1..b0 /\ k = a0 + (k - a0)
      <4>1. v[k] = m /\ u[k] = k - a0
        BY <1>5, <3>3
      <4>2. k - a0 < l - a0
        BY <1>3, <1>11
      <4> QED
        BY <3>1, <4>1, <4>2
    <3> QED
      BY <1>5, <3>2, <3>3
  <2> QED
    BY <1>5, <2>1, <2>2
<1>12. ASSUME NEW i \in 1..m, NEW j \in 1..Len(ss[i])
       PROVE  \E k \in 1..(a0 + b0) : v[k] = i /\ u[k] = j
  <2>1. CASE i \in 1..n
    <3>1. PICK k \in 1..a0 : o[k] = i /\ w[k] = j
      BY <1>6, <2>1
    <3> QED
      BY <1>5, <3>1
  <2>2. CASE i = m
    <3>1. j \in 1..b0
      BY <2>2
    <3> QED
      BY <1>5, <2>2, <3>1
  <2> QED
    BY <1>9, <2>1, <2>2
<1>13. Placed(z, ss, m, v, u)
  BY <1>3, <1>4, <1>10, <1>11, <1>12 DEF Placed
<1> QED
  BY <1>13

LEMMA FlattenPlaces ==
    ASSUME NEW ss, Len(ss) \in Nat, \A i \in 1..Len(ss) : IsSequence(ss[i]), Len(ss) = 0 => ss = <<>>
    PROVE  \E o, w : Placed(FlattenSeq(ss), ss, Len(ss), o, w)
<1> DEFINE n == Len(ss)
           f == CHOOSE g : Joins(ss, g, n)
           Bad == {m \in Nat : m \in 1..n /\ ~\E o, w : Placed(f[m], ss, m, o, w)}
<1>0. \E o, w : Placed(<<>>, ss, 0, o, w)
  <2>1. Len(<<>>) = 0
    OBVIOUS
  <2>2. Placed(<<>>, ss, 0, <<>>, <<>>)
    BY <2>1, SequenceOfNone DEF Placed
  <2> QED
    BY <2>2
<1>1. CASE n = 0
  <2>1. FlattenSeq(ss) = <<>>
    BY <1>1 DEF FlattenSeq
  <2> QED
    BY <1>0, <1>1, <2>1
<1>2. CASE n # 0
  <2>1. FlattenSeq(ss) = f[n]
    BY <1>2 DEF FlattenSeq, Joins
  <2>2. Joins(ss, f, n)
    BY JoinExists
  <2> HIDE DEF f
  <2>3. Bad = {}
    <3> SUFFICES ASSUME Bad # {} PROVE FALSE
      OBVIOUS
    <3>1. PICK m \in Bad : \A k \in Bad : m <= k
      BY Smallest
    <3>2. f[m] = IF m = 1 THEN ss[m] ELSE f[m - 1] \o ss[m]
      BY <2>2, <3>1, JoinsUnfold
    <3>3. CASE m = 1
      <4>1. <<>> \o ss[1] = ss[1] /\ IsSequence(ss[1])
        <5>1. IsSequence(ss[1])
          BY <3>1, <3>3
        <5>2. PICK S : ss[1] \in Seq(S)
          BY <5>1 DEF IsSequence
        <5> QED
          BY <5>1, <5>2
      <4>2. PICK o, w : Placed(<<>>, ss, 0, o, w)
        BY <1>0
      <4>3. 1 = 0 + 1 /\ 0 \in Nat
        OBVIOUS
      <4>4. \E v, u : Placed(<<>> \o ss[1], ss, 1, v, u)
        BY <4>1, <4>2, <4>3, PlacedOne
      <4> QED
        BY <3>1, <3>2, <3>3, <4>1, <4>4
    <3>4. CASE m # 1
      <4> DEFINE h == m - 1
      <4>1. h \in Nat /\ h \in 1..n /\ h \notin Bad /\ m = h + 1 /\ m \in 1..n
        BY <3>1, <3>4
      <4>2. PICK o, w : Placed(f[h], ss, h, o, w)
        BY <4>1
      <4>3. f[m] = f[h] \o ss[m] /\ IsSequence(ss[m])
        BY <3>2, <3>4, <4>1
      <4> HIDE DEF h
      <4>4. \E v, u : Placed(f[h] \o ss[m], ss, m, v, u)
        BY <4>1, <4>2, <4>3, PlacedOne
      <4> QED
        BY <3>1, <4>1, <4>3, <4>4
    <3> QED
      BY <3>3, <3>4
  <2>4. n \in 1..n /\ n \in Nat
    BY <1>2
  <2> QED
    BY <2>1, <2>3, <2>4
<1> QED
  BY <1>1, <1>2

\* A sequence of which the places in kept are left.
Filtered(s, kept) == FlattenSeq([p \in DOMAIN s |-> IF p \in kept THEN <<s[p]>> ELSE <<>>])

\* They are left in their order: w[q] is the place in s of what is at q.
Filters(q, s, kept, w) ==
    /\ IsSequence(q)
    /\ \A k \in 1..Len(q) : w[k] \in 1..Len(s) /\ w[k] \in kept /\ q[k] = s[w[k]]
    /\ \A k, l \in 1..Len(q) : k < l => w[k] < w[l]
    /\ \A p \in 1..Len(s) : p \in kept => \E k \in 1..Len(q) : w[k] = p

LEMMA FilteredPlaces ==
    ASSUME NEW s, IsSequence(s), NEW kept
    PROVE  \E w : Filters(Filtered(s, kept), s, kept, w)
<1> DEFINE ss == [p \in DOMAIN s |-> IF p \in kept THEN <<s[p]>> ELSE <<>>]
<1>1. PICK S : s \in Seq(S)
  BY DEF IsSequence
<1>2. DOMAIN s = 1..Len(s) /\ Len(s) \in Nat
  BY <1>1
<1>3. Len(ss) = Len(s)
  <2>1. DOMAIN ss = 1..Len(s)
    BY <1>2
  <2> QED
    BY <1>2, <2>1
<1>4. Len(s) = 0 => ss = <<>>
  BY <1>2
<1>5. \A p \in 1..Len(s) : ss[p] = IF p \in kept THEN <<s[p]>> ELSE <<>>
  BY <1>2
<1>6. Filtered(s, kept) = FlattenSeq(ss)
  BY DEF Filtered
<1> HIDE DEF ss
<1>7. \A p \in 1..Len(s) : IsSequence(ss[p])
  BY <1>5, SequenceOfOne, SequenceOfNone
<1>8. PICK o, w : Placed(FlattenSeq(ss), ss, Len(ss), o, w)
  BY <1>2, <1>3, <1>4, <1>7, FlattenPlaces
<1> DEFINE q == FlattenSeq(ss)
<1> HIDE DEF q
<1>9. \A p \in 1..Len(s) : \A j \in 1..Len(ss[p]) : j = 1 /\ p \in kept /\ ss[p][j] = s[p]
  <2> TAKE p \in 1..Len(s)
  <2>1. CASE p \in kept
    <3>1. ss[p] = <<s[p]>>
      BY <1>5, <2>1
    <3>2. Len(ss[p]) = 1 /\ ss[p][1] = s[p]
      BY <3>1
    <3> QED
      BY <2>1, <3>2
  <2>2. CASE p \notin kept
    <3>1. ss[p] = <<>>
      BY <1>5, <2>2
    <3>2. Len(ss[p]) = 0
      BY <3>1
    <3> QED
      BY <3>2
  <2> QED
    BY <2>1, <2>2
<1>10. \A p \in 1..Len(s) : p \in kept => 1 \in 1..Len(ss[p])
  <2> SUFFICES ASSUME NEW p \in 1..Len(s), p \in kept PROVE 1 \in 1..Len(ss[p])
    OBVIOUS
  <2>1. ss[p] = <<s[p]>>
    BY <1>5
  <2> QED
    BY <2>1
<1>11. Placed(q, ss, Len(s), o, w)
  BY <1>3, <1>8 DEF q
<1>12. \A k \in 1..Len(q) : o[k] \in 1..Len(s) /\ w[k] = 1 /\ o[k] \in kept /\ q[k] = s[o[k]]
  <2> TAKE k \in 1..Len(q)
  <2>1. o[k] \in 1..Len(s) /\ w[k] \in 1..Len(ss[o[k]]) /\ q[k] = ss[o[k]][w[k]]
    BY <1>11 DEF Placed
  <2> QED
    BY <1>9, <2>1
<1>13. \A k, l \in 1..Len(q) : k < l => o[k] < o[l]
  BY <1>11, <1>12 DEF Placed
<1>14. \A p \in 1..Len(s) : p \in kept => \E k \in 1..Len(q) : o[k] = p
  BY <1>10, <1>11 DEF Placed
<1>15. Filters(q, s, kept, o)
  BY <1>11, <1>12, <1>13, <1>14 DEF Filters, Placed
<1> QED
  BY <1>6, <1>15 DEF q

-----------------------------------------------------------------------------
(* The messages of a request. *)

Has(s, x) == \E p \in 1..Len(s) : s[p] = x

\* What a client writes, and what an adapter is given.
Spoken(m) ==
    /\ m.role \in {"user", "assistant", "system"}
    /\ IsSequence(m.calls) /\ IsSequence(m.results)
    /\ m.role = "assistant" => m.results = <<>>
    /\ m.role # "assistant" => m.calls = <<>>
Passed(m) ==
    /\ m.role \in {"user", "assistant", "tool"} /\ "calls" \in DOMAIN m
    /\ IsSequence(m.calls) /\ (m.role # "assistant" => m.calls = <<>>)
AllSpoken(history) == IsSequence(history) /\ \A p \in 1..Len(history) : Spoken(history[p])
AllPassed(msgs) == IsSequence(msgs) /\ \A p \in 1..Len(msgs) : Passed(msgs[p])

LEMMA WithIDIs ==
    ASSUME NEW ids, IsSequence(ids)
    PROVE  /\ IsSequence(Requests!WithID(ids))
           /\ \A x : Has(Requests!WithID(ids), x) <=> x # NoID /\ Has(ids, x)
<1> DEFINE kept == {p \in DOMAIN ids : ids[p] # NoID}
           q == Requests!WithID(ids)
<1>1. q = Filtered(ids, kept)
  <2>1. \A p \in DOMAIN ids : (IF ids[p] # NoID THEN <<ids[p]>> ELSE <<>>) =
                              (IF p \in kept THEN <<ids[p]>> ELSE <<>>)
    OBVIOUS
  <2> HIDE DEF kept
  <2>2. [p \in DOMAIN ids |-> IF ids[p] # NoID THEN <<ids[p]>> ELSE <<>>] =
        [p \in DOMAIN ids |-> IF p \in kept THEN <<ids[p]>> ELSE <<>>]
    BY <2>1
  <2>3. q = FlattenSeq([p \in DOMAIN ids |-> IF ids[p] # NoID THEN <<ids[p]>> ELSE <<>>])
    BY DEF Requests!WithID, Requests!If, Requests!FlattenSeq, FlattenSeq
  <2> QED
    BY <2>2, <2>3 DEF Filtered
<1>2. DOMAIN ids = 1..Len(ids)
  BY DEF IsSequence
<1>3. \A p \in 1..Len(ids) : p \in kept <=> ids[p] # NoID
  BY <1>2
<1> HIDE DEF kept, q
<1>4. PICK w : Filters(q, ids, kept, w)
  BY <1>1, FilteredPlaces
<1>5. ASSUME NEW x PROVE Has(q, x) <=> x # NoID /\ Has(ids, x)
  BY <1>3, <1>4 DEF Filters, Has
<1> QED
  BY <1>4, <1>5 DEF Filters, q

\* c is what becomes of m, a message of the client: a message, and its results.
Becomes(m, c) ==
    /\ IsSequence(c)
    /\ \A j \in 1..Len(c) :
          /\ Passed(c[j])
          /\ c[j].role = "assistant" =>
                m.role = "assistant" /\ \A x : Has(c[j].calls, x) => x # NoID /\ Has(m.calls, x)
          /\ c[j].role = "tool" =>
                m.role # "assistant" /\ c[j].id # NoID /\ Has(m.results, c[j].id)
    /\ \A x : x # NoID /\ Has(m.calls, x) =>
          \E j \in 1..Len(c) : c[j].role = "assistant" /\ Has(c[j].calls, x)
    /\ \A x : x # NoID /\ Has(m.results, x) =>
          \E j \in 1..Len(c) : c[j].role = "tool" /\ c[j].id = x

LEMMA ConvertedIs ==
    ASSUME NEW m, Spoken(m), NEW from, NEW c, c = Requests!Converted(m, from)
    PROVE  Becomes(m, c)
<1> DEFINE calls == Requests!WithID(m.calls)
           results == Requests!WithID(m.results)
           isEmpty == ~m.text /\ ~m.thinking /\ m.calls = <<>> /\ m.results = <<>>
           hasContent == m.text \/ m.thinking \/ calls # <<>>
           text == IF m.text THEN "said" ELSE IF isEmpty /\ m.role = "assistant" THEN "dash" ELSE "none"
           d == Requests!ProviderMessage(Requests!ProviderRole(m.role), text, m.thinking, calls, NoID, from)
           h == IF hasContent \/ isEmpty THEN <<d>> ELSE <<>>
           t == [p \in DOMAIN results |-> Requests!ToolMessage(results[p], from)]
<1>1. c = h \o t
  BY DEF Requests!Converted, Requests!If
<1>2. /\ IsSequence(calls) /\ \A x : Has(calls, x) <=> x # NoID /\ Has(m.calls, x)
      /\ IsSequence(results) /\ \A x : Has(results, x) <=> x # NoID /\ Has(m.results, x)
  BY WithIDIs DEF Spoken
<1>3. m.role # "assistant" => calls = <<>>
  <2> SUFFICES ASSUME m.role # "assistant" PROVE calls = <<>>
    OBVIOUS
  <2>1. m.calls = <<>>
    BY DEF Spoken
  <2>2. calls = FlattenSeq([p \in DOMAIN m.calls |-> IF m.calls[p] # NoID THEN <<m.calls[p]>> ELSE <<>>])
    BY DEF Requests!WithID, Requests!If, Requests!FlattenSeq, FlattenSeq
  <2>3. DOMAIN <<>> = {}
    OBVIOUS
  <2>4. [p \in DOMAIN m.calls |-> IF m.calls[p] # NoID THEN <<m.calls[p]>> ELSE <<>>] = <<>>
    BY <2>1, <2>3
  <2> QED
    BY <2>2, <2>4 DEF FlattenSeq
<1>4. m.role = "assistant" => ~\E x : Has(results, x)
  <2>1. Len(<<>>) = 0
    OBVIOUS
  <2>2. m.role = "assistant" => ~\E x : Has(m.results, x)
    BY <2>1 DEF Spoken, Has
  <2> QED
    BY <1>2, <2>2
<1>5. /\ d.role = (IF m.role = "assistant" THEN "assistant" ELSE "user") /\ d.calls = calls /\ "calls" \in DOMAIN d
  BY DEF Requests!ProviderMessage, Requests!ProviderRole
<1>6. \A y : /\ Requests!ToolMessage(y, from).role = "tool" /\ Requests!ToolMessage(y, from).id = y
             /\ Requests!ToolMessage(y, from).calls = <<>> /\ "calls" \in DOMAIN Requests!ToolMessage(y, from)
  BY DEF Requests!ToolMessage, Requests!ProviderMessage
<1>7. PICK R : results \in Seq(R)
  BY <1>2 DEF IsSequence
<1>8. /\ Len(results) \in Nat /\ DOMAIN results = 1..Len(results) /\ t \in Seq({Requests!ToolMessage(y, from) : y \in R})
      /\ Len(t) = Len(results)
  BY <1>7
<1>9. \A j \in 1..Len(results) : t[j] = Requests!ToolMessage(results[j], from)
  BY <1>8
<1>10. (\E x : Has(calls, x)) => calls # <<>>
  <2>1. Len(<<>>) = 0
    OBVIOUS
  <2> QED
    BY <2>1 DEF Has
<1>11. (\E x : Has(calls, x)) => h = <<d>> /\ m.role = "assistant"
  BY <1>3, <1>10
<1>12. h \in Seq({d}) /\ (h = <<>> \/ h = <<d>>)
  <2>1. h = <<>> \/ h = <<d>>
    OBVIOUS
  <2> HIDE DEF d, h
  <2>2. <<>> \in Seq({d}) /\ <<d>> \in Seq({d})
    OBVIOUS
  <2> QED
    BY <2>1, <2>2
<1> HIDE DEF d, h, t, calls, results
<1> DEFINE a0 == Len(h)
           b0 == Len(results)
<1>13. /\ IsSequence(c) /\ Len(c) = a0 + b0 /\ a0 \in Nat
       /\ \A j \in 1..a0 : c[j] = d
       /\ \A j \in 1..b0 : c[a0 + j] = Requests!ToolMessage(results[j], from)
  <2> DEFINE U == {d} \cup {Requests!ToolMessage(y, from) : y \in R}
  <2>1. h \in Seq(U) /\ t \in Seq(U)
    BY <1>8, <1>12
  <2> HIDE DEF U
  <2>2. c \in Seq(U)
    BY <1>1, <2>1
  <2>3. /\ Len(c) = Len(h) + Len(t) /\ Len(h) \in Nat
        /\ \A j \in 1..Len(h) : c[j] = h[j] /\ \A k \in 1..Len(t) : c[Len(h) + k] = t[k]
        /\ \A k \in 1..Len(t) : c[Len(h) + k] = t[k]
    BY <1>1, <2>1
  <2>4. \A j \in 1..Len(h) : h[j] = d
    BY <1>12
  <2> QED
    BY <1>8, <1>9, <2>2, <2>3, <2>4 DEF IsSequence
<1>14. h = <<d>> => 1 \in 1..a0
  <2>1. Len(<<d>>) = 1
    OBVIOUS
  <2>2. h = <<d>> => a0 = 1
    BY <2>1
  <2>3. 1 \in 1..1
    OBVIOUS
  <2> QED
    BY <2>2, <2>3
<1> HIDE DEF a0
<1>15. /\ \A j \in 1..(a0 + b0) : j \in 1..a0 \/ (j - a0 \in 1..b0 /\ j = a0 + (j - a0))
       /\ \A j \in 1..a0 : j \in 1..(a0 + b0)
       /\ \A j \in 1..b0 : a0 + j \in 1..(a0 + b0)
  BY <1>8, <1>13
<1>16. Passed(d) /\ (d.role = "assistant" => m.role = "assistant") /\ d.role # "tool"
  BY <1>2, <1>3, <1>5 DEF Passed
<1>17. \A j \in 1..b0 : Has(results, results[j])
  BY DEF Has
<1>18. \A j \in 1..b0 : Passed(c[a0 + j]) /\ c[a0 + j].role = "tool" /\ c[a0 + j].id = results[j]
  BY <1>6, <1>13, SequenceOfNone DEF Passed
<1>19. ASSUME NEW j \in 1..Len(c)
       PROVE  /\ Passed(c[j])
              /\ c[j].role = "assistant" =>
                    m.role = "assistant" /\ \A x : Has(c[j].calls, x) => x # NoID /\ Has(m.calls, x)
              /\ c[j].role = "tool" =>
                    m.role # "assistant" /\ c[j].id # NoID /\ Has(m.results, c[j].id)
  <2>1. CASE j \in 1..a0
    <3>1. c[j] = d
      BY <1>13, <2>1
    <3> QED
      BY <1>2, <1>5, <1>16, <3>1
  <2>2. CASE j - a0 \in 1..b0 /\ j = a0 + (j - a0)
    <3> DEFINE k == j - a0
    <3>1. k \in 1..b0 /\ j = a0 + k
      BY <2>2
    <3> HIDE DEF k
    <3>2. Passed(c[j]) /\ c[j].role = "tool" /\ c[j].id = results[k] /\ Has(results, results[k])
      BY <1>17, <1>18, <3>1
    <3>3. m.role # "assistant" /\ c[j].id # NoID /\ Has(m.results, c[j].id)
      BY <1>2, <1>4, <3>2
    <3> QED
      BY <3>2, <3>3
  <2> QED
    BY <1>13, <1>15, <2>1, <2>2
<1>20. ASSUME NEW x, x # NoID, Has(m.calls, x)
       PROVE  \E j \in 1..Len(c) : c[j].role = "assistant" /\ Has(c[j].calls, x)
  <2>1. Has(calls, x)
    BY <1>2, <1>20
  <2>2. h = <<d>> /\ m.role = "assistant" /\ 1 \in 1..a0
    BY <1>11, <1>14, <2>1
  <2>3. c[1] = d /\ 1 \in 1..Len(c)
    BY <1>13, <1>15, <2>2
  <2> QED
    BY <1>5, <2>1, <2>2, <2>3
<1>21. ASSUME NEW x, x # NoID, Has(m.results, x)
       PROVE  \E j \in 1..Len(c) : c[j].role = "tool" /\ c[j].id = x
  <2>1. Has(results, x)
    BY <1>2, <1>21
  <2>2. PICK k \in 1..b0 : results[k] = x
    BY <2>1 DEF Has
  <2>3. a0 + k \in 1..Len(c) /\ c[a0 + k].role = "tool" /\ c[a0 + k].id = x
    BY <1>13, <1>15, <1>18, <2>2
  <2> QED
    BY <2>3
<1> QED
  BY <1>13, <1>19, <1>20, <1>21 DEF Becomes

LEMMA PlacesOver ==
    ASSUME NEW s, IsSequence(s), NEW ss, ss = [p \in DOMAIN s |-> ss[p]],
           \A p \in 1..Len(s) : IsSequence(ss[p])
    PROVE  \E o, w : Placed(FlattenSeq(ss), ss, Len(s), o, w)
<1>1. PICK S : s \in Seq(S)
  BY DEF IsSequence
<1>2. DOMAIN s = 1..Len(s) /\ Len(s) \in Nat
  BY <1>1
<1>3. DOMAIN ss = 1..Len(s)
  BY <1>2
<1>4. Len(ss) = Len(s)
  BY <1>2, <1>3
<1>5. Len(s) = 0 => ss = <<>>
  BY <1>2
<1> QED
  BY <1>2, <1>4, <1>5, FlattenPlaces

LEMMA Domains ==
    ASSUME NEW s, IsSequence(s)
    PROVE  /\ DOMAIN s = 1..Len(s) /\ Len(s) \in Nat /\ \A k \in 1..Len(s) : k \in Nat
BY DEF IsSequence

\* msgs are made of the messages of history, in order: message k of message o[k].
Conveys(msgs, history, o) ==
    /\ \A k \in 1..Len(msgs) :
          /\ o[k] \in 1..Len(history)
          /\ msgs[k].role = "assistant" =>
                /\ history[o[k]].role = "assistant"
                /\ \A x : Has(msgs[k].calls, x) => x # NoID /\ Has(history[o[k]].calls, x)
          /\ msgs[k].role = "tool" =>
                /\ history[o[k]].role # "assistant"
                /\ msgs[k].id # NoID /\ Has(history[o[k]].results, msgs[k].id)
    /\ \A k, l \in 1..Len(msgs) : k < l => o[k] <= o[l]
    /\ \A p \in 1..Len(history) : \A x : x # NoID /\ Has(history[p].calls, x) =>
          \E k \in 1..Len(msgs) : o[k] = p /\ msgs[k].role = "assistant" /\ Has(msgs[k].calls, x)
    /\ \A p \in 1..Len(history) : \A x : x # NoID /\ Has(history[p].results, x) =>
          \E k \in 1..Len(msgs) : o[k] = p /\ msgs[k].role = "tool" /\ msgs[k].id = x

Converteds(history) == [p \in DOMAIN history |-> Requests!Converted(history[p], p)]

LEMMA ConvertedConveys ==
    ASSUME NEW history, AllSpoken(history), NEW msgs, msgs = FlattenSeq(Converteds(history))
    PROVE  AllPassed(msgs) /\ \E o : Conveys(msgs, history, o)
<1> DEFINE ss == Converteds(history)
           n == Len(history)
<1>1. DOMAIN history = 1..n /\ n \in Nat /\ IsSequence(history) /\ \A p \in 1..n : Spoken(history[p]) /\ p \in Nat
  BY Domains DEF AllSpoken
<1>2. \A p \in 1..n : ss[p] = Requests!Converted(history[p], p)
  BY <1>1 DEF Converteds
<1>3. ss = [p \in DOMAIN history |-> ss[p]]
  BY DEF Converteds
<1> HIDE DEF ss
<1>4. ASSUME NEW p \in 1..n PROVE Becomes(history[p], ss[p])
  BY <1>1, <1>2, ConvertedIs
<1>5. \A p \in 1..Len(history) : IsSequence(ss[p])
  BY <1>4 DEF Becomes
<1>6. msgs = FlattenSeq(ss)
  BY DEF ss
<1>7. PICK o, w : Placed(msgs, ss, n, o, w)
  BY <1>1, <1>3, <1>5, <1>6, PlacesOver
<1>8. /\ IsSequence(msgs)
      /\ \A k \in 1..Len(msgs) : o[k] \in 1..n /\ w[k] \in 1..Len(ss[o[k]]) /\ msgs[k] = ss[o[k]][w[k]]
      /\ \A k, l \in 1..Len(msgs) : k < l => o[k] < o[l] \/ (o[k] = o[l] /\ w[k] < w[l])
      /\ \A i \in 1..n : \A j \in 1..Len(ss[i]) : \E k \in 1..Len(msgs) : o[k] = i /\ w[k] = j
  BY <1>7 DEF Placed
<1>9. AllPassed(msgs)
  <2> SUFFICES ASSUME NEW k \in 1..Len(msgs) PROVE Passed(msgs[k])
    BY <1>8 DEF AllPassed
  <2>1. o[k] \in 1..n /\ w[k] \in 1..Len(ss[o[k]]) /\ msgs[k] = ss[o[k]][w[k]]
    BY <1>8
  <2>2. Becomes(history[o[k]], ss[o[k]])
    BY <1>4, <2>1
  <2> QED
    BY <2>1, <2>2 DEF Becomes
<1>10. ASSUME NEW k \in 1..Len(msgs)
       PROVE  /\ o[k] \in 1..Len(history)
              /\ msgs[k].role = "assistant" =>
                    /\ history[o[k]].role = "assistant"
                    /\ \A x : Has(msgs[k].calls, x) => x # NoID /\ Has(history[o[k]].calls, x)
              /\ msgs[k].role = "tool" =>
                    /\ history[o[k]].role # "assistant"
                    /\ msgs[k].id # NoID /\ Has(history[o[k]].results, msgs[k].id)
  <2> DEFINE p == o[k]
             j == w[k]
  <2>1. p \in 1..n /\ j \in 1..Len(ss[p]) /\ msgs[k] = ss[p][j]
    BY <1>8
  <2> HIDE DEF p, j
  <2>2. Becomes(history[p], ss[p])
    BY <1>4, <2>1
  <2> QED
    BY <2>1, <2>2 DEF Becomes, p
<1>11. \A k, l \in 1..Len(msgs) : k < l => o[k] <= o[l]
  <2> TAKE k, l \in 1..Len(msgs)
  <2>1. k < l => o[k] < o[l] \/ o[k] = o[l]
    BY <1>8
  <2>2. o[k] \in Nat /\ o[l] \in Nat
    BY <1>1, <1>8
  <2> QED
    BY <2>1, <2>2
<1>12. ASSUME NEW p \in 1..Len(history), NEW x, x # NoID, Has(history[p].calls, x)
       PROVE  \E k \in 1..Len(msgs) : o[k] = p /\ msgs[k].role = "assistant" /\ Has(msgs[k].calls, x)
  <2>1. PICK j \in 1..Len(ss[p]) : ss[p][j].role = "assistant" /\ Has(ss[p][j].calls, x)
    BY <1>4, <1>12 DEF Becomes
  <2>2. PICK k \in 1..Len(msgs) : o[k] = p /\ w[k] = j
    BY <1>8
  <2>3. msgs[k] = ss[p][j]
    BY <1>8, <2>2
  <2> QED
    BY <2>1, <2>2, <2>3
<1>13. ASSUME NEW p \in 1..Len(history), NEW x, x # NoID, Has(history[p].results, x)
       PROVE  \E k \in 1..Len(msgs) : o[k] = p /\ msgs[k].role = "tool" /\ msgs[k].id = x
  <2>1. PICK j \in 1..Len(ss[p]) : ss[p][j].role = "tool" /\ ss[p][j].id = x
    BY <1>4, <1>13 DEF Becomes
  <2>2. PICK k \in 1..Len(msgs) : o[k] = p /\ w[k] = j
    BY <1>8
  <2>3. msgs[k] = ss[p][j]
    BY <1>8, <2>2
  <2> QED
    BY <2>1, <2>2, <2>3
<1>14. Conveys(msgs, history, o)
  <2>1. \A p \in 1..Len(history) : \A x : x # NoID /\ Has(history[p].calls, x) =>
            \E k \in 1..Len(msgs) : o[k] = p /\ msgs[k].role = "assistant" /\ Has(msgs[k].calls, x)
    BY <1>12
  <2>2. \A p \in 1..Len(history) : \A x : x # NoID /\ Has(history[p].results, x) =>
            \E k \in 1..Len(msgs) : o[k] = p /\ msgs[k].role = "tool" /\ msgs[k].id = x
    BY <1>13
  <2> QED
    BY <1>10, <1>11, <2>1, <2>2 DEF Conveys
<1> QED
  BY <1>9, <1>14

KeptPlaces(msgs, i) == {j \in DOMAIN Requests!Calls(msgs, i) : Requests!KeptCall(msgs, i, j)}

LEMMA KeptCallsFilter ==
    ASSUME NEW msgs, NEW i, IsSequence(Requests!Calls(msgs, i))
    PROVE  \E v : Filters(Requests!KeptCalls(msgs, i), Requests!Calls(msgs, i), KeptPlaces(msgs, i), v)
<1> DEFINE s == Requests!Calls(msgs, i)
           kept == KeptPlaces(msgs, i)
<1>1. \A j \in DOMAIN s : (IF Requests!KeptCall(msgs, i, j) THEN <<s[j]>> ELSE <<>>) =
                          (IF j \in kept THEN <<s[j]>> ELSE <<>>)
  BY DEF KeptPlaces
<1>2. [j \in DOMAIN s |-> IF Requests!KeptCall(msgs, i, j) THEN <<s[j]>> ELSE <<>>] =
      [j \in DOMAIN s |-> IF j \in kept THEN <<s[j]>> ELSE <<>>]
  BY <1>1
<1>3. Requests!KeptCalls(msgs, i) =
          FlattenSeq([j \in DOMAIN s |-> IF Requests!KeptCall(msgs, i, j) THEN <<s[j]>> ELSE <<>>])
  BY DEF Requests!KeptCalls, Requests!If, Requests!FlattenSeq, FlattenSeq
<1>4. Requests!KeptCalls(msgs, i) = Filtered(s, kept)
  BY <1>2, <1>3 DEF Filtered
<1> QED
  BY <1>4, FilteredPlaces

\* The messages msgs are those of a conversation.
LEMMA PassedAreMessages ==
    ASSUME NEW msgs, AllPassed(msgs)
    PROVE  /\ Messages(msgs)
           /\ DOMAIN msgs = 1..Len(msgs)
           /\ \A i \in 1..Len(msgs) : IsSequence(Requests!Calls(msgs, i)) /\ Requests!Calls(msgs, i) = msgs[i].calls
<1>1. /\ IsSequence(msgs) /\ DOMAIN msgs = 1..Len(msgs)
      /\ \A i \in 1..Len(msgs) : Passed(msgs[i])
  BY Domains DEF AllPassed
<1>2. \A i \in 1..Len(msgs) : Requests!Calls(msgs, i) = msgs[i].calls /\ IsSequence(msgs[i].calls)
  BY <1>1 DEF Requests!Calls, Passed
<1> QED
  BY <1>1, <1>2 DEF Messages, IsSequence

\* out is what is kept of msgs: message k of it is left of message w[k].
Sanitizes(out, msgs, w) ==
    /\ \A k \in 1..Len(out) :
          /\ w[k] \in 1..Len(msgs)
          /\ out[k].role = msgs[w[k]].role
          /\ out[k].role = "assistant" => out[k].calls = Requests!KeptCalls(msgs, w[k])
          /\ out[k].role = "tool" => out[k].id = msgs[w[k]].id /\ Requests!Answer(msgs, w[k])
    /\ \A k, l \in 1..Len(out) : k < l => w[k] < w[l]
    /\ \A i \in 1..Len(msgs) : Requests!Answer(msgs, i) => \E k \in 1..Len(out) : w[k] = i
    /\ \A i \in 1..Len(msgs) : msgs[i].role = "assistant" /\ (\E x : Has(Requests!KeptCalls(msgs, i), x)) =>
          \E k \in 1..Len(out) : w[k] = i

\* What is left of message i.
Leaves(msgs, i, c) ==
    /\ IsSequence(c)
    /\ \A j \in 1..Len(c) :
          /\ j = 1 /\ Passed(c[j])
          /\ c[j].role = msgs[i].role
          /\ c[j].role = "assistant" => c[j].calls = Requests!KeptCalls(msgs, i)
          /\ c[j].role = "tool" => c[j].id = msgs[i].id /\ Requests!Answer(msgs, i)
    /\ Requests!Answer(msgs, i) => 1 \in 1..Len(c)
    /\ msgs[i].role = "assistant" /\ (\E x : Has(Requests!KeptCalls(msgs, i), x)) => 1 \in 1..Len(c)

LEMMA SanitizedLeaves ==
    ASSUME NEW msgs, NEW i, Passed(msgs[i]), IsSequence(Requests!Calls(msgs, i)),
           NEW c, c = Requests!Sanitized(msgs, i)
    PROVE  Leaves(msgs, i, c)
<1> DEFINE kept == Requests!KeptCalls(msgs, i)
           m == [msgs[i] EXCEPT !.calls = kept]
<1>1. /\ m.role = msgs[i].role /\ m.calls = kept /\ "calls" \in DOMAIN m /\ m.id = msgs[i].id
  BY DEF Passed
<1>2. IsSequence(kept)
  BY KeptCallsFilter DEF Filters
<1>3. Requests!Answer(msgs, i) => msgs[i].role = "tool"
  BY DEF Requests!Answer
<1>4. (\E x : Has(kept, x)) => kept # <<>>
  <2>1. Len(<<>>) = 0
    OBVIOUS
  <2> QED
    BY <2>1 DEF Has
<1>5. /\ m.role = "assistant" => c = IF kept # <<>> \/ m.text # "none" \/ m.thinking THEN <<m>> ELSE <<>>
      /\ m.role = "tool" => c = IF Requests!Answer(msgs, i) THEN <<m>> ELSE <<>>
      /\ m.role \notin {"assistant", "tool"} => c = <<msgs[i]>>
  <2>1. c = CASE m.role = "assistant" -> Requests!If(m.calls # <<>> \/ m.text # "none" \/ m.thinking, <<m>>)
              [] m.role = "tool" -> Requests!If(Requests!Answer(msgs, i), <<m>>)
              [] OTHER -> <<msgs[i]>>
    BY Zenon DEF Requests!Sanitized
  <2> HIDE DEF m
  <2>2. /\ m.role = "assistant" => c = Requests!If(m.calls # <<>> \/ m.text # "none" \/ m.thinking, <<m>>)
        /\ m.role = "tool" => c = Requests!If(Requests!Answer(msgs, i), <<m>>)
        /\ m.role \notin {"assistant", "tool"} => c = <<msgs[i]>>
    BY <2>1
  <2> QED
    BY <1>1, <2>2 DEF Requests!If
<1> HIDE DEF m, kept
<1>6. m.role = "assistant" => Passed(m)
  BY <1>1, <1>2 DEF Passed
<1>7. m.role # "assistant" => msgs[i].calls = <<>>
  BY <1>1 DEF Passed
<1>8. m.role = "tool" => Passed(m)
  <2> SUFFICES ASSUME m.role = "tool" PROVE Passed(m)
    OBVIOUS
  <2>1. Requests!Calls(msgs, i) = <<>>
    BY <1>1 DEF Requests!Calls
  <2>2. kept = <<>>
    <3>1. DOMAIN <<>> = {}
      OBVIOUS
    <3>2. [j \in DOMAIN Requests!Calls(msgs, i) |->
             Requests!If(Requests!KeptCall(msgs, i, j), <<Requests!Calls(msgs, i)[j]>>)] = <<>>
      BY <2>1, <3>1
    <3> QED
      BY <3>2 DEF kept, Requests!KeptCalls, Requests!FlattenSeq
  <2> QED
    BY <1>1, <2>2, SequenceOfNone DEF Passed
<1>9. CASE c = <<m>> /\ m.role \in {"assistant", "tool"} /\ (m.role = "tool" => Requests!Answer(msgs, i))
  <2>1. Len(c) = 1 /\ c[1] = m /\ IsSequence(c)
    BY <1>9, SequenceOfOne
  <2>2. \A j \in 1..1 : j = 1
    OBVIOUS
  <2>3. 1 \in 1..1
    OBVIOUS
  <2> QED
    BY <1>1, <1>6, <1>8, <1>9, <2>1, <2>2, <2>3 DEF Leaves, kept
<1>10. CASE c = <<msgs[i]>> /\ m.role \notin {"assistant", "tool"}
  <2>1. Len(c) = 1 /\ c[1] = msgs[i] /\ IsSequence(c)
    BY <1>10, SequenceOfOne
  <2>2. \A j \in 1..1 : j = 1
    OBVIOUS
  <2>3. 1 \in 1..1
    OBVIOUS
  <2> QED
    BY <1>1, <1>3, <1>10, <2>1, <2>2, <2>3 DEF Leaves
<1>11. CASE c = <<>> /\ (m.role = "assistant" => kept = <<>>) /\ ~Requests!Answer(msgs, i)
  <2>1. Len(c) = 0 /\ IsSequence(c)
    BY <1>11, SequenceOfNone
  <2>2. \A j \in 1..0 : FALSE
    OBVIOUS
  <2>3. ~(m.role = "assistant" /\ \E x : Has(kept, x))
    BY <1>4, <1>11
  <2> QED
    BY <1>1, <1>11, <2>1, <2>2, <2>3 DEF Leaves, kept
<1> QED
  BY <1>1, <1>3, <1>5, <1>9, <1>10, <1>11

LEMMA SanitizeIs ==
    ASSUME NEW msgs, AllPassed(msgs), NEW out, out = Requests!SanitizeToolMessages(msgs)
    PROVE  AllPassed(out) /\ \E w : Sanitizes(out, msgs, w)
<1> DEFINE ss == [i \in DOMAIN msgs |-> Requests!Sanitized(msgs, i)]
           n == Len(msgs)
<1>1. /\ IsSequence(msgs) /\ DOMAIN msgs = 1..n /\ n \in Nat
      /\ \A i \in 1..n : Passed(msgs[i]) /\ IsSequence(Requests!Calls(msgs, i))
  BY PassedAreMessages, Domains DEF AllPassed
<1>2. \A i \in 1..n : ss[i] = Requests!Sanitized(msgs, i)
  BY <1>1
<1>3. ss = [i \in DOMAIN msgs |-> ss[i]]
  OBVIOUS
<1>4. out = FlattenSeq(ss)
  BY DEF Requests!SanitizeToolMessages, Requests!FlattenSeq, FlattenSeq
<1> HIDE DEF ss
<1>5. ASSUME NEW i \in 1..n PROVE Leaves(msgs, i, ss[i])
  BY <1>1, <1>2, SanitizedLeaves
<1>6. \A i \in 1..Len(msgs) : IsSequence(ss[i])
  BY <1>5 DEF Leaves
<1>7. PICK o, w : Placed(out, ss, n, o, w)
  BY <1>1, <1>3, <1>4, <1>6, PlacesOver
<1>8. /\ IsSequence(out)
      /\ \A k \in 1..Len(out) : o[k] \in 1..n /\ w[k] \in 1..Len(ss[o[k]]) /\ out[k] = ss[o[k]][w[k]]
      /\ \A k, l \in 1..Len(out) : k < l => o[k] < o[l] \/ (o[k] = o[l] /\ w[k] < w[l])
      /\ \A i \in 1..n : \A j \in 1..Len(ss[i]) : \E k \in 1..Len(out) : o[k] = i /\ w[k] = j
  BY <1>7 DEF Placed
<1>9. ASSUME NEW k \in 1..Len(out)
      PROVE  /\ Passed(out[k]) /\ w[k] = 1
             /\ o[k] \in 1..Len(msgs)
             /\ out[k].role = msgs[o[k]].role
             /\ out[k].role = "assistant" => out[k].calls = Requests!KeptCalls(msgs, o[k])
             /\ out[k].role = "tool" => out[k].id = msgs[o[k]].id /\ Requests!Answer(msgs, o[k])
  <2>1. o[k] \in 1..n /\ w[k] \in 1..Len(ss[o[k]]) /\ out[k] = ss[o[k]][w[k]]
    BY <1>8
  <2>2. Leaves(msgs, o[k], ss[o[k]])
    BY <1>5, <2>1
  <2> QED
    BY <2>1, <2>2 DEF Leaves
<1>10. AllPassed(out)
  BY <1>8, <1>9 DEF AllPassed
<1>11. \A k, l \in 1..Len(out) : k < l => o[k] < o[l]
  BY <1>8, <1>9
<1>12. ASSUME NEW i \in 1..Len(msgs), 1 \in 1..Len(ss[i])
       PROVE  \E k \in 1..Len(out) : o[k] = i
  BY <1>8, <1>12
<1>13. \A i \in 1..Len(msgs) : Requests!Answer(msgs, i) => \E k \in 1..Len(out) : o[k] = i
  BY <1>5, <1>12 DEF Leaves
<1>14. \A i \in 1..Len(msgs) : msgs[i].role = "assistant" /\ (\E x : Has(Requests!KeptCalls(msgs, i), x)) =>
          \E k \in 1..Len(out) : o[k] = i
  BY <1>5, <1>12 DEF Leaves
<1>15. Sanitizes(out, msgs, o)
  BY <1>9, <1>11, <1>13, <1>14 DEF Sanitizes
<1> QED
  BY <1>10, <1>15

\* An id that occurs is declared where it occurs first.
LEMMA FirstDeclares ==
    ASSUME NEW msgs, AllPassed(msgs), NEW k \in 1..Len(msgs), NEW l \in DOMAIN Requests!Calls(msgs, k)
    PROVE  \E i \in 1..Len(msgs) : i <= k /\ \E j \in DOMAIN Requests!Calls(msgs, i) :
               Requests!Calls(msgs, i)[j] = Requests!Calls(msgs, k)[l] /\ Requests!Declares(msgs, i, j)
<1> DEFINE id == Requests!Calls(msgs, k)[l]
           I == {i \in DOMAIN msgs : \E j \in DOMAIN Requests!Calls(msgs, i) : Requests!Calls(msgs, i)[j] = id}
<1>1. /\ DOMAIN msgs = 1..Len(msgs) /\ Messages(msgs)
      /\ \A i \in DOMAIN msgs : i \in Nat /\ DOMAIN Requests!Calls(msgs, i) \subseteq Nat
  BY PassedAreMessages, PlacesNat
<1>2. I \in SUBSET Nat /\ I # {} /\ k \in I
  BY <1>1
<1>3. PICK i \in I : \A n \in I : i <= n
  BY <1>2, Smallest
<1> DEFINE J == {j \in DOMAIN Requests!Calls(msgs, i) : Requests!Calls(msgs, i)[j] = id}
<1>4. J \in SUBSET Nat /\ J # {}
  BY <1>1, <1>3
<1>5. PICK j \in J : \A n \in J : j <= n
  BY <1>4, Smallest
<1>6. i \in DOMAIN msgs /\ i <= k /\ j \in DOMAIN Requests!Calls(msgs, i) /\ Requests!Calls(msgs, i)[j] = id
  BY <1>2, <1>3, <1>5
<1>7. \A m \in DOMAIN msgs : \A n \in DOMAIN Requests!Calls(msgs, m) :
          Requests!Calls(msgs, m)[n] = id => m \in I /\ (m = i => n \in J)
  OBVIOUS
<1> HIDE DEF I, J, id
<1>8. Requests!Declares(msgs, i, j)
  <2> SUFFICES ASSUME NEW m \in DOMAIN msgs, NEW n \in DOMAIN Requests!Calls(msgs, m),
                      Requests!Earlier(m, n, i, j), Requests!Calls(msgs, m)[n] = id
               PROVE  FALSE
    BY <1>6 DEF Requests!Declares
  <2>1. i <= m /\ (m = i => j <= n)
    BY <1>3, <1>5, <1>7
  <2>2. m \in Nat /\ i \in Nat /\ n \in Nat /\ j \in Nat
    BY <1>1, <1>6
  <2> QED
    BY <2>1, <2>2 DEF Requests!Earlier
<1> QED
  BY <1>1, <1>6, <1>8 DEF id

\* The first message with the call comes before one with its result.
AnsweredIn(history, id) ==
    \E p, q \in 1..Len(history) :
        /\ Has(history[p].calls, id) /\ Has(history[q].results, id) /\ p < q
        /\ \A r \in 1..Len(history) : Has(history[r].calls, id) => p <= r

KeptIn(msgs, id) ==
    \E i \in 1..Len(msgs) : \E j \in DOMAIN Requests!Calls(msgs, i) :
        Requests!KeptCall(msgs, i, j) /\ Requests!Calls(msgs, i)[j] = id

LEMMA AnsweredIsKept ==
    ASSUME NEW history, AllSpoken(history), NEW msgs, AllPassed(msgs), NEW o, Conveys(msgs, history, o),
           NEW id, id # NoID, AnsweredIn(history, id)
    PROVE  KeptIn(msgs, id)
<1>1. PICK p \in 1..Len(history), q \in 1..Len(history) :
          Has(history[p].calls, id) /\ Has(history[q].results, id) /\ p < q
  BY DEF AnsweredIn
<1>2. PICK k \in 1..Len(msgs) : o[k] = p /\ msgs[k].role = "assistant" /\ Has(msgs[k].calls, id)
  <2>1. \A x : x # NoID /\ Has(history[p].calls, x) =>
            \E k \in 1..Len(msgs) : o[k] = p /\ msgs[k].role = "assistant" /\ Has(msgs[k].calls, x)
    BY DEF Conveys
  <2> QED
    BY <1>1, <2>1
<1>3. PICK a0 \in 1..Len(msgs) : o[a0] = q /\ msgs[a0].role = "tool" /\ msgs[a0].id = id
  <2>1. \A x : x # NoID /\ Has(history[q].results, x) =>
            \E z \in 1..Len(msgs) : o[z] = q /\ msgs[z].role = "tool" /\ msgs[z].id = x
    BY DEF Conveys
  <2> QED
    BY <1>1, <2>1
<1>4. /\ Messages(msgs) /\ DOMAIN msgs = 1..Len(msgs)
      /\ \A i \in 1..Len(msgs) : i \in Nat
      /\ Requests!Calls(msgs, k) = msgs[k].calls /\ DOMAIN msgs[k].calls = 1..Len(msgs[k].calls)
  BY PassedAreMessages, PlacesNat, Domains
<1>5. k < a0
  <2>1. a0 <= k \/ k < a0
    BY <1>4
  <2>2. a0 < k => q <= p
    BY <1>2, <1>3 DEF Conveys
  <2>3. p \in Nat /\ q \in Nat
    BY Domains DEF AllSpoken
  <2>4. a0 # k
    BY <1>2, <1>3
  <2>5. ~(a0 < k)
    BY <1>1, <2>2, <2>3
  <2> QED
    BY <1>4, <2>1, <2>4, <2>5
<1>6. PICK l \in DOMAIN Requests!Calls(msgs, k) : Requests!Calls(msgs, k)[l] = id
  BY <1>2, <1>4 DEF Has
<1>7. PICK i \in 1..Len(msgs) : i <= k /\ \E j \in DOMAIN Requests!Calls(msgs, i) :
          Requests!Calls(msgs, i)[j] = id /\ Requests!Declares(msgs, i, j)
  BY <1>6, FirstDeclares
<1>8. PICK j \in DOMAIN Requests!Calls(msgs, i) : Requests!Calls(msgs, i)[j] = id /\ Requests!Declares(msgs, i, j)
  BY <1>7
<1>9. i < a0
  BY <1>4, <1>5, <1>7
<1>10. Requests!KeptCall(msgs, i, j)
  BY <1>3, <1>4, <1>8, <1>9, AnsweredCallIsKept
<1> QED
  BY <1>8, <1>10 DEF KeptIn

LEMMA KeptIsAnswered ==
    ASSUME NEW history, AllSpoken(history), NEW msgs, AllPassed(msgs), NEW o, Conveys(msgs, history, o),
           NEW id, id # NoID, KeptIn(msgs, id)
    PROVE  AnsweredIn(history, id)
<1>1. /\ Messages(msgs) /\ DOMAIN msgs = 1..Len(msgs)
      /\ \A i \in 1..Len(msgs) : i \in Nat /\ Requests!Calls(msgs, i) = msgs[i].calls
                                 /\ DOMAIN msgs[i].calls = 1..Len(msgs[i].calls)
  BY PassedAreMessages, PlacesNat, Domains
<1>2. PICK i \in 1..Len(msgs) : \E j \in DOMAIN Requests!Calls(msgs, i) :
          Requests!KeptCall(msgs, i, j) /\ Requests!Calls(msgs, i)[j] = id
  BY DEF KeptIn
<1>3. PICK j \in DOMAIN Requests!Calls(msgs, i) :
          Requests!KeptCall(msgs, i, j) /\ Requests!Calls(msgs, i)[j] = id
  BY <1>2
<1>4. PICK k \in 1..Len(msgs) : i < k /\ AnswersCall(msgs, i, j, k)
  BY <1>1, <1>3, KeptCallIsAnswered
<1>5. msgs[k].role = "tool" /\ msgs[k].id = id
  BY <1>3, <1>4 DEF AnswersCall, Requests!Answer
<1>6. msgs[i].role = "assistant" /\ Has(msgs[i].calls, id)
  <2>1. msgs[i].role = "assistant"
    <3>1. <<>> = Requests!Calls(msgs, i) => FALSE
      <4>1. DOMAIN <<>> = {}
        OBVIOUS
      <4> QED
        BY <1>3, <4>1
    <3> QED
      BY <3>1 DEF Requests!Calls
  <2> QED
    BY <1>1, <1>3, <2>1 DEF Has
<1>7. o[i] \in 1..Len(history) /\ history[o[i]].role = "assistant" /\ Has(history[o[i]].calls, id)
  BY <1>6 DEF Conveys
<1>8. o[k] \in 1..Len(history) /\ history[o[k]].role # "assistant" /\ Has(history[o[k]].results, id)
  BY <1>5 DEF Conveys
<1>9. o[i] <= o[k]
  BY <1>4 DEF Conveys
<1> DEFINE P == {p \in 1..Len(history) : Has(history[p].calls, id)}
<1>10. \A p \in 1..Len(history) : p \in Nat
  BY Domains DEF AllSpoken
<1>11. P \in SUBSET Nat /\ P # {} /\ o[i] \in P
  BY <1>7, <1>10
<1>12. PICK p \in P : \A n \in P : p <= n
  BY <1>11, Smallest
<1>13. p < o[k]
  <2>1. p <= o[i] /\ o[i] # o[k]
    BY <1>7, <1>8, <1>11, <1>12
  <2> QED
    BY <1>7, <1>8, <1>9, <1>10, <2>1
<1> QED
  BY <1>8, <1>12, <1>13 DEF AnsweredIn

\* The call and the result of an id: place t of message k, and message r.
Paired(out, id, k, t, r) ==
    /\ k \in 1..Len(out) /\ out[k].role = "assistant" /\ t \in 1..Len(out[k].calls) /\ out[k].calls[t] = id
    /\ r \in 1..Len(out) /\ out[r].role = "tool" /\ out[r].id = id /\ k < r
    /\ \A l \in 1..Len(out) : out[l].role = "assistant" =>
          \A u \in 1..Len(out[l].calls) : out[l].calls[u] = id => l = k /\ u = t
    /\ \A l \in 1..Len(out) : out[l].role = "tool" /\ out[l].id = id => l = r

Unpaired(out, id) ==
    \A l \in 1..Len(out) :
        /\ out[l].role = "assistant" => ~Has(out[l].calls, id)
        /\ out[l].role = "tool" => out[l].id # id

LEMMA KeptIsPaired ==
    ASSUME NEW msgs, AllPassed(msgs), NEW out, AllPassed(out), NEW w, Sanitizes(out, msgs, w),
           NEW id, KeptIn(msgs, id)
    PROVE  \E k, t, r : Paired(out, id, k, t, r)
<1>1. /\ Messages(msgs) /\ DOMAIN msgs = 1..Len(msgs)
      /\ \A i \in 1..Len(msgs) : IsSequence(Requests!Calls(msgs, i)) /\ i \in Nat
                                 /\ DOMAIN Requests!Calls(msgs, i) = 1..Len(Requests!Calls(msgs, i))
      /\ \A k \in 1..Len(out) : k \in Nat
  BY PassedAreMessages, PlacesNat, Domains DEF AllPassed
<1>2. PICK i \in 1..Len(msgs) : \E j \in DOMAIN Requests!Calls(msgs, i) :
          Requests!KeptCall(msgs, i, j) /\ Requests!Calls(msgs, i)[j] = id
  BY DEF KeptIn
<1>3. PICK j \in DOMAIN Requests!Calls(msgs, i) :
          Requests!KeptCall(msgs, i, j) /\ Requests!Calls(msgs, i)[j] = id
  BY <1>2
<1>4. PICK a0 \in 1..Len(msgs) :
          /\ i < a0 /\ AnswersCall(msgs, i, j, a0)
          /\ \A l : AnswersCall(msgs, i, j, l) => l = a0
  BY <1>1, <1>3, KeptCallIsAnswered
<1>5. msgs[a0].role = "tool" /\ msgs[a0].id = id /\ Requests!Answer(msgs, a0)
  BY <1>3, <1>4 DEF AnswersCall, Requests!Answer
<1>6. msgs[i].role = "assistant"
  <2>1. <<>> # Requests!Calls(msgs, i)
    <3>1. DOMAIN <<>> = {}
      OBVIOUS
    <3> QED
      BY <1>3, <3>1
  <2> QED
    BY <2>1 DEF Requests!Calls
<1>7. PICK v : Filters(Requests!KeptCalls(msgs, i), Requests!Calls(msgs, i), KeptPlaces(msgs, i), v)
  BY <1>1, KeptCallsFilter
<1>8. j \in KeptPlaces(msgs, i)
  BY <1>3 DEF KeptPlaces
<1>9. PICK t \in 1..Len(Requests!KeptCalls(msgs, i)) : v[t] = j
  BY <1>1, <1>3, <1>7, <1>8 DEF Filters
<1>10. Requests!KeptCalls(msgs, i)[t] = id
  BY <1>3, <1>7, <1>9 DEF Filters
<1>11. PICK k \in 1..Len(out) : w[k] = i
  BY <1>6, <1>9, <1>10 DEF Sanitizes, Has
<1>12. out[k].role = "assistant" /\ out[k].calls = Requests!KeptCalls(msgs, i)
  BY <1>6, <1>11 DEF Sanitizes
<1>13. PICK r \in 1..Len(out) : w[r] = a0
  BY <1>5 DEF Sanitizes
<1>14. out[r].role = "tool" /\ out[r].id = id
  BY <1>5, <1>13 DEF Sanitizes
<1>15. \A x, y \in 1..Len(out) : w[x] = w[y] => x = y
  <2> TAKE x, y \in 1..Len(out)
  <2>1. w[x] \in Nat /\ w[y] \in Nat /\ (x < y => w[x] < w[y]) /\ (y < x => w[y] < w[x])
    BY <1>1 DEF Sanitizes
  <2>2. x < y \/ y < x \/ x = y
    BY <1>1
  <2> QED
    BY <2>1, <2>2
<1>16. k < r
  <2>1. r < k => a0 < i
    BY <1>11, <1>13 DEF Sanitizes
  <2>2. r # k
    BY <1>12, <1>14
  <2> QED
    BY <1>1, <1>4, <2>1, <2>2
<1>17. ASSUME NEW l \in 1..Len(out), out[l].role = "assistant", NEW u \in 1..Len(out[l].calls), out[l].calls[u] = id
       PROVE  l = k /\ u = t
  <2> DEFINE i2 == w[l]
  <2>1. i2 \in 1..Len(msgs) /\ out[l].calls = Requests!KeptCalls(msgs, i2)
    BY <1>17 DEF Sanitizes
  <2> HIDE DEF i2
  <2>2. PICK v2 : Filters(Requests!KeptCalls(msgs, i2), Requests!Calls(msgs, i2), KeptPlaces(msgs, i2), v2)
    BY <1>1, <2>1, KeptCallsFilter
  <2> DEFINE j2 == v2[u]
  <2>3. j2 \in KeptPlaces(msgs, i2) /\ Requests!Calls(msgs, i2)[j2] = id
    BY <1>17, <2>1, <2>2 DEF Filters
  <2> HIDE DEF j2
  <2>4. Requests!Declares(msgs, i2, j2) /\ Requests!Declares(msgs, i, j)
    BY <1>3, <2>3 DEF KeptPlaces, Requests!KeptCall
  <2>5. i2 = i
    BY <1>1, <1>3, <2>1, <2>3, <2>4, DeclaredOnce
  <2>6. l = k
    BY <1>11, <1>15, <2>5 DEF i2
  <2> DEFINE n == v[u]
  <2>7. u \in 1..Len(Requests!KeptCalls(msgs, i)) /\ Requests!KeptCalls(msgs, i)[u] = id
    BY <1>17, <2>1, <2>5
  <2>8. n \in KeptPlaces(msgs, i) /\ Requests!Calls(msgs, i)[n] = id
    BY <1>7, <2>7 DEF Filters
  <2> HIDE DEF n
  <2>9. Requests!Declares(msgs, i, n)
    BY <2>8 DEF KeptPlaces, Requests!KeptCall
  <2>10. n = j
    BY <1>1, <1>3, <2>4, <2>8, <2>9, DeclaredOnce
  <2>11. (u < t => v[u] < v[t]) /\ (t < u => v[t] < v[u]) /\ v[u] = v[t]
    BY <1>7, <1>9, <2>7, <2>10 DEF Filters, n
  <2>12. u \in Nat /\ t \in Nat /\ v[t] \in Nat
    <3>1. IsSequence(Requests!KeptCalls(msgs, i)) /\ v[t] \in 1..Len(Requests!Calls(msgs, i))
      BY <1>7 DEF Filters
    <3> QED
      BY <1>1, <2>7, <3>1, Domains
  <2> QED
    BY <2>6, <2>11, <2>12
<1>18. ASSUME NEW l \in 1..Len(out), out[l].role = "tool", out[l].id = id PROVE l = r
  <2>1. w[l] \in 1..Len(msgs) /\ msgs[w[l]].id = id /\ Requests!Answer(msgs, w[l])
    BY <1>18 DEF Sanitizes
  <2>2. w[l] = a0
    BY <1>1, <1>3, <1>4, <2>1 DEF AnswersCall
  <2> QED
    BY <1>13, <1>15, <2>2
<1>19. Paired(out, id, k, t, r)
  BY <1>10, <1>9, <1>12, <1>14, <1>16, <1>17, <1>18 DEF Paired
<1> QED
  BY <1>19

LEMMA UnkeptIsUnpaired ==
    ASSUME NEW msgs, AllPassed(msgs), NEW out, AllPassed(out), NEW w, Sanitizes(out, msgs, w),
           NEW id, ~KeptIn(msgs, id)
    PROVE  Unpaired(out, id)
<1>1. /\ Messages(msgs) /\ DOMAIN msgs = 1..Len(msgs)
      /\ \A i \in 1..Len(msgs) : IsSequence(Requests!Calls(msgs, i))
  BY PassedAreMessages
<1>2. ASSUME NEW l \in 1..Len(out), out[l].role = "assistant", Has(out[l].calls, id) PROVE FALSE
  <2> DEFINE i == w[l]
  <2>1. i \in 1..Len(msgs) /\ out[l].calls = Requests!KeptCalls(msgs, i)
    BY <1>2 DEF Sanitizes
  <2> HIDE DEF i
  <2>2. PICK v : Filters(Requests!KeptCalls(msgs, i), Requests!Calls(msgs, i), KeptPlaces(msgs, i), v)
    BY <1>1, <2>1, KeptCallsFilter
  <2>3. PICK u \in 1..Len(Requests!KeptCalls(msgs, i)) : Requests!KeptCalls(msgs, i)[u] = id
    BY <1>2, <2>1 DEF Has
  <2>4. v[u] \in KeptPlaces(msgs, i) /\ Requests!Calls(msgs, i)[v[u]] = id
    BY <2>2, <2>3 DEF Filters
  <2> QED
    BY <2>1, <2>4 DEF KeptIn, KeptPlaces
<1>3. ASSUME NEW l \in 1..Len(out), out[l].role = "tool", out[l].id = id PROVE FALSE
  <2>1. w[l] \in 1..Len(msgs) /\ msgs[w[l]].id = id /\ Requests!Answer(msgs, w[l])
    BY <1>3 DEF Sanitizes
  <2>2. \E i \in DOMAIN msgs : \E j \in DOMAIN Requests!Calls(msgs, i) :
            Requests!KeptCall(msgs, i, j) /\ Requests!Calls(msgs, i)[j] = msgs[w[l]].id
    BY <1>1, <2>1, AnswerHasItsCall
  <2> QED
    BY <1>1, <2>1, <2>2 DEF KeptIn
<1> QED
  BY <1>2, <1>3 DEF Unpaired

-----------------------------------------------------------------------------
(* The input of a request to the Responses API. *)

FunctionCall(id) == [type |-> "function_call", id |-> id]
FunctionCallOutput(id) == [type |-> "function_call_output", id |-> id]

\* c are the items of the message m, its calls come after the first n.
Itemizes(m, c, n) ==
    /\ IsSequence(c) /\ n \in Nat
    /\ \A j \in 1..Len(c) : \A id :
          /\ c[j] = FunctionCall(id) =>
                m.role = "assistant" /\ j - n \in 1..Len(m.calls) /\ m.calls[j - n] = id
          /\ c[j] = FunctionCallOutput(id) => m.role = "tool" /\ m.id = id /\ j = 1
    /\ m.role = "assistant" => \A t \in 1..Len(m.calls) : n + t \in 1..Len(c) /\ c[n + t] = FunctionCall(m.calls[t])
    /\ m.role = "tool" => 1 \in 1..Len(c) /\ c[1] = FunctionCallOutput(m.id)

ItemsOf(m) ==
    CASE m.role = "user" -> <<Requests!Block("user", NoID)>>
      [] m.role = "tool" -> <<Requests!Block("function_call_output", m.id)>>
      [] OTHER -> Requests!If(m.text # "none", <<Requests!Block("message", NoID)>>)
                      \o [p \in DOMAIN m.calls |-> Requests!Block("function_call", m.calls[p])]

LEMMA ItemsOfIs ==
    ASSUME NEW m, Passed(m), NEW c, c = ItemsOf(m)
    PROVE  \E n : Itemizes(m, c, n)
<1>1. \A x, y, z : /\ Requests!Block(x, y).type = x /\ Requests!Block(x, y).id = y
                   /\ FunctionCall(z).type = "function_call" /\ FunctionCall(z).id = z
                   /\ FunctionCallOutput(z).type = "function_call_output" /\ FunctionCallOutput(z).id = z
                   /\ Requests!Block("function_call", z) = FunctionCall(z)
                   /\ Requests!Block("function_call_output", z) = FunctionCallOutput(z)
  BY DEF Requests!Block, FunctionCall, FunctionCallOutput
<1>2. \A j \in 1..1 : j = 1
  OBVIOUS
<1>3. 1 \in 1..1
  OBVIOUS
<1>4. CASE m.role = "user"
  <2>1. c = <<Requests!Block("user", NoID)>>
    BY <1>4 DEF ItemsOf
  <2>2. Len(c) = 1 /\ c[1] = Requests!Block("user", NoID) /\ IsSequence(c)
    BY <2>1, SequenceOfOne
  <2>3. \A id : c[1] # FunctionCall(id) /\ c[1] # FunctionCallOutput(id)
    <3> TAKE id
    <3>1. c[1].type = "user" /\ FunctionCall(id).type = "function_call"
          /\ FunctionCallOutput(id).type = "function_call_output"
      BY <1>1, <2>2
    <3> QED
      BY <3>1
  <2>4. Itemizes(m, c, 0)
    BY <1>2, <1>4, <2>2, <2>3 DEF Itemizes
  <2> QED
    BY <2>4
<1>5. CASE m.role = "tool"
  <2>1. c = <<Requests!Block("function_call_output", m.id)>>
    BY <1>5 DEF ItemsOf
  <2>2. Len(c) = 1 /\ c[1] = FunctionCallOutput(m.id) /\ IsSequence(c)
    BY <1>1, <2>1, SequenceOfOne
  <2>3. \A id : c[1] # FunctionCall(id) /\ (c[1] = FunctionCallOutput(id) => m.id = id)
    <3> TAKE id
    <3>1. c[1].type = "function_call_output" /\ c[1].id = m.id /\ FunctionCall(id).type = "function_call"
          /\ FunctionCallOutput(id).id = id
      BY <1>1, <2>2
    <3> QED
      BY <3>1
  <2>4. Itemizes(m, c, 0)
    BY <1>2, <1>3, <1>5, <2>2, <2>3 DEF Itemizes
  <2> QED
    BY <2>4
<1>6. CASE m.role = "assistant"
  <2> DEFINE h == Requests!If(m.text # "none", <<Requests!Block("message", NoID)>>)
             s == m.calls
             g == [p \in DOMAIN s |-> FunctionCall(s[p])]
             n == Len(h)
             b0 == Len(s)
  <2>1. c = h \o [p \in DOMAIN s |-> Requests!Block("function_call", s[p])]
    BY <1>6 DEF ItemsOf
  <2>2. [p \in DOMAIN s |-> Requests!Block("function_call", s[p])] = g
    BY <1>1
  <2>3. PICK S : s \in Seq(S)
    BY DEF Passed, IsSequence
  <2> DEFINE U == {FunctionCall(y) : y \in S} \cup {Requests!Block("message", NoID)}
  <2>4. h = <<>> \/ h = <<Requests!Block("message", NoID)>>
    BY DEF Requests!If
  <2> HIDE DEF h, s
  <2>5. g \in Seq({FunctionCall(y) : y \in S}) /\ Len(g) = b0 /\ b0 \in Nat /\ \A t \in 1..b0 : g[t] = FunctionCall(s[t])
    BY <2>3
  <2>6. g \in Seq(U)
    BY <2>5
  <2>7. h \in Seq(U)
    <3> DEFINE x == Requests!Block("message", NoID)
    <3>1. x \in U
      OBVIOUS
    <3> HIDE DEF U
    <3>2. <<x>> \in Seq(U) /\ <<>> \in Seq(U)
      BY <3>1
    <3> QED
      BY <2>4, <3>2
  <2>8. \A j \in 1..n : h[j] = Requests!Block("message", NoID)
    <3> HIDE DEF U, g
    <3> QED
      BY <2>4
  <2> HIDE DEF U, g
  <2>9. /\ c \in Seq(U) /\ Len(c) = n + b0 /\ n \in Nat
        /\ \A j \in 1..n : c[j] = h[j]
        /\ \A t \in 1..b0 : c[n + t] = g[t]
    <3>1. c = h \o g
      BY <2>1, <2>2
    <3>2. /\ c \in Seq(U) /\ Len(c) = Len(h) + Len(g) /\ Len(h) \in Nat
          /\ \A j \in 1..Len(h) : c[j] = h[j]
          /\ \A t \in 1..Len(g) : c[Len(h) + t] = g[t]
      BY <2>6, <2>7, <3>1
    <3> QED
      BY <2>5, <3>2
  <2> HIDE DEF n, b0
  <2>10. /\ \A j \in 1..(n + b0) : j \in 1..n \/ (j - n \in 1..b0 /\ j = n + (j - n))
         /\ \A t \in 1..b0 : n + t \in 1..(n + b0)
    BY <2>5, <2>9
  <2>11. ASSUME NEW j \in 1..Len(c), NEW id
         PROVE  /\ c[j] = FunctionCall(id) => j - n \in 1..b0 /\ s[j - n] = id
                /\ c[j] # FunctionCallOutput(id)
    <3>1. CASE j \in 1..n
      <4>1. c[j].type = "message" /\ FunctionCall(id).type = "function_call"
            /\ FunctionCallOutput(id).type = "function_call_output"
        BY <1>1, <2>8, <2>9, <3>1
      <4> QED
        BY <4>1
    <3>2. CASE j - n \in 1..b0 /\ j = n + (j - n)
      <4> DEFINE t == j - n
      <4>1. t \in 1..b0 /\ c[j] = FunctionCall(s[t])
        BY <2>5, <2>9, <3>2
      <4> HIDE DEF t
      <4>2. c[j].type = "function_call" /\ c[j].id = s[t] /\ FunctionCall(id).id = id
            /\ FunctionCallOutput(id).type = "function_call_output"
        BY <1>1, <4>1
      <4> QED
        BY <4>1, <4>2 DEF t
    <3> QED
      BY <2>9, <2>10, <3>1, <3>2
  <2>12. \A t \in 1..b0 : n + t \in 1..Len(c) /\ c[n + t] = FunctionCall(s[t])
    BY <2>5, <2>9, <2>10
  <2>13. Itemizes(m, c, n)
    BY <1>6, <2>9, <2>11, <2>12 DEF Itemizes, s, b0, IsSequence
  <2> QED
    BY <2>13
<1> QED
  BY <1>4, <1>5, <1>6 DEF Passed

\* The input: item p is item w[p] of message o[p].
LEMMA InputPlaces ==
    ASSUME NEW msgs, AllPassed(msgs), NEW items, items = Requests!ResponsesInput(msgs)
    PROVE  \E ss, o, w, n :
               /\ Placed(items, ss, Len(msgs), o, w)
               /\ \A k \in 1..Len(msgs) : Itemizes(msgs[k], ss[k], n[k])
<1> DEFINE ss == [p \in DOMAIN msgs |-> ItemsOf(msgs[p])]
           n == [k \in 1..Len(msgs) |-> CHOOSE x : Itemizes(msgs[k], ss[k], x)]
<1>1. IsSequence(msgs) /\ DOMAIN msgs = 1..Len(msgs) /\ \A k \in 1..Len(msgs) : Passed(msgs[k])
  BY Domains DEF AllPassed
<1>2. items = FlattenSeq(ss)
  BY DEF Requests!ResponsesInput, ItemsOf, Requests!FlattenSeq, FlattenSeq
<1>3. \A k \in 1..Len(msgs) : ss[k] = ItemsOf(msgs[k])
  BY <1>1
<1>4. ss = [p \in DOMAIN msgs |-> ss[p]]
  OBVIOUS
<1> HIDE DEF ss
<1>5. \A k \in 1..Len(msgs) : \E x : Itemizes(msgs[k], ss[k], x)
  BY <1>1, <1>3, ItemsOfIs
<1>6. \A k \in 1..Len(msgs) : Itemizes(msgs[k], ss[k], n[k])
  <2> TAKE k \in 1..Len(msgs)
  <2>1. n[k] = CHOOSE x : Itemizes(msgs[k], ss[k], x)
    OBVIOUS
  <2> QED
    BY <1>5, <2>1
<1> HIDE DEF n
<1>7. \A k \in 1..Len(msgs) : IsSequence(ss[k])
  BY <1>6 DEF Itemizes
<1>8. \E o, w : Placed(items, ss, Len(msgs), o, w)
  BY <1>1, <1>2, <1>4, <1>7, PlacesOver
<1> QED
  BY <1>6, <1>8

\* The items of a call and its result, one each, in this order; or neither.
LEMMA PairedItems ==
    ASSUME NEW msgs, AllPassed(msgs), NEW items, items = Requests!ResponsesInput(msgs),
           NEW id, NEW k, NEW t, NEW r, Paired(msgs, id, k, t, r)
    PROVE  \E x, y \in 1..Len(items) :
               /\ x < y
               /\ \A p \in 1..Len(items) : items[p] = FunctionCall(id) <=> p = x
               /\ \A p \in 1..Len(items) : items[p] = FunctionCallOutput(id) <=> p = y
<1>1. PICK ss, o, w, n : /\ Placed(items, ss, Len(msgs), o, w)
                         /\ \A l \in 1..Len(msgs) : Itemizes(msgs[l], ss[l], n[l])
  BY InputPlaces
<1>2. /\ IsSequence(items)
      /\ \A p \in 1..Len(items) : o[p] \in 1..Len(msgs) /\ w[p] \in 1..Len(ss[o[p]]) /\ items[p] = ss[o[p]][w[p]]
      /\ \A p, q \in 1..Len(items) : p < q => o[p] < o[q] \/ (o[p] = o[q] /\ w[p] < w[q])
      /\ \A l \in 1..Len(msgs) : \A j \in 1..Len(ss[l]) : \E p \in 1..Len(items) : o[p] = l /\ w[p] = j
  BY <1>1 DEF Placed
<1>3. /\ \A p \in 1..Len(items) : p \in Nat /\ o[p] \in Nat /\ w[p] \in Nat
      /\ \A l \in 1..Len(msgs) : l \in Nat /\ n[l] \in Nat /\ \A j \in 1..Len(ss[l]) : j \in Nat
  <2>1. \A l \in 1..Len(msgs) : l \in Nat
    BY Domains DEF AllPassed
  <2>2. \A l \in 1..Len(msgs) : n[l] \in Nat /\ \A j \in 1..Len(ss[l]) : j \in Nat
    BY <1>1, Domains DEF Itemizes
  <2> QED
    BY <1>2, <2>1, <2>2, Domains
<1>4. /\ k \in 1..Len(msgs) /\ msgs[k].role = "assistant" /\ t \in 1..Len(msgs[k].calls) /\ msgs[k].calls[t] = id
      /\ r \in 1..Len(msgs) /\ msgs[r].role = "tool" /\ msgs[r].id = id /\ k < r
      /\ \A l \in 1..Len(msgs) : msgs[l].role = "assistant" =>
            \A u \in 1..Len(msgs[l].calls) : msgs[l].calls[u] = id => l = k /\ u = t
      /\ \A l \in 1..Len(msgs) : msgs[l].role = "tool" /\ msgs[l].id = id => l = r
  BY DEF Paired
<1>5. \A p, q \in 1..Len(items) : o[p] = o[q] /\ w[p] = w[q] => p = q
  <2> TAKE p, q \in 1..Len(items)
  <2>1. p < q \/ q < p \/ p = q
    BY <1>3
  <2>2. /\ p < q => o[p] < o[q] \/ (o[p] = o[q] /\ w[p] < w[q])
        /\ q < p => o[q] < o[p] \/ (o[q] = o[p] /\ w[q] < w[p])
    BY <1>2
  <2>3. o[p] \in Nat /\ o[q] \in Nat /\ w[p] \in Nat /\ w[q] \in Nat
    BY <1>3
  <2> QED
    BY <2>1, <2>2, <2>3
<1> DEFINE b0 == n[k]
           d0 == b0 + t
<1>6. d0 \in 1..Len(ss[k]) /\ ss[k][d0] = FunctionCall(id)
  BY <1>1, <1>4 DEF Itemizes
<1>7. 1 \in 1..Len(ss[r]) /\ ss[r][1] = FunctionCallOutput(id)
  BY <1>1, <1>4 DEF Itemizes
<1>8. t \in Nat /\ b0 \in Nat /\ \A z \in Int : z - b0 = t => z = d0
  <2>1. \A u \in 1..Len(msgs[k].calls) : u \in Nat
    BY <1>4, Domains DEF AllPassed, Passed
  <2>2. t \in Nat /\ b0 \in Nat
    BY <1>3, <1>4, <2>1
  <2> HIDE DEF b0
  <2> QED
    BY <2>2
<1> HIDE DEF b0, d0
<1>9. PICK x \in 1..Len(items) : o[x] = k /\ w[x] = d0
  BY <1>2, <1>4, <1>6
<1>10. PICK y \in 1..Len(items) : o[y] = r /\ w[y] = 1
  BY <1>2, <1>4, <1>7
<1>11. x < y
  <2>1. y < x => o[y] < o[x] \/ (o[y] = o[x] /\ w[y] < w[x])
    BY <1>2
  <2>2. ~(y < x) /\ x # y
    <3>1. k \in Nat /\ r \in Nat
      BY <1>3, <1>4
    <3> QED
      BY <1>4, <1>9, <1>10, <2>1, <3>1
  <2>3. x \in Nat /\ y \in Nat
    BY <1>3
  <2> QED
    BY <2>2, <2>3
<1>12. items[x] = FunctionCall(id) /\ items[y] = FunctionCallOutput(id)
  BY <1>2, <1>6, <1>7, <1>9, <1>10
<1>13. ASSUME NEW p \in 1..Len(items), items[p] = FunctionCall(id) PROVE p = x
  <2> DEFINE l == o[p]
             j == w[p]
  <2>1. l \in 1..Len(msgs) /\ j \in 1..Len(ss[l]) /\ ss[l][j] = FunctionCall(id) /\ j \in Nat
    BY <1>2, <1>3, <1>13
  <2> HIDE DEF l, j
  <2>2. msgs[l].role = "assistant" /\ j - n[l] \in 1..Len(msgs[l].calls) /\ msgs[l].calls[j - n[l]] = id
    BY <1>1, <2>1 DEF Itemizes
  <2>3. l = k /\ j - n[l] = t
    BY <1>4, <2>1, <2>2
  <2>4. j - b0 = t
    BY <2>3 DEF b0
  <2>5. j = d0
    BY <1>8, <2>1, <2>4
  <2> QED
    BY <1>5, <1>9, <2>3, <2>5 DEF l, j
<1>14. ASSUME NEW p \in 1..Len(items), items[p] = FunctionCallOutput(id) PROVE p = y
  <2> DEFINE l == o[p]
             j == w[p]
  <2>1. l \in 1..Len(msgs) /\ j \in 1..Len(ss[l]) /\ ss[l][j] = FunctionCallOutput(id)
    BY <1>2, <1>14
  <2> HIDE DEF l, j
  <2>2. msgs[l].role = "tool" /\ msgs[l].id = id /\ j = 1
    BY <1>1, <2>1 DEF Itemizes
  <2>3. l = r
    BY <1>4, <2>1, <2>2
  <2> QED
    BY <1>5, <1>10, <2>2, <2>3 DEF l, j
<1> QED
  BY <1>11, <1>12, <1>13, <1>14

LEMMA UnpairedItems ==
    ASSUME NEW msgs, AllPassed(msgs), NEW items, items = Requests!ResponsesInput(msgs),
           NEW id, Unpaired(msgs, id)
    PROVE  \A p \in 1..Len(items) : items[p] # FunctionCall(id) /\ items[p] # FunctionCallOutput(id)
<1>1. PICK ss, o, w, n : /\ Placed(items, ss, Len(msgs), o, w)
                         /\ \A l \in 1..Len(msgs) : Itemizes(msgs[l], ss[l], n[l])
  BY InputPlaces
<1> TAKE p \in 1..Len(items)
<1> DEFINE l == o[p]
           j == w[p]
<1>2. l \in 1..Len(msgs) /\ j \in 1..Len(ss[l]) /\ items[p] = ss[l][j]
  BY <1>1 DEF Placed
<1> HIDE DEF l, j
<1>3. Itemizes(msgs[l], ss[l], n[l])
  BY <1>1, <1>2
<1> DEFINE m == msgs[l]
           c == ss[l]
           b0 == n[l]
<1>4. j \in 1..Len(c) /\ items[p] = c[j] /\ Itemizes(m, c, b0)
  BY <1>2, <1>3
<1> HIDE DEF m, c, b0
<1>5. items[p] = FunctionCall(id) => m.role = "assistant" /\ j - b0 \in 1..Len(m.calls) /\ m.calls[j - b0] = id
  BY <1>4 DEF Itemizes
<1>6. items[p] = FunctionCallOutput(id) => m.role = "tool" /\ m.id = id
  BY <1>4 DEF Itemizes
<1>7. /\ m.role = "assistant" => ~Has(m.calls, id)
      /\ m.role = "tool" => m.id # id
  BY <1>2 DEF Unpaired, m
<1> QED
  BY <1>5, <1>6, <1>7 DEF Has

-----------------------------------------------------------------------------
(* What an adapter is given. *)

RequestInv ==
    chat = "asking" =>
        AllSpoken(request) /\ messages = Requests!MessagesToProvider(request)

LEMMA TurnsAreSpoken ==
    ASSUME NEW history, NEW m \in Client!NextTurns(history)
    PROVE  Spoken(m)
<1>1. \A ids \in Client!IDSeqs(history) : IsSequence(ids)
  <2> SUFFICES ASSUME NEW ids \in Client!IDSeqs(history) PROVE IsSequence(ids)
    OBVIOUS
  <2> DEFINE T == ToSet(AskedIDs)
  <2>1. ids \in UNION {[1..n -> T] : n \in 0..3}
    BY DEF Client!IDSeqs, ToSet, Client!ToSet
  <2> HIDE DEF T
  <2>2. PICK n \in 0..3 : ids \in [1..n -> T]
    BY <2>1
  <2>3. n \in Nat
    OBVIOUS
  <2>4. ids \in Seq(T)
    BY <2>2, <2>3
  <2> QED
    BY <2>4 DEF IsSequence
<1>2. IsSequence(<<>>) /\ IsSequence(<<NoID>>)
  BY SequenceOfNone, SequenceOfOne
<1>3. \A r \in {"user", "assistant", "system"} : \A x, y, c, d :
          /\ IsSequence(c) /\ IsSequence(d)
          /\ (r = "assistant" => d = <<>>) /\ (r # "assistant" => c = <<>>)
          => Spoken(Client!Turn(r, x, y, c, d))
  BY DEF Spoken, Client!Turn
<1> DEFINE A == {Client!Turn("user", text, FALSE, <<>>, ids) : text \in BOOLEAN, ids \in Client!IDSeqs(history)}
           B == {Client!Turn("assistant", text, FALSE, ids, <<>>) :
                    text \in BOOLEAN, ids \in {s \in Client!IDSeqs(history) : Len(s) < 3}}
           C == {Client!Turn("assistant", FALSE, TRUE, <<>>, <<>>),
                 Client!Turn("assistant", FALSE, FALSE, <<NoID>>, <<>>),
                 Client!Turn("user", FALSE, FALSE, <<>>, <<NoID>>),
                 Client!Turn("system", TRUE, FALSE, <<>>, <<>>)}
<1>4. m \in A \cup B \cup C
  BY DEF Client!NextTurns, Client!Turn
<1>5. ASSUME m \in A PROVE Spoken(m)
  <2>1. PICK text \in BOOLEAN, ids \in Client!IDSeqs(history) : m = Client!Turn("user", text, FALSE, <<>>, ids)
    BY <1>5 DEF Client!Turn
  <2> QED
    BY <1>1, <1>2, <1>3, <2>1
<1>6. ASSUME m \in B PROVE Spoken(m)
  <2>1. PICK text \in BOOLEAN, ids \in Client!IDSeqs(history) : m = Client!Turn("assistant", text, FALSE, ids, <<>>)
    BY <1>6 DEF Client!Turn
  <2> QED
    BY <1>1, <1>2, <1>3, <2>1
<1>7. m \in C => Spoken(m)
  BY <1>2, <1>3
<1> HIDE DEF A, B, C
<1> QED
  BY <1>4, <1>5, <1>6, <1>7

LEMMA SpokenAppend ==
    ASSUME NEW history, AllSpoken(history), NEW m, Spoken(m)
    PROVE  AllSpoken(Append(history, m))
<1>1. PICK S : history \in Seq(S)
  BY DEF AllSpoken, IsSequence
<1> DEFINE T == S \cup {m}
           q == Append(history, m)
<1>2. history \in Seq(T) /\ m \in T
  BY <1>1
<1> HIDE DEF T
<1> DEFINE n == Len(history)
<1>3. /\ q \in Seq(T) /\ Len(q) = n + 1 /\ n \in Nat
      /\ \A p \in 1..n : q[p] = history[p]
      /\ q[n + 1] = m
  BY <1>2
<1> HIDE DEF q, n
<1>4. \A p \in 1..(n + 1) : p \in 1..n \/ p = n + 1
  BY <1>3
<1>5. \A p \in 1..n : Spoken(history[p])
  BY DEF AllSpoken, n
<1>6. \A p \in 1..Len(q) : Spoken(q[p])
  BY <1>3, <1>4, <1>5
<1> QED
  BY <1>3, <1>6 DEF AllSpoken, IsSequence, q

LEMMA InitRequest == Init => RequestInv
<1> SUFFICES ASSUME Init PROVE RequestInv
  OBVIOUS
<1>1. request = <<>> /\ messages = <<>>
  BY DEF Init
<1>2. AllSpoken(<<>>)
  <2>1. Len(<<>>) = 0 /\ \A p \in 1..0 : FALSE
    OBVIOUS
  <2> QED
    BY <2>1, SequenceOfNone DEF AllSpoken
<1>3. DOMAIN <<>> = {} /\ Requests!FlattenSeq(<<>>) = <<>>
  BY DEF Requests!FlattenSeq
<1>4. [p \in DOMAIN <<>> |-> Requests!Converted(<<>>[p], p)] = <<>>
  BY <1>3
<1>5. [i \in DOMAIN <<>> |-> Requests!Sanitized(<<>>, i)] = <<>>
  BY <1>3
<1>6. Requests!MessagesToProvider(<<>>) = <<>>
  BY <1>3, <1>4, <1>5 DEF Requests!MessagesToProvider, Requests!SanitizeToolMessages
<1> QED
  BY <1>1, <1>2, <1>6 DEF RequestInv

LEMMA NextRequest == RequestInv /\ [Next]_vars => RequestInv'
<1> SUFFICES ASSUME RequestInv, [Next]_vars PROVE RequestInv'
  OBVIOUS
<1>1. CASE Ask
  <2>1. PICK m \in Client!NextTurns(request) : request' = Append(request, m)
    BY <1>1 DEF Ask
  <2>2. AllSpoken(request)
    BY <1>1 DEF RequestInv, Ask
  <2>3. AllSpoken(request')
    BY <2>1, <2>2, TurnsAreSpoken, SpokenAppend
  <2>4. messages' = Requests!MessagesToProvider(request')
    BY <1>1 DEF Ask
  <2> QED
    BY <2>3, <2>4 DEF RequestInv
<1>2. CASE chat' # "asking"
  BY <1>2 DEF RequestInv
<1>3. CASE UNCHANGED <<request, messages, chat>>
  BY <1>3 DEF RequestInv
<1>4. CASE Call
  BY <1>2, <1>4 DEF Call
<1>5. CASE Peek
  BY <1>2, <1>5 DEF Peek
<1>6. CASE Read \/ ReadPending \/ EndOfBody \/ Refuse \/ Convert \/ ChannelClosed \/ Emit
  BY <1>3, <1>6 DEF Read, ReadPending, EndOfBody, Refuse, Convert, ChannelClosed, Emit
<1>7. CASE Finish
  BY <1>2, <1>7 DEF Finish, Close
<1>8. CASE Recover
  BY <1>2, <1>8 DEF Recover, Close
<1>9. CASE UNCHANGED vars
  BY <1>3, <1>9 DEF vars, relayVars
<1> QED
  BY <1>1, <1>4, <1>5, <1>6, <1>7, <1>8, <1>9 DEF Next

\* While a request is built, its turns are spoken by the client, and the messages
\* are what MessagesToProvider makes of them.
THEOREM SpecRequest == Spec => []RequestInv
BY InitRequest, NextRequest, PTL DEF Spec

LEMMA RequestIsPaired ==
    ASSUME RequestInv, chat = "asking", NEW id, id # NoID
    PROVE  /\ AllSpoken(request) /\ AllPassed(messages)
           /\ IF AnsweredIn(request, id) THEN \E k, t, r : Paired(messages, id, k, t, r)
                                         ELSE Unpaired(messages, id)
<1> DEFINE msgs == FlattenSeq(Converteds(request))
<1>1. AllSpoken(request) /\ messages = Requests!MessagesToProvider(request)
  BY DEF RequestInv
<1>2. messages = Requests!SanitizeToolMessages(msgs)
  BY <1>1 DEF Requests!MessagesToProvider, Converteds, Requests!FlattenSeq, FlattenSeq
<1>3. AllPassed(msgs) /\ \E o : Conveys(msgs, request, o)
  BY <1>1, ConvertedConveys
<1> HIDE DEF msgs
<1>4. AllPassed(messages) /\ \E w : Sanitizes(messages, msgs, w)
  BY <1>2, <1>3, SanitizeIs
<1>5. AnsweredIn(request, id) <=> KeptIn(msgs, id)
  BY <1>1, <1>3, AnsweredIsKept, KeptIsAnswered
<1>6. KeptIn(msgs, id) => \E k, t, r : Paired(messages, id, k, t, r)
  BY <1>3, <1>4, KeptIsPaired
<1>7. ~KeptIn(msgs, id) => Unpaired(messages, id)
  BY <1>3, <1>4, UnkeptIsUnpaired
<1> QED
  BY <1>1, <1>4, <1>5, <1>6, <1>7

\* Each id of a request: both of its items and its call, or none of them.
LEMMA RequestKeepsPairs == RequestInv => PairsKept
<1> SUFFICES ASSUME RequestInv, chat = "asking", NEW id \in ToSet(AskedIDs)
             PROVE
            LET declared == {p \in DOMAIN request : id \in CallsOf(request[p])}
                answered == {p \in DOMAIN request : id \in ToSet(request[p].results)}
                items == Requests!ResponsesInput(messages)
                Items(type) == {p \in DOMAIN items : items[p] = [type |-> type, id |-> id]}
            IN  /\ Cardinality(Items("function_call")) = Cardinality(Items("function_call_output"))
                /\ \A p \in Items("function_call"), q \in Items("function_call_output") : p < q
                /\ Cardinality(CallsAt(id)) = IF \E p \in declared, q \in answered :
                                                     p < q /\ \A r \in declared : p <= r
                                              THEN 1 ELSE 0
  BY DEF PairsKept
<1> DEFINE declared == {p \in DOMAIN request : id \in CallsOf(request[p])}
           answered == {p \in DOMAIN request : id \in ToSet(request[p].results)}
           items == Requests!ResponsesInput(messages)
           calls == {p \in DOMAIN items : items[p] = FunctionCall(id)}
           results == {p \in DOMAIN items : items[p] = FunctionCallOutput(id)}
           IsAnswered == \E p \in declared, q \in answered : p < q /\ \A r \in declared : p <= r
<1>1. id # NoID
  BY RelayAssumption
<1>2. /\ AllSpoken(request) /\ AllPassed(messages)
      /\ IF AnsweredIn(request, id) THEN \E k, t, r : Paired(messages, id, k, t, r)
                                    ELSE Unpaired(messages, id)
  BY <1>1, RequestIsPaired
<1>3. DOMAIN items = 1..Len(items)
  <2> HIDE DEF items
  <2>1. items = Requests!ResponsesInput(messages)
    BY DEF items
  <2>2. IsSequence(items)
    BY <1>2, <2>1, InputPlaces DEF Placed
  <2> QED
    BY <2>2, Domains
<1>4. /\ \A p : p \in declared <=> p \in 1..Len(request) /\ Has(request[p].calls, id)
      /\ \A p : p \in answered <=> p \in 1..Len(request) /\ Has(request[p].results, id)
      /\ CallsAt(id) = {p \in 1..Len(messages) : Has(messages[p].calls, id)}
  <2>1. \A s : IsSequence(s) => (id \in ToSet(s) <=> Has(s, id))
    <3> SUFFICES ASSUME NEW s, IsSequence(s) PROVE id \in ToSet(s) <=> Has(s, id)
      OBVIOUS
    <3>1. DOMAIN s = 1..Len(s)
      BY Domains
    <3> QED
      BY <3>1 DEF ToSet, Has
  <2>2. DOMAIN request = 1..Len(request) /\ \A p \in 1..Len(request) : IsSequence(request[p].calls) /\ IsSequence(request[p].results)
    BY <1>2, Domains DEF AllSpoken, Spoken
  <2>3. DOMAIN messages = 1..Len(messages) /\ \A p \in 1..Len(messages) : IsSequence(messages[p].calls)
    BY <1>2, Domains DEF AllPassed, Passed
  <2>4. \A p \in 1..Len(messages) : id \in CallsOf(messages[p]) <=> Has(messages[p].calls, id)
    BY <2>1, <2>3 DEF CallsOf
  <2> QED
    BY <2>1, <2>2, <2>3, <2>4 DEF CallsOf, CallsAt
<1> HIDE DEF declared, answered
<1>5. AnsweredIn(request, id) <=> IsAnswered
  BY <1>4 DEF AnsweredIn
<1>6. \A p \in 1..Len(messages) : Has(messages[p].calls, id) => messages[p].role = "assistant"
  <2>1. Len(<<>>) = 0 /\ \A p \in 1..0 : FALSE
    OBVIOUS
  <2>2. ~Has(<<>>, id)
    BY <2>1 DEF Has
  <2> QED
    BY <1>2, <2>2 DEF AllPassed, Passed
<1>7. calls = {p \in DOMAIN items : items[p] = [type |-> "function_call", id |-> id]}
      /\ results = {p \in DOMAIN items : items[p] = [type |-> "function_call_output", id |-> id]}
  BY DEF FunctionCall, FunctionCallOutput
<1>8. \A z : Cardinality({z}) = 1
  BY FS_Singleton
<1>9. Cardinality({}) = 0
  BY FS_EmptySet
<1>10. items = Requests!ResponsesInput(messages)
  OBVIOUS
<1> HIDE DEF items, IsAnswered
<1>11. /\ Cardinality(calls) = Cardinality(results)
       /\ \A p \in calls, q \in results : p < q
       /\ Cardinality(CallsAt(id)) = IF IsAnswered THEN 1 ELSE 0
  <2>1. CASE IsAnswered
    <3>1. PICK k, t, r : Paired(messages, id, k, t, r)
      BY <1>2, <1>5, <2>1
    <3>2. PICK x, y \in 1..Len(items) :
               /\ x < y
               /\ \A p \in 1..Len(items) : items[p] = FunctionCall(id) <=> p = x
               /\ \A p \in 1..Len(items) : items[p] = FunctionCallOutput(id) <=> p = y
      BY <1>2, <1>10, <3>1, PairedItems
    <3>3. calls = {x} /\ results = {y}
      BY <1>3, <3>2
    <3>4. CallsAt(id) = {k}
      <4>1. \A p \in 1..Len(messages) : Has(messages[p].calls, id) <=> p = k
        BY <1>6, <3>1 DEF Paired, Has
      <4>2. k \in 1..Len(messages)
        BY <3>1 DEF Paired
      <4> QED
        BY <1>4, <4>1, <4>2
    <3> QED
      BY <1>8, <2>1, <3>2, <3>3, <3>4
  <2>2. CASE ~IsAnswered
    <3>1. Unpaired(messages, id)
      BY <1>2, <1>5, <2>2
    <3>2. calls = {} /\ results = {}
      BY <1>2, <1>3, <1>10, <3>1, UnpairedItems
    <3>3. CallsAt(id) = {}
      BY <1>4, <1>6, <3>1 DEF Unpaired
    <3> QED
      BY <1>9, <2>2, <3>2, <3>3
  <2> QED
    BY <2>1, <2>2
<1> QED
  BY <1>7, <1>11 DEF declared, answered, items, IsAnswered

\* Of every call the client declared, at whatever length of the conversation: its
\* items of the Responses input are as many as those of its result and before them,
\* and it is kept if and only if a result follows its first declaration
\* (convert.go:221-321, responses/message.go:18-40).
THEOREM PairsAreKept == Spec => []PairsKept
<1>1. Spec => []RequestInv
  BY SpecRequest
<1> QED
  BY <1>1, RequestKeepsPairs, PTL

-----------------------------------------------------------------------------
(* The Messages API. *)

Wire(toBamboo) == IF toBamboo THEN "bamboo" ELSE "anthropic"

LEMMA WiresFold ==
    ASSUME NEW toBamboo \in BOOLEAN, NEW S, NEW q \in Seq(S)
    PROVE  \E f : /\ Folds(Wire(toBamboo), <<>>, q, Len(q), f)
                  /\ Requests!WireMessages(q, toBamboo) = f[1..Len(q)]
<1> DEFINE Is(f) == f = [s \in SUBSET DOMAIN q |->
                            IF s = {} THEN <<>>
                            ELSE Wired(f[s \ {Max(s)}], q[Max(s)], toBamboo)]
<1>1. DOMAIN q = 1..Len(q)
  OBVIOUS
<1>2. \A s, e : Step(Wire(toBamboo), s, e) = Wired(s, e, toBamboo)
  BY DEF Wire, Step
<1>3. \A f : Is(f) <=> Folds(Wire(toBamboo), <<>>, q, Len(q), f)
  BY <1>1, <1>2 DEF Folds
<1>4. \E f : Is(f)
  <2>1. Len(q) \in Nat
    OBVIOUS
  <2>2. \E f : Folds(Wire(toBamboo), <<>>, q, Len(q), f)
    BY <2>1, FoldExists
  <2> QED
    BY <2>2, <1>3
<1>5. Requests!WireMessages(q, toBamboo) = (CHOOSE f : Is(f))[DOMAIN q]
  BY DEF Requests!WireMessages, Requests!FoldLeft, Requests!MapThenFoldSet, Requests!Max, Max, Wired
<1>6. Is(CHOOSE f : Is(f))
  BY <1>4
<1> QED
  BY <1>1, <1>3, <1>5, <1>6

LEMMA MessageBlocksIs ==
    ASSUME NEW m, Passed(m), NEW toBamboo, NEW b, b = Requests!MessageBlocks(m, toBamboo)
    PROVE  IsSequence(b) /\ 1 \in 1..Len(b) /\ \A p \in 1..Len(b) : b[p].type # "tool_result"
<1>1. PICK S : m.calls \in Seq(S)
  BY DEF Passed, IsSequence
<1> DEFINE t == Requests!Block("thinking", NoID)
           x == Requests!Block("text", NoID)
           e == Requests!Block("empty", NoID)
           g == [p \in DOMAIN m.calls |-> Requests!Block("tool_use", m.calls[p])]
           h1 == Requests!If(m.thinking /\ toBamboo, <<t>>)
           h2 == Requests!If(m.text # "none", <<x>>)
           U == {t, x, e} \cup {Requests!Block("tool_use", y) : y \in S}
<1>2. \A u \in U : u.type # "tool_result"
  BY DEF Requests!Block
<1>3. g \in Seq(U)
  BY <1>1
<1>4. (h1 = <<>> \/ h1 = <<t>>) /\ (h2 = <<>> \/ h2 = <<x>>)
  BY DEF Requests!If
<1>5. b = IF (h1 \o h2) \o g = <<>> THEN <<e>> ELSE (h1 \o h2) \o g
  BY DEF Requests!MessageBlocks
<1>6. t \in U /\ x \in U /\ e \in U
  OBVIOUS
<1> HIDE DEF t, x, e, g, h1, h2, U
<1>7. <<>> \in Seq(U) /\ <<t>> \in Seq(U) /\ <<x>> \in Seq(U) /\ <<e>> \in Seq(U) /\ <<e>> # <<>>
  BY <1>6
<1>8. h1 \in Seq(U) /\ h2 \in Seq(U)
  BY <1>4, <1>7
<1>9. (h1 \o h2) \o g \in Seq(U)
  BY <1>3, <1>8
<1>10. b \in Seq(U) /\ b # <<>>
  BY <1>5, <1>7, <1>9
<1> HIDE DEF U
<1>11. 1 \in 1..Len(b) /\ \A p \in 1..Len(b) : b[p] \in U
  BY <1>10
<1> QED
  BY <1>2, <1>10, <1>11 DEF IsSequence

LEMMA TogetherAppend ==
    ASSUME NEW sent, Together(sent), NEW m, Uniform(m),
           BeginsWithResult(m) => sent = <<>> \/ ~BeginsWithResult(sent[Len(sent)])
    PROVE  Together(Append(sent, m))
<1>1. PICK S : sent \in Seq(S)
  BY DEF Together
<1> DEFINE T == S \cup {m}
           q == Append(sent, m)
           n == Len(sent)
<1>2. sent \in Seq(T) /\ m \in T
  BY <1>1
<1> HIDE DEF T
<1>3. /\ q \in Seq(T) /\ Len(q) = n + 1 /\ n \in Nat
      /\ \A p \in 1..n : q[p] = sent[p]
      /\ q[n + 1] = m
      /\ n # 0 => sent # <<>>
      /\ n = 0 => sent = <<>>
  BY <1>2
<1> HIDE DEF q
<1>4. /\ \A p \in 1..n : Uniform(sent[p])
      /\ \A p \in 1..n : p > 1 /\ BeginsWithResult(sent[p]) => ~BeginsWithResult(sent[p - 1])
  BY DEF Together
<1>5. BeginsWithResult(m) => n = 0 \/ ~BeginsWithResult(sent[n])
  BY <1>3
<1> HIDE DEF n
<1>6. \A p \in 1..(n + 1) : p \in 1..n \/ p = n + 1
  BY <1>3
<1>7. \A p \in 1..Len(q) : Uniform(q[p])
  BY <1>3, <1>4, <1>6
<1>8. ASSUME NEW p \in 1..Len(q), p > 1, BeginsWithResult(q[p]) PROVE ~BeginsWithResult(q[p - 1])
  <2>1. CASE p \in 1..n
    <3>1. p - 1 \in 1..n
      BY <1>3, <1>8, <2>1
    <3> QED
      BY <1>3, <1>4, <1>8, <2>1, <3>1
  <2>2. CASE p = n + 1
    <3>1. p - 1 = n /\ n \in 1..n /\ n # 0
      BY <1>3, <1>8, <2>2
    <3> QED
      BY <1>3, <1>5, <1>8, <2>2, <3>1
  <2> QED
    BY <1>3, <1>6, <2>1, <2>2
<1> QED
  BY <1>3, <1>7, <1>8 DEF Together, q

LEMMA WiredKeeps ==
    ASSUME NEW sent, Together(sent), NEW m, Passed(m), NEW toBamboo
    PROVE  Together(Wired(sent, m, toBamboo))
<1> DEFINE n == Len(sent)
           r == Requests!Block("tool_result", m.id)
<1>1. r.type = "tool_result"
  BY DEF Requests!Block
<1>2. PICK S : sent \in Seq(S)
  BY DEF Together
<1>3. Requests!Last(sent) = sent[n]
  BY DEF Requests!Last
<1>4. CASE m.role # "tool"
  <2> DEFINE b == Requests!MessageBlocks(m, toBamboo)
             x == [role |-> m.role, blocks |-> b]
  <2>1. IsSequence(b) /\ 1 \in 1..Len(b) /\ \A p \in 1..Len(b) : b[p].type # "tool_result"
    BY MessageBlocksIs
  <2>2. x.role = m.role /\ x.blocks = b /\ "blocks" \in DOMAIN x
    OBVIOUS
  <2>3. Wired(sent, m, toBamboo) = Append(sent, x)
    BY <1>4 DEF Wired
  <2> HIDE DEF b, x
  <2>4. ~BeginsWithResult(x)
    BY <2>1, <2>2 DEF BeginsWithResult
  <2>5. Uniform(x)
    BY <2>1, <2>2, <2>4 DEF Uniform, IsSequence
  <2>6. Together(Append(sent, x))
    BY <2>4, <2>5, TogetherAppend
  <2> QED
    BY <2>3, <2>6
<1>5. CASE m.role = "tool" /\ ~Requests!MergesResult(sent)
  <2> DEFINE x == [role |-> "user", blocks |-> <<r>>]
  <2>1. x.role = "user" /\ "blocks" \in DOMAIN x /\ x.blocks = <<r>>
    OBVIOUS
  <2>2. Wired(sent, m, toBamboo) = Append(sent, x)
    BY <1>5 DEF Wired
  <2> HIDE DEF x, r
  <2>3. Len(<<r>>) = 1 /\ <<r>>[1] = r /\ \A p \in 1..1 : p = 1 /\ 1 \in 1..1
    OBVIOUS
  <2>4. \E T : <<r>> \in Seq(T)
    BY SequenceOfOne DEF IsSequence
  <2>5. BeginsWithResult(x)
    BY <1>1, <2>1, <2>3 DEF BeginsWithResult
  <2>6. Uniform(x)
    <3>1. 1 \in 1..Len(x.blocks)
      BY <2>1, <2>3
    <3> QED
      BY <1>1, <2>1, <2>3, <2>4, <2>5, <3>1 DEF Uniform
  <2>7. sent = <<>> \/ ~BeginsWithResult(sent[n])
    <3> SUFFICES ASSUME sent # <<>>, BeginsWithResult(sent[n]) PROVE FALSE
      OBVIOUS
    <3>1. n \in 1..n
      BY <1>2
    <3>2. sent[n].role = "user"
      BY <3>1 DEF Together, Uniform
    <3> QED
      BY <1>3, <1>5, <3>2 DEF Requests!MergesResult, BeginsWithResult
  <2>8. Together(Append(sent, x))
    BY <2>6, <2>7, TogetherAppend
  <2> QED
    BY <2>2, <2>8
<1>6. CASE m.role = "tool" /\ Requests!MergesResult(sent)
  <2> DEFINE l == sent[n]
             b == Append(l.blocks, r)
             x == [l EXCEPT !.blocks = b]
             q == [sent EXCEPT ![n] = x]
  <2>1. sent # <<>> /\ l.role = "user" /\ BeginsWithResult(l)
    BY <1>3, <1>6 DEF Requests!MergesResult, BeginsWithResult
  <2>2. n \in 1..n /\ n \in Nat
    BY <1>2, <2>1
  <2>3. Uniform(l)
    BY <2>2 DEF Together
  <2>4. Wired(sent, m, toBamboo) = q
    BY <1>6 DEF Wired
  <2>5. "blocks" \in DOMAIN l /\ x.blocks = b /\ "blocks" \in DOMAIN x /\ x.role = "user"
    BY <2>1, <2>3 DEF Uniform
  <2>6. PICK T : l.blocks \in Seq(T)
    BY <2>3 DEF Uniform
  <2> DEFINE U == T \cup {r}
             c == Len(l.blocks)
  <2>7. /\ b \in Seq(U) /\ Len(b) = c + 1 /\ c \in Nat
        /\ \A p \in 1..c : b[p] = l.blocks[p]
        /\ b[c + 1] = r
    <3>1. l.blocks \in Seq(U) /\ r \in U
      BY <2>6
    <3> HIDE DEF U, r, l
    <3> QED
      BY <3>1
  <2>8. /\ 1 \in 1..c
        /\ \A p \in 1..c : l.blocks[p].type = "tool_result"
    BY <2>1, <2>3 DEF Uniform
  <2> DEFINE R == S \cup {x}
  <2>9. q \in Seq(R) /\ Len(q) = n /\ q[n] = x /\ \A p \in 1..n : p # n => q[p] = sent[p]
    <3>1. sent \in Seq(R) /\ x \in R
      BY <1>2
    <3> HIDE DEF R, x
    <3> QED
      BY <2>2, <3>1
  <2> HIDE DEF b, x, q, U, l, c, R
  <2>10. \A p \in 1..(c + 1) : p \in 1..c \/ p = c + 1
    BY <2>7
  <2>11. 1 \in 1..(c + 1)
    BY <2>7
  <2>12. \A p \in 1..Len(b) : b[p].type = "tool_result"
    BY <1>1, <2>7, <2>8, <2>10
  <2>13. BeginsWithResult(x)
    BY <2>5, <2>7, <2>11, <2>12 DEF BeginsWithResult
  <2>14. Uniform(x)
    BY <2>5, <2>7, <2>11, <2>12, <2>13 DEF Uniform
  <2>15. \A p \in 1..Len(q) : Uniform(q[p]) /\ (BeginsWithResult(q[p]) <=> BeginsWithResult(sent[p]))
    <3> SUFFICES ASSUME NEW p \in 1..n
                 PROVE  Uniform(q[p]) /\ (BeginsWithResult(q[p]) <=> BeginsWithResult(sent[p]))
      BY <2>9
    <3>1. CASE p = n
      BY <2>1, <2>9, <2>13, <2>14, <3>1 DEF l
    <3>2. CASE p # n
      BY <2>9, <3>2 DEF Together
    <3> QED
      BY <3>1, <3>2
  <2>16. \A p \in 1..Len(q) : p > 1 /\ BeginsWithResult(q[p]) => ~BeginsWithResult(q[p - 1])
    <3> SUFFICES ASSUME NEW p \in 1..n, p > 1, BeginsWithResult(q[p]) PROVE ~BeginsWithResult(q[p - 1])
      BY <2>9
    <3>1. p - 1 \in 1..n
      BY <2>2
    <3>2. ~BeginsWithResult(sent[p - 1])
      BY <2>9, <2>15 DEF Together
    <3> QED
      BY <2>9, <2>15, <3>1, <3>2
  <2>17. Together(q)
    BY <2>9, <2>15, <2>16 DEF Together
  <2> QED
    BY <2>4, <2>17
<1> QED
  BY <1>4, <1>5, <1>6

LEMMA WireTogether ==
    ASSUME NEW msgs, AllPassed(msgs), NEW toBamboo \in BOOLEAN
    PROVE  Together(Requests!WireMessages(msgs, toBamboo))
<1> DEFINE fold == Wire(toBamboo)
           S == {m \in {msgs[p] : p \in 1..Len(msgs)} : Passed(m)}
<1>1. \A s, e : Step(fold, s, e) = Wired(s, e, toBamboo)
  BY DEF Wire, Step
<1>2. \A s : Kept(fold, s) <=> Together(s)
  BY DEF Wire, Kept
<1>3. msgs \in Seq(S)
  <2>1. \A p \in 1..Len(msgs) : msgs[p] \in S
    BY DEF AllPassed
  <2>2. PICK T : msgs \in Seq(T)
    BY DEF AllPassed, IsSequence
  <2> HIDE DEF S
  <2> QED
    BY <2>1, <2>2
<1>4. \A m \in S : Passed(m)
  OBVIOUS
<1> HIDE DEF fold, S
<1>5. Kept(fold, <<>>)
  <2>1. Len(<<>>) = 0 /\ \A p \in 1..0 : FALSE
    OBVIOUS
  <2>2. Together(<<>>)
    BY <2>1, SequenceOfNone DEF Together, IsSequence
  <2> QED
    BY <1>2, <2>2
<1>6. \A s, e : Kept(fold, s) /\ e \in S => Kept(fold, Step(fold, s, e))
  BY <1>1, <1>2, <1>4, WiredKeeps
<1>7. PICK f : Folds(fold, <<>>, msgs, Len(msgs), f) /\ Requests!WireMessages(msgs, toBamboo) = f[1..Len(msgs)]
  BY <1>3, WiresFold DEF fold
<1>8. Kept(fold, f[1..Len(msgs)])
  BY <1>3, <1>5, <1>6, <1>7, FoldKeeps
<1> QED
  BY <1>2, <1>7, <1>8

LEMMA RequestKeepsTogether == RequestInv => ResultsTogether
<1> SUFFICES ASSUME RequestInv, chat = "asking", NEW toBamboo \in BOOLEAN
             PROVE  LET sent == Requests!WireMessages(messages, toBamboo)
                        IsResults(p) == sent[p].blocks[1].type = "tool_result"
                    IN  /\ \A p \in DOMAIN sent : \A block \in ToSet(sent[p].blocks) :
                              block.type = "tool_result" <=> IsResults(p)
                        /\ \A p \in DOMAIN sent : p > 1 /\ IsResults(p) => ~IsResults(p - 1)
  BY DEF ResultsTogether
<1> DEFINE sent == Requests!WireMessages(messages, toBamboo)
<1>1. AllPassed(messages)
  <2>1. messages = Requests!SanitizeToolMessages(FlattenSeq(Converteds(request))) /\ AllSpoken(request)
    BY DEF RequestInv, Requests!MessagesToProvider, Converteds, Requests!FlattenSeq, FlattenSeq
  <2>2. AllPassed(FlattenSeq(Converteds(request)))
    BY <2>1, ConvertedConveys
  <2> QED
    BY <2>1, <2>2, SanitizeIs
<1>2. Together(sent)
  BY <1>1, WireTogether
<1> HIDE DEF sent
<1>3. DOMAIN sent = 1..Len(sent)
  BY <1>2 DEF Together
<1>4. \A p \in DOMAIN sent : \A block \in ToSet(sent[p].blocks) :
          block.type = "tool_result" <=> sent[p].blocks[1].type = "tool_result"
  <2> SUFFICES ASSUME NEW p \in DOMAIN sent, NEW block \in ToSet(sent[p].blocks)
               PROVE  block.type = "tool_result" <=> sent[p].blocks[1].type = "tool_result"
    OBVIOUS
  <2>1. Uniform(sent[p])
    BY <1>2, <1>3 DEF Together
  <2>2. PICK b \in DOMAIN sent[p].blocks : block = sent[p].blocks[b]
    BY DEF ToSet
  <2>3. DOMAIN sent[p].blocks = 1..Len(sent[p].blocks)
    BY <2>1 DEF Uniform
  <2> QED
    BY <2>1, <2>2, <2>3 DEF Uniform, BeginsWithResult
<1>5. \A p \in DOMAIN sent : p > 1 /\ sent[p].blocks[1].type = "tool_result" =>
          ~(sent[p - 1].blocks[1].type = "tool_result")
  BY <1>2, <1>3 DEF Together, BeginsWithResult
<1> QED
  BY <1>4, <1>5 DEF sent

\* The results of one turn's calls reach the Messages API in one user message, with
\* nothing else in it (anthropic/message.go:20-21, bamboo/message.go:160-175).
THEOREM ResultsAreTogether == Spec => []ResultsTogether
<1>1. Spec => []RequestInv
  BY SpecRequest
<1> QED
  BY <1>1, RequestKeepsTogether, PTL
=============================================================================
