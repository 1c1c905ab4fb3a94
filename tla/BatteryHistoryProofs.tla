------------------------ MODULE BatteryHistoryProofs ------------------------
(***************************************************************************)
(* Proofs about BatteryHistoryModel for any devices, durations and answers *)
(* and any number of calls on their way.                                   *)
(***************************************************************************)
EXTENDS BatteryHistory, SequenceTheorems, WellFoundedInduction, TLAPS

(* What every action that ends in load() does to the questions.            *)
Ask ==
  /\ query' \in Query /\ isComplete' \in BOOLEAN
  /\ isComplete => isComplete'
  /\ (isComplete' # isComplete \/ query' # query) => Load
  /\ Load \/ UNCHANGED calls
  /\ UNCHANGED answered

(* What every answer does to them.                                         *)
Answered ==
  /\ calls # <<>> /\ calls' = Tail(calls)
  /\ answered' \in [query: {Head(calls)}, failed: BOOLEAN]
  /\ UNCHANGED <<query, isComplete>>

(* Each action asks, answers, or leaves the questions alone.               *)
LEMMA Steps ==
  ASSUME QuestionsOK, [Next]_vars
  PROVE  Ask \/ Answered \/ UNCHANGED <<query, isComplete, calls, answered>>
<1> USE DEF QuestionsOK, Query
<1>1. ASSUME NEW device \in Devices \union {NoDevice}, SetDevice(device) PROVE Ask
  BY <1>1 DEF SetDevice, Ask
<1>2. ASSUME NEW duration \in Durations, SetDuration(duration) PROVE Ask
  BY <1>2 DEF SetDuration, Ask
<1>3. ASSUME NEW type \in {Rate, Charge}, SetType(type) PROVE Ask
  BY <1>3 DEF SetType, Ask
<1>4. CASE ComponentComplete
  BY <1>4 DEF ComponentComplete, Ask
<1>5. CASE Refresh
  BY <1>5 DEF Refresh, Ask
<1>6. ASSUME NEW reply \in Replies, Finish(reply) PROVE Answered
  BY <1>6 DEF Finish, Answered
<1>7. CASE FinishWithError
  BY <1>7 DEF FinishWithError, Answered
<1>8. CASE UNCHANGED vars
  BY <1>8 DEF vars
<1> QED
  BY <1>1, <1>2, <1>3, <1>4, <1>5, <1>6, <1>7, <1>8 DEF Next

(* What load() leaves behind: the youngest call is for the properties.     *)
LEMMA LoadAsks ==
  ASSUME calls \in Seq(Call), query' \in Query, Load
  PROVE  /\ calls' \in Seq(Call)
         /\ Asking' => calls' # <<>> /\ Last(calls') = query'
<1>1. CASE Asking'
  <2>1. calls' = Append(calls, query')
    BY <1>1 DEF Load, Asking
  <2>2. query' \in Call
    BY <1>1 DEF Asking, Query, Call
  <2> QED
    BY <2>1, <2>2 DEF Last
<1>2. CASE ~Asking'
  BY <1>2 DEF Load, Asking
<1> QED
  BY <1>1, <1>2

(* The calls and what they ask keep their types; no call is ever made to   *)
(* the empty object path.                                                  *)
THEOREM QuestionsCorrect == Spec => []QuestionsOK
<1>1. Init => QuestionsOK
  <2> SUFFICES ASSUME Init PROVE QuestionsOK
    OBVIOUS
  <2>1. DefaultDuration \in Durations
    BY HistoryAssumption
  <2>2. query \in Query
    BY <2>1 DEF Init, Query
  <2>3. calls \in Seq(Call)
    BY EmptySeq DEF Init
  <2>4. answered \in [query: Query, failed: BOOLEAN]
    BY <2>2 DEF Init
  <2> QED
    BY <2>2, <2>3, <2>4 DEF Init, QuestionsOK
<1>2. QuestionsOK /\ [Next]_vars => QuestionsOK'
  <2> SUFFICES ASSUME QuestionsOK, [Next]_vars PROVE QuestionsOK'
    OBVIOUS
  <2>1. CASE Ask
    <3>1. calls' \in Seq(Call)
      BY <2>1, LoadAsks DEF Ask, QuestionsOK
    <3> QED
      BY <2>1, <3>1 DEF Ask, QuestionsOK
  <2>2. CASE Answered
    <3>1. calls' \in Seq(Call) /\ Head(calls) \in Call
      BY <2>2 DEF Answered, QuestionsOK
    <3>2. Head(calls) \in Query
      BY <3>1 DEF Call, Query
    <3> QED
      BY <2>2, <3>1, <3>2 DEF Answered, QuestionsOK
  <2>3. CASE UNCHANGED <<query, isComplete, calls, answered>>
    BY <2>3 DEF QuestionsOK
  <2> QED
    BY <2>1, <2>2, <2>3, Steps
<1> QED
  BY <1>1, <1>2, PTL DEF Spec

(* When no call is on its way the history shown is the answer to the       *)
(* current device, duration and type.  By itself that is not inductive:    *)
(* the last answer must have been for them, so the youngest call must be.  *)
THEOREM SettlesOnCurrent == Spec => [](YoungestCallIsCurrent /\ SettledOnCurrent)
<1> DEFINE Inv == YoungestCallIsCurrent /\ SettledOnCurrent
<1>1. Init => Inv
  BY DEF Init, YoungestCallIsCurrent, SettledOnCurrent, Asking
<1>2. QuestionsOK /\ Inv /\ [Next]_vars => Inv'
  <2> SUFFICES ASSUME QuestionsOK, Inv, [Next]_vars, Asking' PROVE
        /\ calls' # <<>> => Last(calls') = query'
        /\ calls' = <<>> => answered'.query = query'
    BY DEF YoungestCallIsCurrent, SettledOnCurrent, Asking
  <2>1. CASE Ask
    <3>1. CASE Load
      BY <2>1, <3>1, LoadAsks DEF Ask, QuestionsOK
    <3>2. CASE ~Load
      <4>1. UNCHANGED <<query, isComplete, calls, answered>>
        BY <2>1, <3>2 DEF Ask
      <4> QED
        BY <4>1 DEF YoungestCallIsCurrent, SettledOnCurrent, Asking
    <3> QED
      BY <3>1, <3>2
  <2>2. CASE Answered
    <3>1. Asking /\ calls # <<>> /\ calls' = Tail(calls) /\ query' = query
      BY <2>2 DEF Answered, Asking
    <3>2. Last(calls) = query
      BY <3>1 DEF YoungestCallIsCurrent
    <3>3. calls \in Seq(Call)
      BY DEF QuestionsOK
    <3>4. CASE Tail(calls) = <<>>
      <4>1. Len(calls) = 1
        <5>1. Len(Tail(calls)) = Len(calls) - 1
          BY <3>1, <3>3, HeadTailProperties
        <5>2. Len(Tail(calls)) = 0
          BY <3>4, EmptySeq
        <5> QED
          BY <3>3, <5>1, <5>2, LenProperties
      <4>2. Head(calls) = query
        BY <3>2, <3>3, <4>1 DEF Last
      <4>3. answered'.query = Head(calls)
        BY <2>2 DEF Answered
      <4> QED
        BY <3>1, <3>4, <4>2, <4>3
    <3>5. CASE Tail(calls) # <<>>
      <4>1. Len(Tail(calls)) = Len(calls) - 1 /\ Len(calls) - 1 \in 1..Len(Tail(calls))
        BY <3>1, <3>3, <3>5
      <4>2. Tail(calls)[Len(calls) - 1] = calls[Len(calls)]
        BY <3>1, <3>3, <4>1
      <4>3. Last(Tail(calls)) = Last(calls)
        BY <4>1, <4>2 DEF Last
      <4> QED
        BY <3>1, <3>2, <3>5, <4>3
    <3> QED
      BY <3>4, <3>5
  <2>3. CASE UNCHANGED <<query, isComplete, calls, answered>>
    BY <2>3 DEF YoungestCallIsCurrent, SettledOnCurrent, Asking
  <2> QED
    BY <2>1, <2>2, <2>3, Steps
<1> QED
  BY <1>1, <1>2, QuestionsCorrect, PTL DEF Spec

(* Every step of the model is one of LatestAnswer or leaves its state      *)
(* alone: what asks again asks for the properties of that moment, what     *)
(* cannot ask abandons the question, and an answer is to the oldest call,  *)
(* so that none takes the place of one to a younger question.              *)
THEOREM AnswersInTurn == Spec => Latest!Init /\ [][Latest!Next]_(Latest!vars)
<1>1. Init => Latest!Init
  <2> SUFFICES ASSUME Init PROVE Latest!Init
    OBVIOUS
  <2>1. query \in Query
    BY HistoryAssumption DEF Init, Query
  <2> QED
    BY <2>1 DEF Init, Latest!Init, Asking
<1>2. QuestionsOK /\ [Next]_vars => [Latest!Next]_(Latest!vars)
  <2> SUFFICES ASSUME QuestionsOK, [Next]_vars
               PROVE  Latest!Next \/ UNCHANGED Latest!vars
    OBVIOUS
  <2>1. CASE Ask
    <3>1. CASE Asking' /\ Load
      <4>1. calls' = Append(calls, query') /\ query' \in Query
        BY <2>1, <3>1 DEF Ask, Load, Asking
      <4>2. Latest!Ask(query')
        BY <2>1, <3>1, <4>1 DEF Latest!Ask, Ask
      <4> QED
        BY <4>1, <4>2 DEF Latest!Next
    <3>2. CASE Asking' /\ ~Load
      BY <2>1, <3>2 DEF Ask, Latest!vars, Asking
    <3>3. CASE ~Asking'
      <4>1. UNCHANGED <<calls, answered>>
        BY <2>1, <3>3 DEF Ask, Load, Asking
      <4>2. Latest!Abandon
        BY <3>3, <4>1 DEF Latest!Abandon
      <4> QED
        BY <4>2 DEF Latest!Next
    <3> QED
      BY <3>1, <3>2, <3>3
  <2>2. CASE Answered
    <3>1. calls \in Seq(Call) /\ calls # <<>>
      BY <2>2 DEF Answered, QuestionsOK
    <3>2. 1 \in DOMAIN calls /\ Head(calls) = calls[1]
      BY <3>1
    <3>3. calls' = SubSeq(calls, 2, Len(calls))
      BY <2>2, <3>1, TailIsSubSeq DEF Answered
    <3>4. answered'.query = calls[1] /\ UNCHANGED <<query, isComplete>>
      BY <2>2, <3>2 DEF Answered
    <3>5. UNCHANGED (IF Asking THEN query ELSE NoDevice)
      BY <3>4 DEF Asking
    <3>6. \E i \in DOMAIN calls :
            answered'.query = calls[i] /\ calls' = SubSeq(calls, i + 1, Len(calls))
      <4>1. calls' = SubSeq(calls, 1 + 1, Len(calls))
        BY <3>3
      <4> QED
        BY <3>2, <3>4, <4>1, Zenon
    <3>7. Latest!Answer
      BY <3>5, <3>6 DEF Latest!Answer
    <3> QED
      BY <3>7 DEF Latest!Next
  <2>3. CASE UNCHANGED <<query, isComplete, calls, answered>>
    BY <2>3 DEF Latest!vars, Asking
  <2> QED
    BY <2>1, <2>2, <2>3, Steps
<1> QED
  BY <1>1, <1>2, QuestionsCorrect, PTL DEF Spec
-----------------------------------------------------------------------------
(* Where the page shows other values than the model has, the last answer   *)
(* was an error, which the page is not told of: StaleOnlyAfterError.       *)
THEOREM StaleAfterErrors == Spec => []StaleOnlyAfterError
<1> USE DEF StaleOnlyAfterError
<1>1. Init => StaleOnlyAfterError
  BY DEF Init
<1>2. StaleOnlyAfterError /\ [Next]_vars => StaleOnlyAfterError'
  <2> SUFFICES ASSUME StaleOnlyAfterError, [Next]_vars PROVE StaleOnlyAfterError'
    OBVIOUS
  <2>1. CASE UNCHANGED <<values, view, answered>>
    BY <2>1
  <2>2. ASSUME NEW reply \in Replies, Finish(reply) PROVE view' = values'
    BY <2>2 DEF Finish
  <2>3. ASSUME FinishWithError PROVE values' = <<>> /\ answered'.failed
    BY <2>3 DEF FinishWithError
  <2> QED
    BY <2>1, <2>2, <2>3
       DEF Next, vars, SetDevice, SetDuration, SetType, ComponentComplete, Refresh
<1> QED
  BY <1>1, <1>2, PTL DEF Spec
-----------------------------------------------------------------------------
(* What follows is about the values: the two loops over a list of entries  *)
(* are induction over numbers, in the form that a nonempty set of them has *)
(* a least one.                                                            *)
LEMMA LeastNat ==
  ASSUME NEW T, T \subseteq Nat, T # {}
  PROVE  \E x \in T : \A y \in T : x <= y
<1>1. IsWellFoundedOn(OpToRel(<, Nat), Nat)
  BY NatLessThanWellFounded
<1>2. PICK x \in T : \A y \in T : ~ (<<y, x>> \in OpToRel(<, Nat))
  BY <1>1, WFMin
<1>3. \A y \in T : ~(y < x)
  BY <1>2 DEF OpToRel
<1> QED
  BY <1>3

LEMMA Largest ==
  ASSUME NEW n \in Nat, NEW d \in SUBSET (1..n), n \in d
  PROVE  Max(d) = n
<1>1. \A x \in d : n >= x /\ x \in Nat
  OBVIOUS
<1>2. \A x \in d : (\A y \in d : x >= y) => x = n
  BY <1>1
<1> QED
  BY <1>1, <1>2 DEF Max

(* One turn of the loop that keeps the values, or of the one that looks    *)
(* for the largest; what they start from.                                  *)
Turn(keeps, before, entry) == IF keeps THEN Prepended(before, entry) ELSE Larger(before, entry)
Start(keeps) == IF keeps THEN <<>> ELSE 0

Folds(g, keeps, list, n) ==
  g = [d \in SUBSET (1..n) |->
         IF d = {} THEN Start(keeps) ELSE Turn(keeps, g[d \ {Max(d)}], list[Max(d)])]

(* The recursion by which the folds are defined has a solution.            *)
LEMMA Solution ==
  ASSUME NEW keeps, NEW list, NEW size \in Nat
  PROVE  \E g : Folds(g, keeps, list, size)
<1> DEFINE Step(before, n) == Turn(keeps, before, list[n])
           first == Start(keeps)
           Without == {n \in Nat : ~ \E g : Folds(g, keeps, list, n)}
<1> SUFFICES ASSUME Without # {} PROVE FALSE
  OBVIOUS
<1>1. PICK n \in Without : \A m \in Without : n <= m
  BY LeastNat
<1>2. CASE n = 0
  <2> DEFINE g == [d \in SUBSET (1..0) |-> first]
  <2>1. \A d \in SUBSET (1..0) : d = {}
    OBVIOUS
  <2>2. Folds(g, keeps, list, 0)
    BY <2>1 DEF Folds
  <2> QED
    BY <1>1, <1>2, <2>2
<1>3. CASE n # 0
  <2>1. n \in Nat /\ n - 1 \in Nat /\ n - 1 < n
    BY <1>3
  <2>2. n - 1 \notin Without
    <3> HIDE DEF Without
    <3> QED
      BY <1>1, <2>1
  <2>3. PICK g : Folds(g, keeps, list, n - 1)
    BY <2>1, <2>2
  <2> DEFINE h == [d \in SUBSET (1..n) |-> IF n \in d THEN Step(g[d \ {n}], n) ELSE g[d]]
  <2>4. ASSUME NEW d \in SUBSET (1..n)
        PROVE  h[d] = IF d = {} THEN first ELSE Step(h[d \ {Max(d)}], Max(d))
    <3>1. CASE n \in d
      <4>1. Max(d) = n
        BY <2>1, <3>1, Largest
      <4>2. d \ {n} \in SUBSET (1..n) /\ n \notin d \ {n} /\ d # {}
        BY <3>1
      <4>3. h[d \ {n}] = g[d \ {n}] /\ h[d] = Step(g[d \ {n}], n)
        BY <3>1, <4>2
      <4> HIDE DEF h, Step
      <4> QED
        BY <4>1, <4>2, <4>3
    <3>2. CASE n \notin d
      <4>1. d \in SUBSET (1..(n - 1)) /\ \A x : d \ {x} \in SUBSET (1..n) /\ n \notin d \ {x}
        <5>1. \A x \in 1..n : x # n => x \in 1..(n - 1)
          BY <2>1
        <5> HIDE DEF h, Without, Step, first
        <5> QED
          BY <3>2, <5>1
      <4>2. g[d] = IF d = {} THEN first ELSE Step(g[d \ {Max(d)}], Max(d))
        <5>1. g = [e \in SUBSET (1..(n - 1)) |->
                     IF e = {} THEN first ELSE Step(g[e \ {Max(e)}], Max(e))]
          BY <2>3 DEF Folds
        <5> HIDE DEF Step, first
        <5> QED
          BY <4>1, <5>1
      <4>3. h[d] = g[d] /\ h[d \ {Max(d)}] = g[d \ {Max(d)}]
        BY <3>2, <4>1
      <4> HIDE DEF h, Step
      <4> QED
        BY <4>2, <4>3
    <3> QED
      BY <3>1, <3>2
  <2>5. Folds(h, keeps, list, n)
    <3>1. h = [d \in SUBSET (1..n) |-> h[d]]
      OBVIOUS
    <3> HIDE DEF h
    <3>2. h = [d \in SUBSET (1..n) |->
                 IF d = {} THEN first ELSE Step(h[d \ {Max(d)}], Max(d))]
      <4> HIDE DEF Step, first
      <4> QED
        BY <2>4, <3>1
    <3> QED
      BY <3>2 DEF Folds
  <2> QED
    BY <1>1, <2>5
<1> QED
  BY <1>2, <1>3

(* The loop takes the entries one by one, in the order of the list.        *)
LEMMA OneByOne ==
  ASSUME NEW keeps \in BOOLEAN, NEW list \in Seq(Entry)
  PROVE  \E done :
           /\ done[0] = Start(keeps)
           /\ \A k \in 1..Len(list) : done[k] = Turn(keeps, done[k - 1], list[k])
           /\ done[Len(list)] = IF keeps THEN ValuesOf(list) ELSE LargestValue(list)
<1> DEFINE N == Len(list)
           iter == CHOOSE g : Folds(g, keeps, list, N)
           done == [k \in 0..N |-> iter[1..k]]
<1>1. N \in Nat /\ DOMAIN list = 1..N
  OBVIOUS
<1>2. Folds(iter, keeps, list, N)
  <2>1. \E g : Folds(g, keeps, list, N)
    BY <1>1, Solution
  <2> QED
    BY <2>1
<1>3. ASSUME keeps PROVE iter[1..N] = ValuesOf(list)
  <2> DEFINE it == CHOOSE g :
               g = [d \in SUBSET (DOMAIN list) |->
                      IF d = {} THEN <<>> ELSE Prepended(g[d \ {Max(d)}], list[Max(d)])]
  <2>1. ValuesOf(list) = it[DOMAIN list]
    BY DEF ValuesOf, FoldLeft, MapThenFoldSet
  <2>2. it = iter
    BY <1>1, <1>3 DEF Folds, Start, Turn
  <2> QED
    BY <1>1, <1>3, <2>1, <2>2
<1>4. ASSUME ~keeps PROVE iter[1..N] = LargestValue(list)
  <2> DEFINE it == CHOOSE g :
               g = [d \in SUBSET (DOMAIN list) |->
                      IF d = {} THEN 0 ELSE Larger(g[d \ {Max(d)}], list[Max(d)])]
  <2>1. LargestValue(list) = it[DOMAIN list]
    BY DEF LargestValue, FoldLeft, MapThenFoldSet
  <2>2. it = iter
    BY <1>1, <1>4 DEF Folds, Start, Turn
  <2> QED
    BY <1>1, <1>4, <2>1, <2>2
<1>5. iter[1..N] = IF keeps THEN ValuesOf(list) ELSE LargestValue(list)
  BY <1>1, <1>3, <1>4
<1> HIDE DEF iter, N
<1>6. done[N] = iter[1..N]
  BY <1>1
<1>7. done[0] = Start(keeps)
  <2>1. 1..0 = {} /\ {} \in SUBSET (1..N) /\ 0 \in 0..N
    BY <1>1
  <2>2. iter[{}] = Start(keeps)
    BY <1>2, <2>1 DEF Folds
  <2> QED
    BY <2>1, <2>2
<1>8. ASSUME NEW k \in 1..N PROVE done[k] = Turn(keeps, done[k - 1], list[k])
  <2>1. 1..k \in SUBSET (1..N) /\ k \in 1..k /\ k \in 0..N /\ k - 1 \in 0..N /\ k \in Nat
    BY <1>1
  <2>2. Max(1..k) = k
    BY <2>1, Largest
  <2>3. (1..k) \ {k} = 1..(k - 1)
    BY <2>1
  <2>4. iter[1..k] = Turn(keeps, iter[1..(k - 1)], list[k])
    BY <1>2, <2>1, <2>2, <2>3 DEF Folds
  <2> QED
    BY <2>1, <2>4
<1> HIDE DEF done
<1> QED
  BY <1>5, <1>6, <1>7, <1>8 DEF N

(* Entries in the order of their times, none older than any still to come. *)
InOrder(list) == \A i, j \in DOMAIN list : i < j => list[i].time <= list[j].time
AllAfter(list, reply, k) ==
  \A i \in DOMAIN list : \A j \in (k + 1)..Len(reply) : reply[j].time <= list[i].time

(* What UPower answers, newest first, is kept oldest first.                *)
LEMMA ValuesKept ==
  ASSUME NEW reply \in Replies
  PROVE  ValuesOf(reply) \in Seq(Entry) /\ InOrder(ValuesOf(reply))
<1>1. reply \in Seq(Entry) /\ Len(reply) \in Nat /\ DOMAIN reply = 1..Len(reply)
  BY HistoryAssumption
<1>2. PICK done :
        /\ done[0] = <<>>
        /\ \A k \in 1..Len(reply) : done[k] = Prepended(done[k - 1], reply[k])
        /\ done[Len(reply)] = ValuesOf(reply)
  BY <1>1, OneByOne DEF Start, Turn
<1> DEFINE Fine(list, k) ==
             list \in Seq(Entry) /\ InOrder(list) /\ AllAfter(list, reply, k)
           Not == {k \in 0..Len(reply) : ~Fine(done[k], k)}
<1>3. Fine(<<>>, 0)
  BY EmptySeq DEF InOrder, AllAfter
<1>4. ASSUME NEW k \in 1..Len(reply), NEW list, Fine(list, k - 1)
      PROVE  Fine(Prepended(list, reply[k]), k)
  <2> DEFINE longer == <<reply[k]>> \o list
  <2>1. AllAfter(list, reply, k)
    BY <1>1, <1>4 DEF AllAfter
  <2>2. reply[k] \in Entry /\ list \in Seq(Entry) /\ DOMAIN list = 1..Len(list)
        /\ Len(list) \in Nat
    BY <1>1, <1>4
  <2>3. longer \in Seq(Entry) /\ DOMAIN longer = 1..(Len(list) + 1)
        /\ longer[1] = reply[k] /\ \A i \in 2..(Len(list) + 1) : longer[i] = list[i - 1]
    <3>1. <<reply[k]>> \in Seq(Entry) /\ Len(<<reply[k]>>) = 1 /\ <<reply[k]>>[1] = reply[k]
      BY <2>2
    <3> QED
      BY <2>2, <3>1
  <2> HIDE DEF longer
  <2>4. \A i \in 2..(Len(list) + 1) : i - 1 \in DOMAIN list
    BY <2>2
  <2>5. \A i \in DOMAIN list : reply[k].time <= list[i].time
    BY <1>1, <1>4 DEF AllAfter
  <2>6. InOrder(longer)
    <3> SUFFICES ASSUME NEW i \in DOMAIN longer, NEW j \in DOMAIN longer, i < j
                 PROVE  longer[i].time <= longer[j].time
      BY DEF InOrder
    <3>1. j \in 2..(Len(list) + 1) /\ longer[j] = list[j - 1] /\ j - 1 \in DOMAIN list
      BY <2>2, <2>3, <2>4
    <3>2. CASE i = 1
      BY <2>3, <2>5, <3>1, <3>2
    <3>3. CASE i # 1
      <4>1. longer[i] = list[i - 1] /\ i - 1 \in DOMAIN list /\ i - 1 < j - 1
        BY <2>2, <2>3, <2>4, <3>3
      <4> QED
        BY <1>4, <3>1, <4>1 DEF InOrder
    <3> QED
      BY <3>2, <3>3
  <2>7. AllAfter(longer, reply, k)
    <3> SUFFICES ASSUME NEW i \in DOMAIN longer, NEW j \in (k + 1)..Len(reply)
                 PROVE  reply[j].time <= longer[i].time
      BY DEF AllAfter
    <3>1. CASE i = 1
      <4>1. k \in DOMAIN reply /\ j \in DOMAIN reply /\ k < j
        BY <1>1
      <4>2. reply[k].time >= reply[j].time /\ reply[j] \in Entry
        BY <1>1, <4>1, NewestFirst
      <4> QED
        BY <2>2, <2>3, <3>1, <4>2 DEF Entry
    <3>2. CASE i # 1
      <4>1. longer[i] = list[i - 1] /\ i - 1 \in DOMAIN list
        BY <2>2, <2>3, <2>4, <3>2
      <4> QED
        BY <2>1, <4>1 DEF AllAfter
    <3> QED
      BY <3>1, <3>2
  <2> QED
    BY <1>4, <2>1, <2>3, <2>6, <2>7 DEF Prepended, longer
<1> HIDE DEF Fine
<1>5. Not = {}
  <2> SUFFICES ASSUME Not # {} PROVE FALSE
    OBVIOUS
  <2>1. PICK k \in Not : \A j \in Not : k <= j
    <3>1. Not \subseteq Nat
      BY <1>1
    <3> HIDE DEF Not
    <3> QED
      BY <3>1, LeastNat
  <2>2. k # 0
    BY <1>2, <1>3, <2>1
  <2>3. k \in 1..Len(reply) /\ k - 1 \in 0..Len(reply) /\ ~(k <= k - 1)
    BY <1>1, <2>1, <2>2
  <2>4. Fine(done[k - 1], k - 1)
    BY <2>1, <2>3
  <2>5. Fine(done[k], k)
    BY <1>2, <1>4, <2>3, <2>4
  <2> QED
    BY <2>1, <2>5
<1>6. Fine(ValuesOf(reply), Len(reply))
  BY <1>1, <1>2, <1>5
<1> QED
  BY <1>6 DEF Fine

(* The largest value: no value is a unit above it, and one reaches it.     *)
LEMMA LargestFound ==
  ASSUME NEW list \in Seq(Entry), list # <<>>
  PROVE  /\ LargestValue(list) \in Nat
         /\ \A i \in DOMAIN list : list[i].value < 10 * (LargestValue(list) + 1)
         /\ \E i \in DOMAIN list : list[i].value >= 10 * LargestValue(list)
<1>1. Len(list) \in Nat /\ DOMAIN list = 1..Len(list) /\ Len(list) # 0
  BY EmptySeq
<1>2. PICK done :
        /\ done[0] = 0
        /\ \A k \in 1..Len(list) : done[k] = Larger(done[k - 1], list[k])
        /\ done[Len(list)] = LargestValue(list)
  BY OneByOne DEF Start, Turn
<1>3. \A i \in DOMAIN list : list[i].value \in Nat
  <2>1. \A i \in DOMAIN list : list[i] \in Entry
    BY <1>1
  <2> QED
    BY <2>1 DEF Entry
<1> DEFINE Fine(max, k) ==
             /\ max \in Nat
             /\ \A i \in 1..k : list[i].value < 10 * (max + 1)
             /\ \/ k = 0 /\ max = 0
                \/ \E i \in 1..k : list[i].value >= 10 * max
           Not == {k \in 0..Len(list) : ~Fine(done[k], k)}
<1>4. Fine(0, 0)
  OBVIOUS
<1>5. ASSUME NEW k \in 1..Len(list), NEW max, Fine(max, k - 1)
      PROVE  Fine(Larger(max, list[k]), k)
  <2> DEFINE value == list[k].value
             larger == Larger(max, list[k])
  <2>1. value \in Nat /\ max \in Nat /\ k \in Nat
    BY <1>1, <1>3, <1>5
  <2>2. 1..k = (1..(k - 1)) \union {k} /\ k \in 1..k
    BY <2>1
  <2>3. \A i \in 1..(k - 1) : list[i].value \in Nat
    BY <1>1, <1>3
  <2>4. larger = IF value > 10 * max THEN value \div 10 ELSE max
    BY DEF Larger
  <2> HIDE DEF value, larger
  <2>5. larger \in Nat /\ larger >= max /\ value < 10 * (larger + 1)
    BY <2>1, <2>4
  <2>6. \A i \in 1..(k - 1) : list[i].value < 10 * (larger + 1)
    BY <1>5, <2>1, <2>3, <2>5
  <2>7. \E i \in 1..k : list[i].value >= 10 * larger
    <3>1. CASE value > 10 * max
      <4>1. value >= 10 * larger
        BY <2>1, <2>4, <3>1
      <4> QED
        BY <2>2, <4>1 DEF value
    <3>2. CASE ~(value > 10 * max) /\ k - 1 = 0 /\ max = 0
      <4>1. value >= 10 * larger
        BY <2>1, <2>4, <3>2
      <4> QED
        BY <2>2, <4>1 DEF value
    <3>3. CASE ~(value > 10 * max) /\ \E i \in 1..(k - 1) : list[i].value >= 10 * max
      BY <2>2, <2>4, <3>3
    <3> QED
      BY <1>5, <3>1, <3>2, <3>3
  <2>8. Fine(larger, k)
    BY <2>2, <2>5, <2>6, <2>7 DEF value
  <2> QED
    BY <2>8 DEF larger
<1> HIDE DEF Fine
<1>6. Not = {}
  <2> SUFFICES ASSUME Not # {} PROVE FALSE
    OBVIOUS
  <2>1. PICK k \in Not : \A j \in Not : k <= j
    <3>1. Not \subseteq Nat
      BY <1>1
    <3> HIDE DEF Not
    <3> QED
      BY <3>1, LeastNat
  <2>2. k # 0
    BY <1>2, <1>4, <2>1
  <2>3. k \in 1..Len(list) /\ k - 1 \in 0..Len(list) /\ ~(k <= k - 1)
    BY <1>1, <2>1, <2>2
  <2>4. Fine(done[k - 1], k - 1)
    BY <2>1, <2>3
  <2>5. Fine(done[k], k)
    BY <1>2, <1>5, <2>3, <2>4
  <2> QED
    BY <2>1, <2>5
<1>7. Fine(LargestValue(list), Len(list))
  BY <1>1, <1>2, <1>6
<1> QED
  BY <1>1, <1>7 DEF Fine

(* The values and what the page read of them keep their types.             *)
THEOREM TypeCorrect == Spec => []TypeOK
<1> DEFINE Lists == values \in Seq(Entry) /\ view \in Seq(Entry)
<1>1. Init => Lists
  BY EmptySeq DEF Init
<1>2. Lists /\ [Next]_vars => Lists'
  <2> SUFFICES ASSUME Lists, [Next]_vars PROVE Lists'
    OBVIOUS
  <2>1. CASE UNCHANGED <<values, view>>
    BY <2>1
  <2>2. ASSUME NEW reply \in Replies, Finish(reply) PROVE Lists'
    BY <2>2, ValuesKept DEF Finish
  <2>3. CASE FinishWithError
    BY <2>3, EmptySeq DEF FinishWithError
  <2> QED
    BY <2>1, <2>2, <2>3
       DEF Next, vars, SetDevice, SetDuration, SetType, ComponentComplete, Refresh
<1>3. QuestionsOK /\ Lists => TypeOK
  BY DEF TypeOK
<1> QED
  BY <1>1, <1>2, <1>3, QuestionsCorrect, PTL DEF Spec

(* The graph fits into its axes: PointsBetweenLimits.  The times do because*)
(* the entries are in order, OldestFirst, the values by what the loop      *)
(* leaves in max.                                                          *)
THEOREM GraphFits == Spec => []PointsBetweenLimits
<1>1. Init => OldestFirst
  BY DEF Init, OldestFirst
<1>2. OldestFirst /\ [Next]_vars => OldestFirst'
  <2> SUFFICES ASSUME OldestFirst, [Next]_vars PROVE OldestFirst'
    OBVIOUS
  <2>1. CASE UNCHANGED values
    BY <2>1 DEF OldestFirst
  <2>2. ASSUME NEW reply \in Replies, Finish(reply) PROVE OldestFirst'
    BY <2>2, ValuesKept DEF Finish, OldestFirst, InOrder
  <2>3. CASE FinishWithError
    BY <2>3 DEF FinishWithError, OldestFirst
  <2> QED
    BY <2>1, <2>2, <2>3
       DEF Next, vars, SetDevice, SetDuration, SetType, ComponentComplete, Refresh
<1>3. ASSUME TypeOK, OldestFirst PROVE PointsBetweenLimits
  <2>1. CASE values = <<>>
    BY <2>1 DEF PointsBetweenLimits, Points
  <2>2. CASE values # <<>>
    <3>1. values \in Seq(Entry) /\ Len(values) \in Nat /\ DOMAIN values = 1..Len(values)
          /\ Len(values) # 0
      BY <1>3, <2>2, EmptySeq DEF TypeOK
    <3>2. Points(values) = SubSeq(values, 1, Len(values) - 1)
      BY <2>2 DEF Points, Front
    <3>3. /\ DOMAIN Points(values) = 1..(Len(values) - 1)
          /\ \A i \in 1..(Len(values) - 1) : Points(values)[i] = values[i]
      BY <3>1, <3>2
    <3>4. FirstDataPointTime(values) = values[1].time
          /\ LastDataPointTime(values) = values[Len(values)].time
      BY <2>2, <3>1 DEF FirstDataPointTime, LastDataPointTime, Last
    <3>5. ASSUME NEW i \in 1..(Len(values) - 1)
          PROVE  values[1].time <= values[i].time /\ values[i].time <= values[Len(values)].time
      <4>1. i \in DOMAIN values /\ 1 \in DOMAIN values /\ Len(values) \in DOMAIN values
            /\ (i = 1 \/ 1 < i) /\ i < Len(values)
        BY <3>1
      <4>2. values[1] \in Entry
        BY <3>1, <4>1
      <4>3. values[1].time \in Nat
        BY <4>2 DEF Entry
      <4> QED
        BY <1>3, <4>1, <4>3 DEF OldestFirst
    <3> QED
      BY <2>2, <3>1, <3>3, <3>4, <3>5, LargestFound DEF PointsBetweenLimits
  <2> QED
    BY <2>1, <2>2
<1> QED
  BY <1>1, <1>2, <1>3, TypeCorrect, PTL DEF Spec
=============================================================================
