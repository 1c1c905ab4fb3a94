-------------------------- MODULE NavigationProofs --------------------------
(***************************************************************************)
(* Proofs about launching and switching for any number of launches and any *)
(* rows: there is one window, with one page above the initial one, and the *)
(* highlighted row is that of the page shown; and every step of the        *)
(* program is one that SingleInstance allows.                              *)
(***************************************************************************)
EXTENDS Navigation, SequenceTheorems, FiniteSetTheorems, WellFoundedInduction, TLAPS

(* Replacing the page above the initial one.                               *)
LEMMA SwitchReplaces ==
  ASSUME NEW initial, NEW old, NEW page
  PROVE  /\ SwitchPage(<<initial>>, page) = <<initial, page>>
         /\ SwitchPage(<<initial, old>>, page) = <<initial, page>>
<1> DEFINE two == <<initial, old>>
<1>1. two \in Seq({initial, old}) /\ Len(two) = 2 /\ two[1] = initial
  OBVIOUS
<1> HIDE DEF two
<1>2. Front(two) = SubSeq(two, 1, 1)
  BY <1>1 DEF Front
<1>3. /\ SubSeq(two, 1, 1) \in Seq({initial, old})
      /\ Len(SubSeq(two, 1, 1)) = 1 /\ SubSeq(two, 1, 1)[1] = initial
  BY <1>1
<1>4. <<initial>> \in Seq({initial, old}) /\ Len(<<initial>>) = 1 /\ <<initial>>[1] = initial
  OBVIOUS
<1>5. SubSeq(two, 1, 1) = <<initial>>
  <2> DEFINE front == SubSeq(two, 1, 1)
             alone == <<initial>>
  <2>1. front \in Seq({initial, old}) /\ alone \in Seq({initial, old})
    BY <1>3, <1>4
  <2>2. Len(front) = Len(alone) /\ \A i \in 1..Len(front) : front[i] = alone[i]
    BY <1>3, <1>4
  <2> HIDE DEF front, alone
  <2>3. front = alone
    BY <2>1, <2>2, SeqEqual
  <2> QED
    BY <2>3 DEF front, alone
<1>6. SwitchPage(two, page) = Append(<<initial>>, page)
  BY <1>1, <1>2, <1>5 DEF SwitchPage
<1>7. SwitchPage(<<initial>>, page) = Append(<<initial>>, page)
  BY <1>4 DEF SwitchPage
<1>8. Append(<<initial>>, page) = <<initial, page>>
  <2> DEFINE all == {initial, page}
             alone == <<initial>>
             longer == Append(alone, page)
             pair == <<initial, page>>
  <2>1. alone \in Seq(all) /\ Len(alone) = 1 /\ alone[1] = initial /\ page \in all
    OBVIOUS
  <2>2. pair \in Seq(all) /\ Len(pair) = 2 /\ pair[1] = initial /\ pair[2] = page
    OBVIOUS
  <2> HIDE DEF alone, pair
  <2>3. /\ longer \in Seq(all) /\ Len(longer) = 2
        /\ longer[1] = initial /\ longer[2] = page
    <3>1. longer \in Seq(all) /\ Len(longer) = Len(alone) + 1
      BY <2>1, AppendProperties
    <3>2. \A i \in 1..Len(alone) : longer[i] = alone[i]
      BY <2>1, AppendProperties
    <3>3. longer[Len(alone) + 1] = page
      BY <2>1, AppendProperties
    <3> HIDE DEF longer
    <3> QED
      BY <2>1, <3>1, <3>2, <3>3
  <2> HIDE DEF longer
  <2>4. Len(longer) = Len(pair) /\ \A i \in 1..Len(longer) : longer[i] = pair[i]
    BY <2>2, <2>3
  <2>5. longer = pair
    BY <2>2, <2>3, <2>4, SeqEqual
  <2> QED
    BY <2>5 DEF longer, pair, alone
<1> QED
  BY <1>6, <1>7, <1>8 DEF two

(* A nonempty set of numbers has a least one: induction on numbers.        *)
LEMMA LeastNat ==
  ASSUME NEW T, T \subseteq Nat, T # {}
  PROVE  \E x \in T : \A y \in T : x <= y
<1>1. IsWellFoundedOn(OpToRel(<, Nat), Nat)
  BY NatLessThanWellFounded
<1>2. PICK x \in T : \A y \in T : ~ (<<y, x>> \in OpToRel(<, Nat))
  BY <1>1, WFMin
<1>3. \A y \in T : ~(y < x)
  BY <1>2 DEF OpToRel
<1> QED
  BY <1>3

LEMMA Largest ==
  ASSUME NEW n \in Nat, NEW d \in SUBSET (1..n), n \in d
  PROVE  Max(d) = n
<1>1. \A x \in d : n >= x /\ x \in Nat
  OBVIOUS
<1>2. \A x \in d : (\A y \in d : x >= y) => x = n
  BY <1>1
<1> QED
  BY <1>1, <1>2 DEF Max

(* The statements of the timer take the rows out one by one.               *)
LEMMA OneByOne ==
  ASSUME NEW list, NEW missing
  PROVE  \E left :
           /\ left[0] = list
           /\ \A k \in 1..Len(Optional) :
                left[k] = IF Optional[k] \in missing
                          THEN RemoveItem(left[k - 1], Optional[k]) ELSE left[k - 1]
           /\ RemoveMissing(list, missing) = left[Len(Optional)]
<1> DEFINE Step(before, name) == IF name \in missing THEN RemoveItem(before, name) ELSE before
           Folds(g, n) ==
             g = [d \in SUBSET (1..n) |->
                    IF d = {} THEN list ELSE Step(g[d \ {Max(d)}], Optional[Max(d)])]
           Without == {n \in Nat : ~ \E g : Folds(g, n)}
<1>1. Without = {}
  <2> SUFFICES ASSUME Without # {} PROVE FALSE
    OBVIOUS
  <2>1. PICK n \in Without : \A m \in Without : n <= m
    BY LeastNat
  <2>2. CASE n = 0
    <3> DEFINE g == [d \in SUBSET (1..0) |-> list]
    <3>1. \A d \in SUBSET (1..0) : d = {}
      OBVIOUS
    <3>2. Folds(g, 0)
      BY <3>1
    <3> QED
      BY <2>1, <2>2, <3>2
  <2>3. CASE n # 0
    <3>1. n \in Nat /\ n - 1 \in Nat /\ n - 1 < n
      BY <2>3
    <3>2. n - 1 \notin Without
      <4> HIDE DEF Without
      <4> QED
        BY <2>1, <3>1
    <3>3. PICK g : Folds(g, n - 1)
      BY <3>1, <3>2
    <3> DEFINE h == [d \in SUBSET (1..n) |->
                       IF n \in d THEN Step(g[d \ {n}], Optional[n]) ELSE g[d]]
    <3>4. ASSUME NEW d \in SUBSET (1..n)
          PROVE  h[d] = IF d = {} THEN list ELSE Step(h[d \ {Max(d)}], Optional[Max(d)])
      <4>1. CASE n \in d
        <5>1. Max(d) = n
          BY <3>1, <4>1, Largest
        <5>2. d \ {n} \in SUBSET (1..n) /\ n \notin d \ {n} /\ d # {}
          BY <4>1
        <5>3. h[d \ {n}] = g[d \ {n}] /\ h[d] = Step(g[d \ {n}], Optional[n])
          BY <4>1, <5>2
        <5> HIDE DEF h, Step
        <5> QED
          BY <5>1, <5>2, <5>3
      <4>2. CASE n \notin d
        <5>1. d \in SUBSET (1..(n - 1)) /\ \A x : d \ {x} \in SUBSET (1..n) /\ n \notin d \ {x}
          <6>1. \A x \in 1..n : x # n => x \in 1..(n - 1)
            BY <3>1
          <6> HIDE DEF h, Without, Folds, Step
          <6> QED
            BY <4>2, <6>1
        <5>2. g[d] = IF d = {} THEN list ELSE Step(g[d \ {Max(d)}], Optional[Max(d)])
          <6> HIDE DEF Step
          <6> QED
            BY <3>3, <5>1
        <5>3. h[d] = g[d] /\ h[d \ {Max(d)}] = g[d \ {Max(d)}]
          BY <4>2, <5>1
        <5> HIDE DEF h, Step
        <5> QED
          BY <5>2, <5>3
      <4> QED
        BY <4>1, <4>2
    <3>5. Folds(h, n)
      <4>1. h = [d \in SUBSET (1..n) |-> h[d]]
        OBVIOUS
      <4> HIDE DEF h, Step
      <4> QED
        BY <3>4, <4>1
    <3> QED
      BY <2>1, <3>5
  <2> QED
    BY <2>2, <2>3
<1> DEFINE N == Len(Optional)
           iter == CHOOSE g : Folds(g, N)
           left == [k \in 0..N |-> iter[1..k]]
<1>2. N \in Nat /\ DOMAIN Optional = 1..N
  BY NavigationAssumption
<1>3. Folds(iter, N)
  <2> HIDE DEF Folds
  <2>1. \E g : Folds(g, N)
    BY <1>1, <1>2
  <2> QED
    BY <2>1
<1>4. RemoveMissing(list, missing) = iter[1..N]
  BY <1>2 DEF RemoveMissing, FoldLeft, MapThenFoldSet
<1> HIDE DEF iter, N, Step
<1>5. \A k \in 1..N : left[k] = Step(left[k - 1], Optional[k])
  <2> SUFFICES ASSUME NEW k \in 1..N PROVE left[k] = Step(left[k - 1], Optional[k])
    OBVIOUS
  <2>1. 1..k \in SUBSET (1..N) /\ k \in 1..k /\ k \in 0..N /\ k - 1 \in 0..N /\ k \in Nat
    BY <1>2
  <2>2. Max(1..k) = k
    BY <2>1, Largest
  <2>3. (1..k) \ {k} = 1..(k - 1)
    BY <2>1
  <2>4. iter[1..k] = Step(iter[1..(k - 1)], Optional[k])
    BY <1>3, <2>1, <2>2, <2>3
  <2> QED
    BY <2>1, <2>4
<1>6. left[0] = list
  <2>1. 1..0 = {} /\ {} \in SUBSET (1..N) /\ 0 \in 0..N
    BY <1>2
  <2>2. iter[{}] = list
    BY <1>3, <2>1
  <2> QED
    BY <2>1, <2>2
<1>7. left[N] = iter[1..N]
  BY <1>2
<1> HIDE DEF left
<1> QED
  BY <1>4, <1>5, <1>6, <1>7 DEF N, Step

(* Taking one element out moves those behind it one place forward.         *)
LEMMA Removal ==
  ASSUME NEW S, NEW s \in Seq(S), NEW i \in DOMAIN s
  PROVE  /\ RemoveAt(s, i) \in Seq(S)
         /\ Len(RemoveAt(s, i)) = Len(s) - 1
         /\ \A k \in 1..(Len(s) - 1) :
              RemoveAt(s, i)[k] = s[IF k < i THEN k ELSE k + 1]
<1> DEFINE front == SubSeq(s, 1, i - 1)
           back == SubSeq(s, i + 1, Len(s))
<1>1. i \in 1..Len(s) /\ Len(s) \in Nat
  OBVIOUS
<1>2. \A j \in 1..(i - 1) : j \in 1..Len(s)
  BY <1>1
<1>3. front \in Seq(S) /\ Len(front) = i - 1 /\ \A k \in 1..(i - 1) : front[k] = s[k]
  BY <1>1, <1>2
<1>4. back \in Seq(S) /\ Len(back) = Len(s) - i
      /\ \A k \in 1..(Len(s) - i) : back[k] = s[i + k]
  BY <1>1
<1>5. RemoveAt(s, i) = front \o back
  BY DEF RemoveAt
<1> HIDE DEF front, back
<1>6. RemoveAt(s, i) \in Seq(S) /\ Len(RemoveAt(s, i)) = Len(s) - 1
  BY <1>1, <1>3, <1>4, <1>5
<1>7. ASSUME NEW k \in 1..(Len(s) - 1)
      PROVE  RemoveAt(s, i)[k] = s[IF k < i THEN k ELSE k + 1]
  <2>1. CASE k < i
    BY <1>1, <1>3, <1>4, <1>5, <2>1
  <2>2. CASE ~(k < i)
    <3>1. k - (i - 1) \in 1..(Len(s) - i)
      BY <1>1, <2>2
    <3>2. k \in 1..(Len(front) + Len(back)) /\ ~(k <= Len(front))
      BY <1>1, <1>3, <1>4, <2>2
    <3>3. (front \o back)[k] = back[k - Len(front)]
      BY <1>3, <1>4, <3>2, ConcatProperties
    <3>4. back[k - (i - 1)] = s[i + (k - (i - 1))]
      BY <1>4, <3>1
    <3>5. i + (k - (i - 1)) = k + 1 /\ k - Len(front) = k - (i - 1)
      BY <1>1, <1>3
    <3> QED
      BY <1>5, <2>2, <3>3, <3>4, <3>5
  <2> QED
    BY <2>1, <2>2
<1> QED
  BY <1>6, <1>7

(* Where the current row is afterwards is a row, and comes from it.        *)
LEMMA PlaceKept ==
  ASSUME NEW n \in Nat, n > 1, NEW index \in 1..n, NEW row \in 1..n,
         NEW place, place = IF row > index \/ row = n THEN row - 1 ELSE row
  PROVE  /\ place \in 1..(n - 1)
         /\ row # index => row = IF place < index THEN place ELSE place + 1
OBVIOUS

(* removeItem(), while other rows are left: the current row keeps its      *)
(* item, unless that is the one removed.                                   *)
LEMMA ItemRemoved ==
  ASSUME NEW list, list.rows \in Seq(Names), IsInjective(list.rows),
         list.current \in DOMAIN list.rows, Len(list.rows) > 1, NEW name,
         NEW after, after = RemoveItem(list, name)
  PROVE  /\ after.rows \in Seq(Names) /\ IsInjective(after.rows)
         /\ Len(after.rows) >= Len(list.rows) - 1
         /\ after.current \in DOMAIN after.rows
         /\ Range(after.rows) \subseteq Range(list.rows)
         /\ \/ after.rows[after.current] = list.rows[list.current]
            \/ name = list.rows[list.current] /\ name \notin Range(after.rows)
<1> DEFINE old == list.rows
           row == list.current
           new == after.rows
<1>1. DOMAIN old = 1..Len(old) /\ Len(old) \in Nat
  OBVIOUS
<1>2. CASE name \notin Range(old)
  BY <1>1, <1>2 DEF RemoveItem
<1>3. CASE name \in Range(old)
  <2> DEFINE index == CHOOSE i \in DOMAIN old : old[i] = name
  <2>1. index \in 1..Len(old) /\ old[index] = name
    BY <1>1, <1>3 DEF Range
  <2>2. after = [rows |-> RemoveAt(old, index),
                 current |-> CurrentAfterRemoval(old, row, index)]
    BY <1>3 DEF RemoveItem
  <2> HIDE DEF index
  <2>3. /\ new \in Seq(Names) /\ Len(new) = Len(old) - 1 /\ DOMAIN new = 1..(Len(old) - 1)
        /\ \A k \in 1..(Len(old) - 1) : new[k] = old[IF k < index THEN k ELSE k + 1]
    <3> HIDE DEF old
    <3>1. new = RemoveAt(old, index)
      BY <2>2 DEF old
    <3>2. old \in Seq(Names) /\ index \in DOMAIN old
      BY <1>1, <2>1 DEF old
    <3>3. /\ RemoveAt(old, index) \in Seq(Names) /\ Len(RemoveAt(old, index)) = Len(old) - 1
          /\ \A k \in 1..(Len(old) - 1) :
               RemoveAt(old, index)[k] = old[IF k < index THEN k ELSE k + 1]
      BY <3>2, Removal
    <3> HIDE DEF new
    <3> QED
      BY <3>1, <3>3, LenProperties
  <2>4. after.current = IF row > index \/ row = Len(old) THEN row - 1 ELSE row
    BY <2>2 DEF CurrentAfterRemoval
  <2> HIDE DEF old, new, row
  <2>5. row \in 1..Len(old) /\ Len(old) > 1
    BY <1>1 DEF old, row
  <2>6. /\ after.current \in 1..(Len(old) - 1)
        /\ row # index =>
             row = IF after.current < index THEN after.current ELSE after.current + 1
    <3> DEFINE n == Len(old)
               place == after.current
    <3>1. n \in Nat /\ n > 1 /\ index \in 1..n /\ row \in 1..n
      BY <1>1, <2>1, <2>5
    <3>2. place = IF row > index \/ row = n THEN row - 1 ELSE row
      BY <2>4
    <3> HIDE DEF n, place
    <3>3. /\ place \in 1..(n - 1)
          /\ row # index => row = IF place < index THEN place ELSE place + 1
      BY <3>1, <3>2, PlaceKept
    <3> QED
      BY <3>3 DEF n, place
  <2>7. \A k \in 1..(Len(old) - 1) :
          (IF k < index THEN k ELSE k + 1) \in (1..Len(old)) \ {index}
    BY <1>1, <2>1
  <2>8. IsInjective(new)
    <3> SUFFICES ASSUME NEW j \in 1..(Len(old) - 1), NEW k \in 1..(Len(old) - 1), new[j] = new[k]
                 PROVE  j = k
      BY <2>3 DEF IsInjective
    <3>1. (IF j < index THEN j ELSE j + 1) = (IF k < index THEN k ELSE k + 1)
      <4> DEFINE i == IF j < index THEN j ELSE j + 1
                 l == IF k < index THEN k ELSE k + 1
      <4>1. /\ i \in DOMAIN old /\ l \in DOMAIN old
            /\ new[j] = old[i] /\ new[k] = old[l]
        BY <1>1, <2>3, <2>7
      <4>2. IsInjective(old)
        BY <1>1 DEF old
      <4> HIDE DEF i, l
      <4>3. i = l
        BY <4>1, <4>2 DEF IsInjective
      <4> QED
        BY <4>3 DEF i, l
    <3> QED
      BY <2>1, <3>1
  <2>9. Range(new) \subseteq Range(old) \ {name}
    <3> SUFFICES ASSUME NEW k \in 1..(Len(old) - 1) PROVE new[k] \in Range(old) \ {name}
      BY <2>3 DEF Range
    <3> DEFINE i == IF k < index THEN k ELSE k + 1
    <3>1. i \in DOMAIN old /\ i # index /\ new[k] = old[i]
      BY <1>1, <2>3, <2>7
    <3> HIDE DEF i
    <3>2. old[i] # old[index]
      BY <1>1, <2>1, <3>1 DEF IsInjective, old
    <3> QED
      BY <2>1, <3>1, <3>2 DEF Range
  <2>10. CASE row = index
    <3>1. name = old[row] /\ name \notin Range(new)
      BY <2>1, <2>9, <2>10
    <3> QED
      BY <1>1, <2>3, <2>6, <2>8, <2>9, <3>1 DEF old, row, new
  <2>11. CASE row # index
    <3>1. new[after.current] = old[row]
      BY <2>3, <2>6, <2>11
    <3> QED
      BY <1>1, <2>3, <2>6, <2>8, <2>9, <3>1 DEF old, row, new
  <2> QED
    BY <2>10, <2>11
<1> QED
  BY <1>2, <1>3

(* The whole timer: rows are left, and the current one keeps its item      *)
(* unless that was taken out.                                              *)
LEMMA MissingRemoved ==
  ASSUME NEW row \in DOMAIN Pages, NEW missing, NEW after,
         after = RemoveMissing([rows |-> Pages, current |-> row], missing)
  PROVE  /\ after.rows \in Seq(Names) /\ IsInjective(after.rows)
         /\ after.current \in DOMAIN after.rows
         /\ \/ after.rows[after.current] = Pages[row]
            \/ Pages[row] \in Range(Optional) \ Range(after.rows)
<1> DEFINE list == [rows |-> Pages, current |-> row]
<1>1. PICK left :
        /\ left[0] = list
        /\ \A k \in 1..Len(Optional) :
             left[k] = IF Optional[k] \in missing
                       THEN RemoveItem(left[k - 1], Optional[k]) ELSE left[k - 1]
        /\ after = left[Len(Optional)]
  BY OneByOne
<1> DEFINE Fine(l, k) ==
             /\ l.rows \in Seq(Names) /\ IsInjective(l.rows)
             /\ Len(l.rows) >= Len(Pages) - k
             /\ l.current \in DOMAIN l.rows
             /\ \/ l.rows[l.current] = Pages[row]
                \/ Pages[row] \in Range(Optional) \ Range(l.rows)
           Not == {k \in 0..Len(Optional) : ~Fine(left[k], k)}
<1>2. Len(Optional) \in Nat /\ Len(Pages) \in Nat /\ Len(Optional) < Len(Pages)
  BY NavigationAssumption
<1>3. Fine(list, 0)
  BY NavigationAssumption
<1>4. ASSUME NEW k \in 1..Len(Optional), NEW l, Fine(l, k - 1) PROVE Fine(RemoveItem(l, Optional[k]), k)
  <2> DEFINE r == RemoveItem(l, Optional[k])
  <2>1. Len(l.rows) > 1 /\ Len(l.rows) \in Nat
    BY <1>2, <1>4
  <2>2. /\ r.rows \in Seq(Names) /\ IsInjective(r.rows)
        /\ Len(r.rows) >= Len(l.rows) - 1
        /\ r.current \in DOMAIN r.rows
        /\ Range(r.rows) \subseteq Range(l.rows)
        /\ \/ r.rows[r.current] = l.rows[l.current]
           \/ Optional[k] = l.rows[l.current] /\ Optional[k] \notin Range(r.rows)
    BY <1>4, <2>1, ItemRemoved
  <2>3. Optional[k] \in Range(Optional)
    BY NavigationAssumption DEF Range
  <2> HIDE DEF r
  <2>4. l.rows[l.current] \in Range(l.rows)
    BY <1>4 DEF Range
  <2>5. Len(r.rows) >= Len(Pages) - k
    BY <1>2, <1>4, <2>1, <2>2
  <2>6. \/ r.rows[r.current] = Pages[row]
        \/ Pages[row] \in Range(Optional) \ Range(r.rows)
    BY <1>4, <2>2, <2>3, <2>4
  <2>7. Fine(r, k)
    BY <2>2, <2>5, <2>6
  <2> QED
    BY <2>7 DEF r
<1>5. ASSUME NEW k \in 1..Len(Optional), NEW l, Fine(l, k - 1) PROVE Fine(l, k)
  BY <1>2, <1>5
<1> HIDE DEF Fine
<1>6. Not = {}
  <2> SUFFICES ASSUME Not # {} PROVE FALSE
    OBVIOUS
  <2>1. Not \subseteq Nat
    BY <1>2
  <2>2. PICK k \in Not : \A j \in Not : k <= j
    BY <2>1, LeastNat
  <2>3. k # 0
    BY <1>1, <1>3, <2>2
  <2>4. k \in 1..Len(Optional) /\ k - 1 \in 0..Len(Optional) /\ ~(k <= k - 1)
    BY <1>2, <2>1, <2>2, <2>3
  <2>5. Fine(left[k - 1], k - 1)
    BY <2>2, <2>4
  <2>6. Fine(left[k], k)
    BY <1>1, <1>4, <1>5, <2>4, <2>5
  <2> QED
    BY <2>2, <2>6
<1>7. Fine(after, Len(Optional))
  BY <1>1, <1>2, <1>6
<1> QED
  BY <1>7 DEF Fine
-----------------------------------------------------------------------------
(* Processes and their calls, without the window.                          *)
PlacesOK ==
  /\ at \in [Processes -> Steps] /\ module \in [Processes -> Modules]
  /\ inbox \in Seq(Processes)

(* Reaching the next stage, for a process that has the window or does not, *)
(* with the calls as they were.                                            *)
LEMMA MovesOn ==
  ASSUME PlacesOK, CallsInv, UNCHANGED inbox, module' \in [Processes -> Modules],
         NEW p \in Processes, NEW step \in Steps, at' = [at EXCEPT ![p] = step],
         at[p] # "waiting",
         \/ at[p] \in Owning /\ step \in Owning \ {"owner"}
         \/ at[p] \notin Owning /\ step \notin Owning
         \/ at[p] \notin Owning /\ Owners = {}
  PROVE  PlacesOK' /\ CallsInv'
<1>1. PlacesOK'
  BY DEF PlacesOK
<1>2. \A i \in DOMAIN inbox' : at'[inbox'[i]] = "waiting"
  <2> SUFFICES ASSUME NEW i \in DOMAIN inbox PROVE at'[inbox[i]] = "waiting"
    OBVIOUS
  <2>1. inbox[i] \in Processes /\ at[inbox[i]] = "waiting"
    BY DEF PlacesOK, CallsInv
  <2> QED
    BY <2>1 DEF PlacesOK
<1>3. at'[p] = step /\ \A q \in Processes : q # p => at'[q] = at[q]
  BY DEF PlacesOK
<1>4. \A q, r \in Owners' : q = r
  BY <1>3 DEF CallsInv, Owners
<1>5. inbox' # <<>> => \E q \in Owners' : at'[q] # "owner"
  <2> SUFFICES ASSUME inbox # <<>> PROVE \E q \in Owners' : at'[q] # "owner"
    OBVIOUS
  <2>1. PICK q \in Owners : at[q] # "owner"
    BY DEF CallsInv
  <2>2. CASE q = p
    BY <1>3, <2>1, <2>2 DEF Owners
  <2>3. CASE q # p
    BY <1>3, <2>1, <2>3 DEF Owners
  <2> QED
    BY <2>2, <2>3
<1>6. IsInjective(inbox')
  BY DEF CallsInv
<1> QED
  BY <1>1, <1>2, <1>4, <1>5, <1>6 DEF CallsInv

(* The call of a client is answered, and it ends.                          *)
LEMMA Answered ==
  ASSUME PlacesOK, CallsInv, NEW p \in Processes, Serve(p)
  PROVE  /\ Head(inbox) \in Processes /\ at[Head(inbox)] = "waiting"
         /\ PlacesOK' /\ CallsInv'
<1> DEFINE client == Head(inbox)
<1>1. /\ at[p] = "running" /\ inbox # <<>> /\ UNCHANGED module
      /\ at' = [at EXCEPT ![client] = "gone"] /\ inbox' = Tail(inbox)
  BY DEF Serve
<1>2. /\ inbox \in Seq(Processes) /\ Len(inbox) \in Nat \ {0} /\ DOMAIN inbox = 1..Len(inbox)
      /\ Tail(inbox) \in Seq(Processes) /\ DOMAIN Tail(inbox) = 1..(Len(inbox) - 1)
      /\ client = inbox[1] /\ 1 \in DOMAIN inbox
      /\ \A i \in 1..(Len(inbox) - 1) : Tail(inbox)[i] = inbox[i + 1]
  BY <1>1, EmptySeq DEF PlacesOK
<1>3. client \in Processes /\ at[client] = "waiting"
  BY <1>2 DEF CallsInv
<1>4. \A i \in DOMAIN inbox' : /\ i + 1 \in DOMAIN inbox /\ inbox'[i] = inbox[i + 1]
                               /\ inbox'[i] \in Processes /\ inbox'[i] # client
  <2> SUFFICES ASSUME NEW i \in DOMAIN inbox'
               PROVE  /\ i + 1 \in DOMAIN inbox /\ inbox'[i] = inbox[i + 1]
                      /\ inbox'[i] \in Processes /\ inbox'[i] # client
    OBVIOUS
  <2>1. i + 1 \in DOMAIN inbox /\ i + 1 # 1 /\ inbox'[i] = inbox[i + 1]
    BY <1>1, <1>2
  <2>2. inbox[i + 1] # inbox[1]
    BY <1>2, <2>1 DEF CallsInv, IsInjective
  <2> QED
    BY <1>2, <2>1, <2>2
<1>5. IsInjective(inbox')
  <2> SUFFICES ASSUME NEW i \in DOMAIN inbox', NEW j \in DOMAIN inbox', inbox'[i] = inbox'[j]
               PROVE  i = j
    BY DEF IsInjective
  <2>1. i + 1 = j + 1
    BY <1>4 DEF CallsInv, IsInjective
  <2> QED
    BY <1>1, <1>2, <2>1
<1>6. \A i \in DOMAIN inbox' : at'[inbox'[i]] = "waiting"
  BY <1>1, <1>4 DEF CallsInv, PlacesOK
<1>7. Owners' = Owners
  BY <1>1, <1>3 DEF Owners, Owning, PlacesOK
<1>8. p \in Owners' /\ at'[p] = "running"
  BY <1>1, <1>3 DEF Owners, Owning, PlacesOK
<1>9. PlacesOK'
  BY <1>1, <1>2, <1>3 DEF PlacesOK, Steps
<1> QED
  BY <1>3, <1>5, <1>6, <1>7, <1>8, <1>9 DEF CallsInv

(* The window is closed: nobody owns the service any more.                 *)
LEMMA Closed ==
  ASSUME PlacesOK, CallsInv, NEW p \in Processes, Quit(p)
  PROVE  PlacesOK' /\ CallsInv' /\ Owners' = {}
<1>1. /\ at[p] = "running" /\ inbox' = <<>> /\ UNCHANGED module
      /\ at' = [q \in Processes |-> IF q = p \/ q \in Range(inbox) THEN "gone" ELSE at[q]]
  BY DEF Quit
<1>2. PlacesOK'
  BY <1>1, EmptySeq DEF PlacesOK, Steps
<1>3. p \in Owners
  BY <1>1 DEF Owners, Owning
<1>4. \A q \in Processes : at[q] \in Owning => q = p
  BY <1>3 DEF CallsInv, Owners
<1>5. \A q \in Processes : at'[q] \notin Owning
  BY <1>1, <1>4 DEF Owning
<1>6. Owners' = {}
  BY <1>5 DEF Owners
<1> QED
  BY <1>1, <1>2, <1>6, EmptySeq DEF CallsInv, IsInjective

(* A client calls, and waits if there is somebody to answer.               *)
LEMMA Called ==
  ASSUME PlacesOK, CallsInv, NEW p \in Processes, Call(p)
  PROVE  PlacesOK' /\ CallsInv' /\ at'[p] \in {"waiting", "gone"}
<1>1. at[p] = "calling" /\ UNCHANGED module
  BY DEF Call
<1>2. CASE \E q \in Owners : at[q] # "owner"
  <2>1. at' = [at EXCEPT ![p] = "waiting"] /\ inbox' = Append(inbox, p)
    BY <1>2 DEF Call
  <2>2. at'[p] = "waiting" /\ \A q \in Processes : q # p => at'[q] = at[q]
    BY <2>1 DEF PlacesOK
  <2>3. /\ Len(inbox) \in Nat /\ DOMAIN inbox = 1..Len(inbox)
        /\ inbox' \in Seq(Processes) /\ DOMAIN inbox' = 1..(Len(inbox) + 1)
        /\ \A i \in DOMAIN inbox : inbox'[i] = inbox[i]
        /\ inbox'[Len(inbox) + 1] = p
    BY <2>1, AppendProperties DEF PlacesOK
  <2>4. \A i \in DOMAIN inbox : /\ inbox[i] \in Processes /\ at[inbox[i]] = "waiting"
                                /\ inbox[i] # p
    BY <1>1 DEF PlacesOK, CallsInv
  <2>5. \A i \in DOMAIN inbox' : i \in DOMAIN inbox \/ i = Len(inbox) + 1
    BY <2>3
  <2>6. \A i \in DOMAIN inbox' : at'[inbox'[i]] = "waiting"
    BY <2>2, <2>3, <2>4, <2>5
  <2>7. IsInjective(inbox')
    <3> SUFFICES ASSUME NEW i \in DOMAIN inbox', NEW j \in DOMAIN inbox', inbox'[i] = inbox'[j]
                 PROVE  i = j
      BY DEF IsInjective
    <3>1. CASE i \in DOMAIN inbox /\ j \in DOMAIN inbox
      BY <2>3, <3>1 DEF CallsInv, IsInjective
    <3>2. CASE ~(i \in DOMAIN inbox /\ j \in DOMAIN inbox)
      BY <2>3, <2>4, <2>5, <3>2
    <3> QED
      BY <3>1, <3>2
  <2>8. Owners' = Owners
    BY <1>1, <2>1 DEF Owners, Owning, PlacesOK
  <2>9. \E q \in Owners' : at'[q] # "owner"
    BY <1>1, <1>2, <2>2, <2>8 DEF Owners, Owning
  <2>10. PlacesOK'
    BY <1>1, <2>1, <2>3 DEF PlacesOK, Steps
  <2> QED
    BY <2>2, <2>6, <2>7, <2>8, <2>9, <2>10 DEF CallsInv
<1>3. CASE ~\E q \in Owners : at[q] # "owner"
  <2>1. at' = [at EXCEPT ![p] = "gone"] /\ UNCHANGED inbox
    BY <1>3 DEF Call
  <2>2. PlacesOK' /\ CallsInv'
    BY <1>1, <2>1, MovesOn DEF Steps, Owning, PlacesOK
  <2> QED
    BY <2>1, <2>2 DEF PlacesOK
<1> QED
  BY <1>2, <1>3

LEMMA CallsInitially == Init => PlacesOK /\ CallsInv
<1> SUFFICES ASSUME Init PROVE PlacesOK /\ CallsInv
  OBVIOUS
<1>1. inbox = <<>> /\ inbox \in Seq(Processes) /\ DOMAIN inbox = {}
  BY EmptySeq DEF Init
<1>2. PlacesOK
  BY <1>1 DEF Init, PlacesOK, Steps, Modules
<1>3. Owners = {}
  BY DEF Init, Owners, Owning
<1> QED
  BY <1>1, <1>2, <1>3 DEF CallsInv, IsInjective

(* One step per action.                                                    *)
LEMMA CallsStay ==
  ASSUME PlacesOK, CallsInv, [Next]_vars
  PROVE  PlacesOK' /\ CallsInv'
<1>1. ASSUME NEW p \in Processes, NEW name \in Modules, Launch(p, name)
      PROVE  PlacesOK' /\ CallsInv'
  <2> DEFINE step == IF Owners = {} THEN "owner" ELSE "client"
  <2>1. /\ at[p] = "new" /\ at' = [at EXCEPT ![p] = step] /\ UNCHANGED inbox
        /\ step \in Steps /\ module' \in [Processes -> Modules]
    BY <1>1 DEF Launch, PlacesOK, Steps, Owning
  <2>2. \/ at[p] \notin Owning /\ step \notin Owning
        \/ at[p] \notin Owning /\ Owners = {}
    BY <2>1 DEF Owning
  <2> HIDE DEF step
  <2> QED
    BY <2>1, <2>2, MovesOn
<1>2. ASSUME NEW p \in Processes, NEW step \in {"exported", "loaded", "running"},
             at[p] \in Owning, at' = [at EXCEPT ![p] = step], UNCHANGED <<module, inbox>>
      PROVE  PlacesOK' /\ CallsInv'
  <2>1. step \in Steps /\ step \in Owning \ {"owner"} /\ at[p] # "waiting"
    BY <1>2 DEF Steps, Owning
  <2> QED
    BY <1>2, <2>1, MovesOn DEF PlacesOK
<1>3. ASSUME NEW p \in Processes, Export(p) \/ LoadWindow(p) \/ StartLoop(p)
      PROVE  PlacesOK' /\ CallsInv'
  BY <1>2, <1>3 DEF Export, LoadWindow, StartLoop, Owning
<1>4. CASE UNCHANGED <<at, module, inbox>>
  BY <1>4 DEF PlacesOK, CallsInv, Owners
<1>5. ASSUME NEW p \in Processes, Trim(p) \/ \E row \in DOMAIN rows : ClickRow(p, row)
      PROVE  PlacesOK' /\ CallsInv'
  BY <1>4, <1>5 DEF Trim, ClickRow
<1>6. ASSUME NEW p \in Processes, Probe(p)
      PROVE  PlacesOK' /\ CallsInv'
  <2> DEFINE step == IF \E q \in Owners : at[q] # "owner" THEN "calling" ELSE "gone"
  <2>1. /\ at[p] = "client" /\ at' = [at EXCEPT ![p] = step] /\ UNCHANGED <<module, inbox>>
        /\ step \in Steps /\ step \notin Owning /\ at[p] \notin Owning
    BY <1>6 DEF Probe, Steps, Owning
  <2> HIDE DEF step
  <2> QED
    BY <2>1, MovesOn DEF PlacesOK
<1>7. CASE UNCHANGED vars
  BY <1>4, <1>7 DEF vars
<1> QED
  BY <1>1, <1>3, <1>5, <1>6, <1>7, Answered, Closed, Called DEF Next
-----------------------------------------------------------------------------
(* A page above the initial one, as a sequence.                            *)
LEMMA TwoPages ==
  ASSUME NEW page \in Names
  PROVE  /\ Pages[1] \in Names /\ <<Pages[1], page>> \in Seq(Names)
         /\ <<Pages[1], page>> # <<>> /\ Last(<<Pages[1], page>>) = page
         /\ Len(<<Pages[1], page>>) = 2 /\ <<Pages[1], page>>[1] = Pages[1]
<1>1. Pages[1] \in Names
  BY NavigationAssumption
<1> QED
  BY <1>1 DEF Last

LEMMA RowSet ==
  ASSUME NEW top, NEW row, SetCurrent(row, <<Pages[1], top>>)
  PROVE  /\ current' = row
         /\ stack' = <<Pages[1], IF row = current THEN top ELSE rows'[row]>>
BY SwitchReplaces DEF SetCurrent

(* What switchPageFromName() shows: the page of that name, with its row    *)
(* highlighted, or what was shown before.                                  *)
LEMMA Switched ==
  ASSUME rows \in Seq(Names), WindowIsUp, NEW name, SwitchPageFromName(name)
  PROVE  /\ UNCHANGED <<rows, trimmed>> /\ WindowIsUp'
         /\ IF name \in Range(rows) THEN stack' = <<Pages[1], name>> ELSE UNCHANGED stack
<1>1. UNCHANGED <<rows, trimmed>>
  BY DEF SwitchPageFromName
<1>2. CASE name \in Range(rows)
  <2> DEFINE row == CHOOSE row \in DOMAIN rows : rows[row] = name
  <2>1. row \in DOMAIN rows /\ rows[row] = name /\ name \in Names
    BY <1>2 DEF Range
  <2>2. PICK old : stack = <<Pages[1], old>>
    BY DEF WindowIsUp
  <2>3. SwitchPage(stack, name) = <<Pages[1], name>>
    BY <2>2, SwitchReplaces
  <2>4. SetCurrent(row, <<Pages[1], name>>)
    BY <1>2, <2>3 DEF SwitchPageFromName
  <2> HIDE DEF row
  <2>5. current' = row /\ stack' = <<Pages[1], name>>
    BY <1>1, <2>1, <2>4, RowSet
  <2> QED
    BY <1>1, <1>2, <2>1, <2>5 DEF WindowIsUp
<1>3. CASE name \notin Range(rows)
  BY <1>1, <1>3 DEF SwitchPageFromName, WindowIsUp
<1> QED
  BY <1>1, <1>2, <1>3

LEMMA Clicked ==
  ASSUME rows \in Seq(Names), WindowIsUp, NEW p \in Processes, NEW row \in DOMAIN rows,
         ClickRow(p, row)
  PROVE  UNCHANGED rows /\ WindowIsUp'
<1>1. UNCHANGED <<rows, trimmed>> /\ row # current /\ SetCurrent(row, stack)
  BY DEF ClickRow
<1>2. current' = row /\ stack' = <<Pages[1], rows[row]>> /\ rows[row] \in Names
  BY <1>1, RowSet DEF WindowIsUp
<1> QED
  BY <1>1, <1>2 DEF WindowIsUp

(* After the timer the row highlighted is that of the page shown, or the   *)
(* page has lost its row.                                                  *)
LEMMA Trimmed ==
  ASSUME WindowIsUp, NEW p \in Processes, Trim(p)
  PROVE  rows' \in Seq(Names) /\ trimmed' /\ WindowIsUp'
<1>1. PICK missing :
        LET list == RemoveMissing([rows |-> rows, current |-> current], missing)
        IN rows' = list.rows /\ SetCurrent(list.current, stack)
  BY DEF Trim
<1>2. rows = Pages /\ current \in DOMAIN Pages /\ trimmed'
  BY DEF Trim, WindowIsUp
<1>3. stack = <<Pages[1], Pages[current]>>
  BY <1>2 DEF WindowIsUp, Trim
<1> DEFINE list == RemoveMissing([rows |-> Pages, current |-> current], missing)
<1>4. rows' = list.rows /\ SetCurrent(list.current, <<Pages[1], Pages[current]>>)
  BY <1>1, <1>2, <1>3
<1>5. /\ list.rows \in Seq(Names) /\ IsInjective(list.rows) /\ list.current \in DOMAIN list.rows
      /\ \/ list.rows[list.current] = Pages[current]
         \/ Pages[current] \in Range(Optional) \ Range(list.rows)
  BY <1>2, MissingRemoved
<1> HIDE DEF list
<1> DEFINE page == IF list.current = current THEN Pages[current] ELSE rows'[list.current]
<1>6. current' = list.current /\ stack' = <<Pages[1], page>>
  BY <1>4, RowSet
<1>7. page \in Names
  BY <1>2, <1>4, <1>5, NavigationAssumption
<1>8. page = rows'[current'] \/ page \in Range(Optional) \ Range(rows')
  BY <1>4, <1>5, <1>6
<1> HIDE DEF page
<1> QED
  BY <1>2, <1>4, <1>5, <1>6, <1>7, <1>8 DEF WindowIsUp

LEMMA Loaded ==
  ASSUME NEW p \in Processes, LoadWindow(p)
  PROVE  rows' \in Seq(Names) /\ trimmed' \in BOOLEAN /\ WindowIsUp'
<1>1. rows' = Pages /\ current' = 1 /\ trimmed' = FALSE /\ stack' = <<Pages[1], Pages[1]>>
  BY SwitchReplaces DEF LoadWindow
<1>2. 1 \in DOMAIN Pages /\ Pages[1] \in Names
  BY NavigationAssumption
<1> QED
  BY <1>1, <1>2, NavigationAssumption DEF WindowIsUp

(* The types of the window follow from those of the rows.                  *)
WindowOK == WindowInv /\ rows \in Seq(Names) /\ trimmed \in BOOLEAN

LEMMA WindowTypes == PlacesOK /\ WindowOK => TypeOK
<1> SUFFICES ASSUME PlacesOK, WindowOK PROVE TypeOK
  OBVIOUS
<1>1. CASE WindowIsUp
  <2>1. current \in 0..Len(rows)
    BY <1>1 DEF WindowIsUp, WindowOK
  <2>2. stack \in Seq(Names)
    BY <1>1, TwoPages DEF WindowIsUp
  <2> QED
    BY <2>1, <2>2 DEF PlacesOK, WindowOK, TypeOK
<1>2. CASE stack = <<>> /\ rows = <<>> /\ current = 0
  BY <1>2, EmptySeq DEF PlacesOK, WindowOK, TypeOK
<1> QED
  BY <1>1, <1>2 DEF WindowOK, WindowInv

LEMMA WindowStays ==
  ASSUME PlacesOK, CallsInv, WindowOK, [Next]_vars
  PROVE  WindowOK'
<1> DEFINE Up == \E p \in Processes : at[p] \in {"loaded", "running"}
<1>1. ASSUME NEW p \in Processes, at[p] \in {"loaded", "running"} PROVE WindowIsUp
  BY <1>1 DEF WindowOK, WindowInv
<1>2. ASSUME NEW p \in Processes, at'[p] \in {"loaded", "running"}, WindowIsUp',
             rows' \in Seq(Names), trimmed' \in BOOLEAN
      PROVE  WindowOK'
  BY <1>2 DEF WindowOK, WindowInv
<1>3. ASSUME Up' <=> Up, UNCHANGED window PROVE WindowOK'
  BY <1>3 DEF WindowOK, WindowInv, WindowIsUp, window
<1>4. ASSUME NEW p \in Processes, NEW step, step \notin {"loaded", "running"},
             at[p] \notin {"loaded", "running"}, at' = [at EXCEPT ![p] = step], UNCHANGED window
      PROVE  WindowOK'
  <2>1. Up' <=> Up
    BY <1>4 DEF PlacesOK
  <2> QED
    BY <1>3, <1>4, <2>1
<1>5. ASSUME NEW p \in Processes,
             Export(p) \/ Probe(p) \/ Call(p) \/ \E name \in Modules : Launch(p, name)
      PROVE  WindowOK'
  BY <1>4, <1>5 DEF Launch, Export, Probe, Call
<1>6. ASSUME NEW p \in Processes, LoadWindow(p) PROVE WindowOK'
  <2>1. at'[p] = "loaded"
    BY <1>6 DEF LoadWindow, PlacesOK
  <2> QED
    BY <1>2, <1>6, <2>1, Loaded
<1>7. ASSUME NEW p \in Processes, StartLoop(p) PROVE WindowOK'
  <2>1. at[p] = "loaded" /\ at'[p] = "running"
    BY <1>7 DEF StartLoop, PlacesOK
  <2>2. SwitchPageFromName(module[p]) \/ UNCHANGED window
    BY <1>7 DEF StartLoop
  <2>3. CASE SwitchPageFromName(module[p])
    BY <1>1, <1>2, <2>1, <2>3, Switched DEF WindowOK
  <2>4. CASE UNCHANGED window
    BY <1>3, <2>1, <2>4
  <2> QED
    BY <2>2, <2>3, <2>4
<1>8. ASSUME NEW p \in Processes, Trim(p) PROVE WindowOK'
  <2>1. at[p] = "running" /\ at'[p] = "running"
    BY <1>8 DEF Trim
  <2> QED
    BY <1>1, <1>2, <1>8, <2>1, Trimmed
<1>9. ASSUME NEW p \in Processes, NEW row \in DOMAIN rows, ClickRow(p, row) PROVE WindowOK'
  <2>1. at[p] = "running" /\ at'[p] = "running" /\ UNCHANGED trimmed
    BY <1>9 DEF ClickRow
  <2>2. WindowIsUp' /\ UNCHANGED rows
    BY <1>1, <1>9, <2>1, Clicked DEF WindowOK
  <2> QED
    BY <1>2, <2>1, <2>2 DEF WindowOK
<1>10. ASSUME NEW p \in Processes, Serve(p) PROVE WindowOK'
  <2>1. at[p] = "running" /\ SwitchPageFromName(module[Head(inbox)])
    BY <1>10 DEF Serve
  <2>2. at'[p] = "running"
    BY <1>10, <2>1, Answered DEF Serve, PlacesOK
  <2>3. WindowIsUp' /\ UNCHANGED <<rows, trimmed>>
    BY <1>1, <2>1, Switched DEF WindowOK
  <2> QED
    BY <1>2, <2>2, <2>3 DEF WindowOK
<1>11. ASSUME NEW p \in Processes, Quit(p) PROVE WindowOK'
  <2>1. \A q \in Processes : at'[q] \notin {"loaded", "running"}
    BY <1>11, Closed DEF Owners, Owning
  <2>2. stack' = <<>> /\ rows' = <<>> /\ current' = 0 /\ trimmed' = FALSE
    BY <1>11 DEF Quit
  <2> QED
    BY <2>1, <2>2, EmptySeq DEF WindowOK, WindowInv
<1>12. CASE UNCHANGED vars
  BY <1>3, <1>12 DEF vars, window
<1> QED
  BY <1>5, <1>6, <1>7, <1>8, <1>9, <1>10, <1>11, <1>12 DEF Next
-----------------------------------------------------------------------------
Inv == PlacesOK /\ CallsInv /\ WindowOK

LEMMA Inductive == Spec => []Inv
<1>1. Init => WindowOK
  BY EmptySeq DEF Init, WindowOK, WindowInv
<1>2. Inv /\ [Next]_vars => Inv'
  BY CallsStay, WindowStays DEF Inv
<1> QED
  BY <1>1, <1>2, CallsInitially, PTL DEF Spec, Inv

(* Everything has its type; in particular the highlighted row is one of    *)
(* the list.                                                               *)
THEOREM TypeCorrect == Spec => []TypeOK
<1>1. Inv => TypeOK
  BY WindowTypes DEF Inv
<1> QED
  BY <1>1, Inductive, PTL

(* However many launches overlap, one process has the window, and every    *)
(* launch that waits waits for a process that can answer.                  *)
THEOREM OneWindowOnly == Spec => []OneWindow
<1>1. Inv => OneWindow
  <2> SUFFICES ASSUME Inv PROVE OneWindow
    OBVIOUS
  <2>1. Cardinality(Owners) <= 1
    <3>1. CASE Owners = {}
      BY <3>1, FS_EmptySet
    <3>2. ASSUME NEW p \in Owners PROVE Cardinality(Owners) = 1
      <4>1. Owners = {p}
        BY DEF Inv, CallsInv
      <4> QED
        BY <4>1, FS_Singleton
    <3> QED
      BY <3>1, <3>2
  <2> QED
    BY <2>1 DEF OneWindow, Inv, CallsInv
<1> QED
  BY <1>1, Inductive, PTL

(* Clicks, launches and missing devices never let pages pile up: a page    *)
(* that is left is destroyed, and its backend with it.                     *)
THEOREM PagesDoNotPileUp == Spec => []OnePageAboveInitial
<1>1. Inv => OnePageAboveInitial
  BY TwoPages DEF Inv, WindowOK, WindowInv, WindowIsUp, OnePageAboveInitial
<1> QED
  BY <1>1, Inductive, PTL

(* Whichever of clicks, launches and the timer comes first, the row that   *)
(* is highlighted is that of the page shown, or the page has lost its row. *)
THEOREM HighlightTells == Spec => []HighlightIsShown
<1>1. Inv => HighlightIsShown
  BY TwoPages DEF Inv, WindowOK, WindowInv, WindowIsUp, HighlightIsShown
<1> QED
  BY <1>1, Inductive, PTL
-----------------------------------------------------------------------------
(* What SingleInstance sees of the program.                                *)
LEMMA Stages ==
  /\ \A step \in Steps :
       /\ LaunchOf(step) = "window" <=> step \in Owning
       /\ LaunchOf(step) = "waiting" <=> step \in {"client", "calling", "waiting"}
  /\ LaunchOf("new") = "new" /\ LaunchOf("gone") = "gone"
BY DEF LaunchOf, Steps, Owning

LEMMA Browses ==
  ASSUME PlacesOK, NEW p \in Processes, at[p] \in Owning, UNCHANGED module,
         \A q \in Processes : LaunchOf(at'[q]) = LaunchOf(at[q]),
         Shown' \in Names
  PROVE  Single!Next
<1>1. LaunchOf(at[p]) = "window"
  BY Stages DEF PlacesOK
<1>2. Single!Browse(p)
  BY <1>1 DEF Single!Browse
<1> QED
  BY <1>2 DEF Single!Next

LEMMA HandsOver ==
  ASSUME PlacesOK, NEW p \in Processes, LaunchOf(at[p]) = "waiting",
         at' = [at EXCEPT ![p] = "gone"], UNCHANGED module,
         Shown' \in {Shown} \union ({PageOf(module[p])} \ {NoModule})
  PROVE  Single!Next
<1>1. at'[p] = "gone" /\ \A q \in Processes : q # p => at'[q] = at[q]
  BY DEF PlacesOK
<1>2. [q \in Processes |-> LaunchOf(at'[q])] =
        [[q \in Processes |-> LaunchOf(at[q])] EXCEPT ![p] = "gone"]
  <2>1. LaunchOf(at'[p]) = "gone"
    BY <1>1, Stages
  <2>2. \A q \in Processes : q # p => LaunchOf(at'[q]) = LaunchOf(at[q])
    BY <1>1
  <2> QED
    BY <2>1, <2>2
<1>3. Single!HandOver(p)
  BY <1>2 DEF Single!HandOver
<1> QED
  BY <1>3 DEF Single!Next

LEMMA Starts ==
  ASSUME PlacesOK, NEW p \in Processes, NEW name \in Modules, Launch(p, name)
  PROVE  Single!Next
<1> DEFINE launch == [q \in Processes |-> LaunchOf(at[q])]
           step == IF Owners = {} THEN "owner" ELSE "client"
           found == IF \E q \in Processes : launch[q] = "window" THEN "waiting" ELSE "window"
<1>1. /\ at[p] = "new" /\ at' = [at EXCEPT ![p] = step] /\ module' = [module EXCEPT ![p] = name]
      /\ UNCHANGED stack
  BY DEF Launch, window
<1>2. (\E q \in Processes : launch[q] = "window") <=> Owners # {}
  BY Stages DEF PlacesOK, Owners
<1>3. LaunchOf(step) = found
  BY <1>2, Stages DEF Steps, Owning
<1> HIDE DEF step, found
<1>4. [q \in Processes |-> LaunchOf(at'[q])] = [launch EXCEPT ![p] = found]
  BY <1>1, <1>3 DEF PlacesOK
<1>5. [q \in Processes |-> PageOf(module'[q])] =
        [[q \in Processes |-> PageOf(module[q])] EXCEPT ![p] = PageOf(name)]
  BY <1>1 DEF PlacesOK
<1>6. launch[p] = "new" /\ Shown' = Shown
  BY <1>1, Stages DEF Shown
<1>7. PageOf(name) \in Names \union {NoModule}
  BY DEF PageOf, Modules
<1>8. Single!Start(p, PageOf(name))
  BY <1>4, <1>5, <1>6 DEF Single!Start, found
<1> QED
  BY <1>7, <1>8 DEF Single!Next

LEMMA Closes ==
  ASSUME PlacesOK, CallsInv, NEW p \in Processes, Quit(p)
  PROVE  Single!Next
<1> DEFINE launch == [q \in Processes |-> LaunchOf(at[q])]
           others == {q \in Processes : q \in Range(inbox)}
<1>1. /\ at[p] = "running" /\ stack' = <<>> /\ UNCHANGED module
      /\ at' = [q \in Processes |-> IF q = p \/ q \in Range(inbox) THEN "gone" ELSE at[q]]
  BY DEF Quit
<1>2. \A q \in others : launch[q] = "waiting"
  BY Stages DEF CallsInv, Range, Steps
<1>3. others \in SUBSET {q \in Processes : launch[q] = "waiting"}
  BY <1>2
<1>4. [q \in Processes |-> LaunchOf(at'[q])] =
        [q \in Processes |-> IF q \in others \union {p} THEN "gone" ELSE launch[q]]
  BY <1>1, Stages
<1>5. launch[p] = "window" /\ Shown' = NoModule
  BY <1>1, Stages DEF Shown, Steps, Owning
<1>6. Single!Close(p)
  BY <1>1, <1>3, <1>4, <1>5 DEF Single!Close
<1> QED
  BY <1>6 DEF Single!Next

LEMMA StepsOfSingle ==
  ASSUME Inv, Inv', [Next]_vars
  PROVE  Single!Next \/ UNCHANGED Single!vars
<1> USE DEF Inv
<1>1. ASSUME NEW p \in Processes, NEW step \in Owning, at[p] \in Owning,
             at' = [at EXCEPT ![p] = step]
      PROVE  \A q \in Processes : LaunchOf(at'[q]) = LaunchOf(at[q])
  <2>1. LaunchOf(step) = LaunchOf(at[p])
    BY <1>1, Stages DEF Steps
  <2> QED
    BY <1>1, <2>1 DEF PlacesOK
<1>2. ASSUME NEW p \in Processes, Export(p) PROVE UNCHANGED Single!vars
  <2>1. \A q \in Processes : LaunchOf(at'[q]) = LaunchOf(at[q])
    BY <1>1, <1>2 DEF Export, Owning
  <2>2. UNCHANGED <<module, stack>>
    BY <1>2 DEF Export, window
  <2> QED
    BY <2>1, <2>2 DEF Single!vars, Shown
<1>3. ASSUME NEW p \in Processes, at[p] \in Owning, at'[p] \in {"loaded", "running"},
             at' = [at EXCEPT ![p] = at'[p]], UNCHANGED module
      PROVE  Single!Next
  <2>1. \A q \in Processes : LaunchOf(at'[q]) = LaunchOf(at[q])
    BY <1>1, <1>3 DEF Owning
  <2>2. Shown' \in Names
    BY <1>3, TwoPages DEF WindowOK, WindowInv, WindowIsUp, Shown
  <2> QED
    BY <1>3, <2>1, <2>2, Browses
<1>4. ASSUME NEW p \in Processes,
             \/ LoadWindow(p) \/ StartLoop(p) \/ Trim(p)
             \/ \E row \in DOMAIN rows : ClickRow(p, row)
      PROVE  Single!Next
  <2>1. /\ at[p] \in {"exported", "loaded", "running"} /\ UNCHANGED module
        /\ \/ at' = [at EXCEPT ![p] = "loaded"] \/ at' = [at EXCEPT ![p] = "running"]
           \/ at' = at /\ at[p] = "running"
    BY <1>4 DEF LoadWindow, StartLoop, Trim, ClickRow
  <2>2. at' = [at EXCEPT ![p] = at'[p]] /\ at'[p] \in {"loaded", "running"}
    BY <2>1 DEF PlacesOK
  <2> QED
    BY <1>3, <2>1, <2>2 DEF Owning
<1>5. ASSUME NEW p \in Processes, Serve(p) PROVE Single!Next
  <2> DEFINE client == Head(inbox)
  <2>1. /\ at[p] = "running" /\ SwitchPageFromName(module[client]) /\ UNCHANGED module
        /\ at' = [at EXCEPT ![client] = "gone"]
    BY <1>5 DEF Serve
  <2>2. client \in Processes /\ LaunchOf(at[client]) = "waiting"
    BY <1>5, Answered, Stages DEF Steps
  <2>3. WindowIsUp /\ rows \in Seq(Names)
    BY <2>1 DEF WindowOK, WindowInv
  <2>4. Shown' \in {Shown} \union ({PageOf(module[client])} \ {NoModule})
    <3>1. CASE module[client] \in Range(rows)
      <4>1. module[client] \in Names
        BY <2>3, <3>1 DEF Range
      <4>2. stack' = <<Pages[1], module[client]>>
        BY <2>1, <2>3, <3>1, Switched
      <4>3. Shown' = module[client]
        BY <4>1, <4>2, TwoPages DEF Shown
      <4>4. PageOf(module[client]) = module[client] /\ module[client] # NoModule
        BY <4>1, NavigationAssumption DEF PageOf
      <4> QED
        BY <4>3, <4>4
    <3>2. CASE module[client] \notin Range(rows)
      BY <2>1, <2>3, <3>2, Switched DEF Shown
    <3> QED
      BY <3>1, <3>2
  <2> QED
    BY <2>1, <2>2, <2>4, HandsOver
<1>6. ASSUME NEW p \in Processes, Probe(p) \/ Call(p)
      PROVE  Single!Next \/ UNCHANGED Single!vars
  <2>1. /\ at[p] \in {"client", "calling"} /\ UNCHANGED <<module, stack>>
        /\ \/ at' = [at EXCEPT ![p] = "gone"] \/ at' = [at EXCEPT ![p] = "calling"]
           \/ at' = [at EXCEPT ![p] = "waiting"]
    BY <1>6 DEF Probe, Call, window
  <2>2. LaunchOf(at[p]) = "waiting" /\ Shown' = Shown
    BY <2>1, Stages DEF Steps, Shown
  <2>3. CASE at' = [at EXCEPT ![p] = "gone"]
    BY <2>1, <2>2, <2>3, HandsOver
  <2>4. ASSUME NEW step \in {"calling", "waiting"}, at' = [at EXCEPT ![p] = step]
        PROVE  UNCHANGED Single!vars
    <3>1. LaunchOf(step) = "waiting"
      BY <2>4, Stages DEF Steps
    <3>2. \A q \in Processes : LaunchOf(at'[q]) = LaunchOf(at[q])
      BY <2>2, <2>4, <3>1 DEF PlacesOK
    <3> QED
      BY <2>1, <2>2, <3>2 DEF Single!vars
  <2> QED
    BY <2>1, <2>3, <2>4
<1>7. CASE UNCHANGED vars
  BY <1>7 DEF vars, window, Single!vars, Shown
<1> QED
  BY <1>2, <1>4, <1>5, <1>6, <1>7, Starts, Closes DEF Next

(* Every step of the program is one of SingleInstance or leaves its state  *)
(* alone: one launch has the window, others hand their page over or fail   *)
(* and end, and the page shown changes by nothing else than a launch and   *)
(* the window itself.                                                      *)
THEOREM KeepsSingleInstance == Spec => Single!Init /\ [][Single!Next]_(Single!vars)
<1>1. Init => Single!Init
  BY Stages DEF Init, Single!Init, PageOf, Shown
<1>2. Inv /\ Inv' /\ [Next]_vars => [Single!Next]_(Single!vars)
  BY StepsOfSingle
<1> QED
  BY <1>1, <1>2, Inductive, PTL DEF Spec
=============================================================================
