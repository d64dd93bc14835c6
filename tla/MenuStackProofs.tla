---- MODULE MenuStackProofs ----
(***************************************************************************)
(* Proofs about MenuStack, for any menus, lists of choices and handlers    *)
(* that are as MenuAssumption says and nest as NestingAssumption says: the *)
(* flags and tests that a menu ends go with the menus on the stack, a menu *)
(* that is closed has left nothing on it, a choice is one that may be      *)
(* chosen, the cursor that is shown is on the item that return acts on,    *)
(* and an item that is no more is used only by a key that finds its menu   *)
(* other than it was drawn.  The argument goes bottom up: what each        *)
(* operation keeps (Kept, Views), what a handler and a key that is acted   *)
(* on keep (StepFine, RunFine, Acted), that each of them leaves every menu *)
(* in a slot of its own (Safe), and IInv, which every round keeps.         *)
(***************************************************************************)
EXTENDS MenuStack, FiniteSetTheorems, WellFoundedInduction, TLAPS

(***************************************************************************)
(* Loops                                                                   *)
(***************************************************************************)

\* Of the numbers with a property some is the least.
LEMMA Least ==
  ASSUME NEW T \in SUBSET Nat, T # {}
  PROVE  \E n \in T : \A k \in T : n <= k
<1>1. IsWellFoundedOn(OpToRel(<, Nat), Nat)
  BY NatLessThanWellFounded
<1>2. PICK n \in T : \A y \in T : ~(<<y, n>> \in OpToRel(<, Nat))
  BY <1>1, WFMin, Zenon
<1>3. \A k \in T : ~(k < n)
  BY <1>2 DEF OpToRel
<1>4. QED
  BY <1>3

\* What holds at first, and after a step of a loop when it held before, holds
\* after all of them.
LEMMA Induct ==
  ASSUME NEW n \in Nat, NEW D, NEW f, f[0] \in D[0],
         \A i \in 1 .. n : f[i - 1] \in D[i - 1] => f[i] \in D[i]
  PROVE  \A i \in 0 .. n : f[i] \in D[i]
<1> DEFINE T == {i \in 0 .. n : f[i] \notin D[i]}
<1>1. T = {}
  <2> SUFFICES ASSUME T # {} PROVE FALSE
    OBVIOUS
  <2>1. PICK i \in T : \A k \in T : i <= k
    <3>1. T \in SUBSET Nat
      OBVIOUS
    <3>2. QED
      BY <3>1, Least
  <2>2. i # 0 /\ i \in 1 .. n /\ i - 1 \in 0 .. n
    BY <2>1
  <2>3. f[i - 1] \in D[i - 1]
    BY <2>1, <2>2
  <2>4. QED
    BY <2>1, <2>2, <2>3
<1>2. QED
  BY <1>1

\* A loop has a result after each of its steps.
Iterates(f, n, D, g, s) ==
  f[0] = s /\ \A i \in 1 .. n : f[i - 1] \in D[i - 1] /\ f[i] = g[i][f[i - 1]]
LEMMA Iteration ==
  ASSUME NEW n \in Nat, NEW D, NEW g, NEW s, s \in D[0],
         \A i \in 1 .. n : \A t \in D[i - 1] : g[i][t] \in D[i]
  PROVE  \E f : Iterates(f, n, D, g, s)
<1> DEFINE Upto(k, f) == f = [i \in 0 .. k |-> IF i = 0 THEN s ELSE g[i][f[i - 1]]]
           T == {k \in Nat : ~\E f : Upto(k, f)}
<1>1. T = {}
  <2> SUFFICES ASSUME T # {} PROVE FALSE
    OBVIOUS
  <2> HIDE DEF Upto
  <2>1. PICK k \in T : \A j \in T : k <= j
    BY Least
  <2>2. CASE k = 0
    <3>1. Upto(0, [i \in 0 .. 0 |-> s])
      BY DEF Upto
    <3>2. QED
      BY <2>2, <3>1
  <2>3. CASE k # 0
    <3>1. PICK f : Upto(k - 1, f)
      BY <2>1, <2>3
    <3> DEFINE h == [i \in 0 .. k |-> IF i = 0 THEN s ELSE g[i][f[i - 1]]]
    <3>2. \A i \in 0 .. k - 1 : h[i] = f[i]
      BY <2>3, <3>1 DEF Upto
    <3> HIDE DEF h
    <3>3. h = [i \in 0 .. k |-> IF i = 0 THEN s ELSE g[i][h[i - 1]]]
      <4>1. \A i \in 0 .. k : i # 0 => i - 1 \in 0 .. k - 1
        BY <2>3
      <4>2. \A i \in 0 .. k : i # 0 => h[i - 1] = f[i - 1]
        BY <3>2, <4>1
      <4>3. QED
        BY <4>2 DEF h
    <3>4. Upto(k, h)
      BY <3>3 DEF Upto
    <3>5. QED
      BY <3>4
  <2>4. QED
    BY <2>2, <2>3
<1>2. PICK f : Upto(n, f)
  BY <1>1
<1>3. f[0] = s /\ \A i \in 1 .. n : f[i] = g[i][f[i - 1]]
  BY <1>2
<1>4. \A i \in 0 .. n : f[i] \in D[i]
  BY <1>3, Induct
<1>5. QED
  BY <1>3, <1>4 DEF Iterates

\* The loops of the code.  The provers cannot apply a lemma to an operator, so
\* there is one for each of them: what holds of its state at first, and after
\* its i-th step when it held before it, holds in the end.

\* ui_to_top, ui_page_up
LEMMA UpLoop ==
  ASSUME NEW n \in Int, NEW D, NEW s, s \in D[0],
         \A i \in 1 .. n : \A t \in D[i - 1] : Up(t) \in D[i]
  PROVE  Times(n, Up, s) \in D[IF n > 0 THEN n ELSE 0]
<1>1. CASE n <= 0
  BY <1>1 DEF Times, Loop
<1>2. CASE n > 0
  <2> DEFINE g == [i \in 1 .. n |-> [t \in D[i - 1] |-> Up(t)]]
             After(f) == f = [i \in 0 .. n |-> IF i = 0 THEN s ELSE Up(f[i - 1])]
             after == CHOOSE f : After(f)
  <2>0. n \in Nat /\ n \in 0 .. n /\ \A i \in 0 .. n : i # 0 => i - 1 \in 0 .. n
        /\ i \in 1 .. n
    BY <1>2
  <2>1. PICK f : Iterates(f, n, D, g, s)
    <3>1. \A i \in 1 .. n : \A t \in D[i - 1] : g[i][t] \in D[i]
      BY <2>0
    <3> HIDE DEF g
    <3>2. QED
      BY <2>0, <3>1, Iteration
  <2>2. After([i \in 0 .. n |-> f[i]])
    <3>1. \A i \in 1 .. n : f[i - 1] \in D[i - 1] /\ f[i] = g[i][f[i - 1]]
      BY <2>1 DEF Iterates
    <3>2. \A i \in 1 .. n : f[i] = Up(f[i - 1])
      BY <3>1
    <3> HIDE DEF g
    <3>3. QED
      BY <2>0, <2>1, <3>2 DEF Iterates
  <2> HIDE DEF After
  <2>3. After(after)
    BY <2>2
  <2>4. Times(n, Up, s) = after[n]
    BY <1>2 DEF Times, Loop, After
  <2> HIDE DEF after
  <2>5. after[0] = s /\ \A i \in 1 .. n : after[i] = Up(after[i - 1])
    BY <2>0, <2>3 DEF After
  <2>6. after[0] \in D[0] /\ \A i \in 1 .. n : after[i - 1] \in D[i - 1] => after[i] \in D[i]
    BY <2>5
  <2>7. \A i \in 0 .. n : after[i] \in D[i]
    BY <2>0, <2>6, Induct
  <2>8. QED
    BY <1>2, <2>0, <2>4, <2>7
<1>3. QED
  BY <1>1, <1>2

\* ui_to_bottom, ui_page_down
LEMMA DownLoop ==
  ASSUME NEW n \in Int, NEW D, NEW s, s \in D[0],
         \A i \in 1 .. n : \A t \in D[i - 1] : Down(t) \in D[i]
  PROVE  Times(n, Down, s) \in D[IF n > 0 THEN n ELSE 0]
<1>1. CASE n <= 0
  BY <1>1 DEF Times, Loop
<1>2. CASE n > 0
  <2> DEFINE g == [i \in 1 .. n |-> [t \in D[i - 1] |-> Down(t)]]
             After(f) == f = [i \in 0 .. n |-> IF i = 0 THEN s ELSE Down(f[i - 1])]
             after == CHOOSE f : After(f)
  <2>0. n \in Nat /\ n \in 0 .. n /\ \A i \in 0 .. n : i # 0 => i - 1 \in 0 .. n
        /\ i \in 1 .. n
    BY <1>2
  <2>1. PICK f : Iterates(f, n, D, g, s)
    <3>1. \A i \in 1 .. n : \A t \in D[i - 1] : g[i][t] \in D[i]
      BY <2>0
    <3> HIDE DEF g
    <3>2. QED
      BY <2>0, <3>1, Iteration
  <2>2. After([i \in 0 .. n |-> f[i]])
    <3>1. \A i \in 1 .. n : f[i - 1] \in D[i - 1] /\ f[i] = g[i][f[i - 1]]
      BY <2>1 DEF Iterates
    <3>2. \A i \in 1 .. n : f[i] = Down(f[i - 1])
      BY <3>1
    <3> HIDE DEF g
    <3>3. QED
      BY <2>0, <2>1, <3>2 DEF Iterates
  <2> HIDE DEF After
  <2>3. After(after)
    BY <2>2
  <2>4. Times(n, Down, s) = after[n]
    BY <1>2 DEF Times, Loop, After
  <2> HIDE DEF after
  <2>5. after[0] = s /\ \A i \in 1 .. n : after[i] = Down(after[i - 1])
    BY <2>0, <2>3 DEF After
  <2>6. after[0] \in D[0] /\ \A i \in 1 .. n : after[i - 1] \in D[i - 1] => after[i] \in D[i]
    BY <2>5
  <2>7. \A i \in 0 .. n : after[i] \in D[i]
    BY <2>0, <2>6, Induct
  <2>8. QED
    BY <1>2, <2>0, <2>4, <2>7
<1>3. QED
  BY <1>1, <1>2

\* ui_find_first
Searched(n, start, letter, s) == Times(n, LAMBDA q : Search(q, start, letter), s)
LEMMA SearchLoop ==
  ASSUME NEW n \in Int, NEW D, NEW s, NEW start, NEW letter, s \in D[0],
         \A i \in 1 .. n : \A t \in D[i - 1] : Search(t, start, letter) \in D[i]
  PROVE  Searched(n, start, letter, s) \in D[IF n > 0 THEN n ELSE 0]
<1>1. CASE n <= 0
  BY <1>1 DEF Searched, Times, Loop
<1>2. CASE n > 0
  <2> DEFINE g == [i \in 1 .. n |-> [t \in D[i - 1] |-> Search(t, start, letter)]]
             After(f) == f = [i \in 0 .. n |-> IF i = 0 THEN s ELSE Search(f[i - 1], start, letter)]
             after == CHOOSE f : After(f)
  <2>0. n \in Nat /\ n \in 0 .. n /\ \A i \in 0 .. n : i # 0 => i - 1 \in 0 .. n
        /\ i \in 1 .. n
    BY <1>2
  <2>1. PICK f : Iterates(f, n, D, g, s)
    <3>1. \A i \in 1 .. n : \A t \in D[i - 1] : g[i][t] \in D[i]
      BY <2>0
    <3> HIDE DEF g
    <3>2. QED
      BY <2>0, <3>1, Iteration
  <2>2. After([i \in 0 .. n |-> f[i]])
    <3>1. \A i \in 1 .. n : f[i - 1] \in D[i - 1] /\ f[i] = g[i][f[i - 1]]
      BY <2>1 DEF Iterates
    <3>2. \A i \in 1 .. n : f[i] = Search(f[i - 1], start, letter)
      BY <3>1
    <3> HIDE DEF g
    <3>3. QED
      BY <2>0, <2>1, <3>2 DEF Iterates
  <2> HIDE DEF After
  <2>3. After(after)
    BY <2>2
  <2>4. Searched(n, start, letter, s) = after[n]
    BY <1>2 DEF Searched, Times, Loop, After
  <2> HIDE DEF after
  <2>5. after[0] = s /\ \A i \in 1 .. n : after[i] = Search(after[i - 1], start, letter)
    BY <2>0, <2>3 DEF After
  <2>6. after[0] \in D[0] /\ \A i \in 1 .. n : after[i - 1] \in D[i - 1] => after[i] \in D[i]
    BY <2>5
  <2>7. \A i \in 0 .. n : after[i] \in D[i]
    BY <2>0, <2>6, Induct
  <2>8. QED
    BY <1>2, <2>0, <2>4, <2>7
<1>3. QED
  BY <1>1, <1>2

\* ui_set_cur_pos
Brought(n, pos, s) == Times(n, LAMBDA t : Towards(t, pos), s)
LEMMA TowardsLoop ==
  ASSUME NEW n \in Int, NEW D, NEW s, NEW pos, s \in D[0],
         \A i \in 1 .. n : \A t \in D[i - 1] : Towards(t, pos) \in D[i]
  PROVE  Brought(n, pos, s) \in D[IF n > 0 THEN n ELSE 0]
<1>1. CASE n <= 0
  BY <1>1 DEF Brought, Times, Loop
<1>2. CASE n > 0
  <2> DEFINE g == [i \in 1 .. n |-> [t \in D[i - 1] |-> Towards(t, pos)]]
             After(f) == f = [i \in 0 .. n |-> IF i = 0 THEN s ELSE Towards(f[i - 1], pos)]
             after == CHOOSE f : After(f)
  <2>0. n \in Nat /\ n \in 0 .. n /\ \A i \in 0 .. n : i # 0 => i - 1 \in 0 .. n
        /\ i \in 1 .. n
    BY <1>2
  <2>1. PICK f : Iterates(f, n, D, g, s)
    <3>1. \A i \in 1 .. n : \A t \in D[i - 1] : g[i][t] \in D[i]
      BY <2>0
    <3> HIDE DEF g
    <3>2. QED
      BY <2>0, <3>1, Iteration
  <2>2. After([i \in 0 .. n |-> f[i]])
    <3>1. \A i \in 1 .. n : f[i - 1] \in D[i - 1] /\ f[i] = g[i][f[i - 1]]
      BY <2>1 DEF Iterates
    <3>2. \A i \in 1 .. n : f[i] = Towards(f[i - 1], pos)
      BY <3>1
    <3> HIDE DEF g
    <3>3. QED
      BY <2>0, <2>1, <3>2 DEF Iterates
  <2> HIDE DEF After
  <2>3. After(after)
    BY <2>2
  <2>4. Brought(n, pos, s) = after[n]
    BY <1>2 DEF Brought, Times, Loop, After
  <2> HIDE DEF after
  <2>5. after[0] = s /\ \A i \in 1 .. n : after[i] = Towards(after[i - 1], pos)
    BY <2>0, <2>3 DEF After
  <2>6. after[0] \in D[0] /\ \A i \in 1 .. n : after[i - 1] \in D[i - 1] => after[i] \in D[i]
    BY <2>5
  <2>7. \A i \in 0 .. n : after[i] \in D[i]
    BY <2>0, <2>6, Induct
  <2>8. QED
    BY <1>2, <2>0, <2>4, <2>7
<1>3. QED
  BY <1>1, <1>2

\* ui_render_single_frame
LEMMA DrawLoop ==
  ASSUME NEW n \in Int, NEW D, NEW s, s \in D[0],
         \A i \in 1 .. n : \A t \in D[i - 1] : DrawnAt(t, i - 1) \in D[i]
  PROVE  Loop(n, LAMBDA t, i : DrawnAt(t, i - 1), s) \in D[IF n > 0 THEN n ELSE 0]
<1>1. CASE n <= 0
  BY <1>1 DEF Loop
<1>2. CASE n > 0
  <2> DEFINE g == [i \in 1 .. n |-> [t \in D[i - 1] |-> DrawnAt(t, i - 1)]]
             After(f) == f = [i \in 0 .. n |-> IF i = 0 THEN s ELSE DrawnAt(f[i - 1], i - 1)]
             after == CHOOSE f : After(f)
  <2>0. n \in Nat /\ n \in 0 .. n /\ \A i \in 0 .. n : i # 0 => i - 1 \in 0 .. n
        /\ i \in 1 .. n
    BY <1>2
  <2>1. PICK f : Iterates(f, n, D, g, s)
    <3>1. \A i \in 1 .. n : \A t \in D[i - 1] : g[i][t] \in D[i]
      BY <2>0
    <3> HIDE DEF g
    <3>2. QED
      BY <2>0, <3>1, Iteration
  <2>2. After([i \in 0 .. n |-> f[i]])
    <3>1. \A i \in 1 .. n : f[i - 1] \in D[i - 1] /\ f[i] = g[i][f[i - 1]]
      BY <2>1 DEF Iterates
    <3>2. \A i \in 1 .. n : f[i] = DrawnAt(f[i - 1], i - 1)
      BY <3>1
    <3> HIDE DEF g
    <3>3. QED
      BY <2>0, <2>1, <3>2 DEF Iterates
  <2> HIDE DEF After
  <2>3. After(after)
    BY <2>2
  <2>4. Loop(n, LAMBDA t, i : DrawnAt(t, i - 1), s) = after[n]
    BY <1>2 DEF Loop, After
  <2> HIDE DEF after
  <2>5. after[0] = s /\ \A i \in 1 .. n : after[i] = DrawnAt(after[i - 1], i - 1)
    BY <2>0, <2>3 DEF After
  <2>6. after[0] \in D[0] /\ \A i \in 1 .. n : after[i - 1] \in D[i - 1] => after[i] \in D[i]
    BY <2>5
  <2>7. \A i \in 0 .. n : after[i] \in D[i]
    BY <2>0, <2>6, Induct
  <2>8. QED
    BY <1>2, <2>0, <2>4, <2>7
<1>3. QED
  BY <1>1, <1>2 DEF Loop

\* ui_pop_all_and_toggle
LEMMA PopLoop ==
  ASSUME NEW n \in Int, NEW D, NEW s, s \in D[0],
         \A i \in 1 .. n : \A t \in D[i - 1] : AfterPop(t) \in D[i]
  PROVE  Times(n, AfterPop, s) \in D[IF n > 0 THEN n ELSE 0]
<1>1. CASE n <= 0
  BY <1>1 DEF Times, Loop
<1>2. CASE n > 0
  <2> DEFINE g == [i \in 1 .. n |-> [t \in D[i - 1] |-> AfterPop(t)]]
             After(f) == f = [i \in 0 .. n |-> IF i = 0 THEN s ELSE AfterPop(f[i - 1])]
             after == CHOOSE f : After(f)
  <2>0. n \in Nat /\ n \in 0 .. n /\ \A i \in 0 .. n : i # 0 => i - 1 \in 0 .. n
        /\ i \in 1 .. n
    BY <1>2
  <2>1. PICK f : Iterates(f, n, D, g, s)
    <3>1. \A i \in 1 .. n : \A t \in D[i - 1] : g[i][t] \in D[i]
      BY <2>0
    <3> HIDE DEF g
    <3>2. QED
      BY <2>0, <3>1, Iteration
  <2>2. After([i \in 0 .. n |-> f[i]])
    <3>1. \A i \in 1 .. n : f[i - 1] \in D[i - 1] /\ f[i] = g[i][f[i - 1]]
      BY <2>1 DEF Iterates
    <3>2. \A i \in 1 .. n : f[i] = AfterPop(f[i - 1])
      BY <3>1
    <3> HIDE DEF g
    <3>3. QED
      BY <2>0, <2>1, <3>2 DEF Iterates
  <2> HIDE DEF After
  <2>3. After(after)
    BY <2>2
  <2>4. Times(n, AfterPop, s) = after[n]
    BY <1>2 DEF Times, Loop, After
  <2> HIDE DEF after
  <2>5. after[0] = s /\ \A i \in 1 .. n : after[i] = AfterPop(after[i - 1])
    BY <2>0, <2>3 DEF After
  <2>6. after[0] \in D[0] /\ \A i \in 1 .. n : after[i - 1] \in D[i - 1] => after[i] \in D[i]
    BY <2>5
  <2>7. \A i \in 0 .. n : after[i] \in D[i]
    BY <2>0, <2>6, Induct
  <2>8. QED
    BY <1>2, <2>0, <2>4, <2>7
<1>3. QED
  BY <1>1, <1>2

\* a handler's script
Done(n, script, s) == Loop(n, LAMBDA states, i : StepAll(states, script[i]), s)
LEMMA RunLoop ==
  ASSUME NEW n \in Int, NEW D, NEW s, NEW script, s \in D[0],
         \A i \in 1 .. n : \A t \in D[i - 1] : StepAll(t, script[i]) \in D[i]
  PROVE  Done(n, script, s) \in D[IF n > 0 THEN n ELSE 0]
<1>1. CASE n <= 0
  BY <1>1 DEF Done, Loop
<1>2. CASE n > 0
  <2> DEFINE g == [i \in 1 .. n |-> [t \in D[i - 1] |-> StepAll(t, script[i])]]
             After(f) == f = [i \in 0 .. n |-> IF i = 0 THEN s ELSE StepAll(f[i - 1], script[i])]
             after == CHOOSE f : After(f)
  <2>0. n \in Nat /\ n \in 0 .. n /\ \A i \in 0 .. n : i # 0 => i - 1 \in 0 .. n
        /\ i \in 1 .. n
    BY <1>2
  <2>1. PICK f : Iterates(f, n, D, g, s)
    <3>1. \A i \in 1 .. n : \A t \in D[i - 1] : g[i][t] \in D[i]
      BY <2>0
    <3> HIDE DEF g
    <3>2. QED
      BY <2>0, <3>1, Iteration
  <2>2. After([i \in 0 .. n |-> f[i]])
    <3>1. \A i \in 1 .. n : f[i - 1] \in D[i - 1] /\ f[i] = g[i][f[i - 1]]
      BY <2>1 DEF Iterates
    <3>2. \A i \in 1 .. n : f[i] = StepAll(f[i - 1], script[i])
      BY <3>1
    <3> HIDE DEF g
    <3>3. QED
      BY <2>0, <2>1, <3>2 DEF Iterates
  <2> HIDE DEF After
  <2>3. After(after)
    BY <2>2
  <2>4. Done(n, script, s) = after[n]
    BY <1>2 DEF Done, Loop, After
  <2> HIDE DEF after
  <2>5. after[0] = s /\ \A i \in 1 .. n : after[i] = StepAll(after[i - 1], script[i])
    BY <2>0, <2>3 DEF After
  <2>6. after[0] \in D[0] /\ \A i \in 1 .. n : after[i - 1] \in D[i - 1] => after[i] \in D[i]
    BY <2>5
  <2>7. \A i \in 0 .. n : after[i] \in D[i]
    BY <2>0, <2>6, Induct
  <2>8. QED
    BY <1>2, <2>0, <2>4, <2>7
<1>3. QED
  BY <1>1, <1>2

(***************************************************************************)
(* Types                                                                   *)
(***************************************************************************)
Slots == {slot \in [menu : DOMAIN Menus \cup {"none"}, off : {"none", "osd"} \cup Ends, open : SUBSET Nat,
                    item : Nat, blind : BOOLEAN, listener : FileLists \cup {"none"},
                    cursor : Int, top : Int, bottom : Int, max : Int] :
            slot.item # 0 => slot.menu \in DOMAIN Menus /\ slot.item \in DOMAIN Items(slot)}
Values == {f \in [DOMAIN Lists -> Nat] : \A c \in DOMAIN Lists : f[c] \in 0 .. Lists[c].n}
States == {s \in [slot : [0 .. Roots - 1 -> Slots], current : 0 .. Roots - 1, ui : BOOLEAN, osd : BOOLEAN,
                  entered : BOOLEAN, value : Values, dirPos : [FileLists -> Int],
                  raw : BOOLEAN, timing : BOOLEAN, lost : BOOLEAN, late : BOOLEAN] :
             \A i \in 0 .. s.current : s.slot[i].menu \in DOMAIN Menus}

\* What moving the cursor and drawing leave as it is.
Same(s, t) ==
  /\ t.current = s.current /\ t.value = s.value
  /\ (t.ui <=> s.ui) /\ (t.osd <=> s.osd) /\ (t.raw <=> s.raw) /\ (t.timing <=> s.timing)
     /\ (t.late <=> s.late) /\ (t.lost <=> s.lost)
  /\ \A i \in 0 .. Roots - 1 : t.slot[i].menu = s.slot[i].menu
     /\ t.slot[i].off = s.slot[i].off

LEMMA SameTransitive ==
  ASSUME NEW s, NEW t, NEW u, Same(s, t), Same(t, u)
  PROVE  Same(s, u)
  BY DEF Same

LEMMA SameReflexive ==
  ASSUME NEW s
  PROVE  Same(s, s)
  BY DEF Same

\* The slot on top is one of a menu.
LEMMA TopType ==
  ASSUME NEW s \in States
  PROVE  /\ Roots \in Nat /\ s.current \in 0 .. Roots - 1
            /\ s.slot \in [0 .. Roots - 1 -> Slots]
         /\ Top(s) \in Slots /\ Top(s).menu \in DOMAIN Menus
  BY MenuAssumption DEF States, Top

\* The items of a menu are numbered.
LEMMA ItemsType ==
  ASSUME NEW slot \in Slots, slot.menu \in DOMAIN Menus
  PROVE  Len(Items(slot)) \in Nat \ {0} /\ DOMAIN Items(slot) = 1 .. Len(Items(slot))
  BY MenuAssumption DEF IsMenu, Items

\* A slot may change in all but its menu and its callback.
LEMMA SlotAt ==
  ASSUME NEW s \in States, NEW i \in 0 .. Roots - 1, NEW slot \in Slots,
         slot.menu = s.slot[i].menu, slot.off = s.slot[i].off
  PROVE  [s EXCEPT !.slot[i] = slot] \in States /\ Same(s, [s EXCEPT !.slot[i] = slot])
<1> DEFINE t == [s EXCEPT !.slot[i] = slot]
<1>1. t \in [slot : [0 .. Roots - 1 -> Slots], current : 0 .. Roots - 1, ui : BOOLEAN, osd : BOOLEAN,
             entered : BOOLEAN, value : Values, dirPos : [FileLists -> Int],
             raw : BOOLEAN, timing : BOOLEAN, lost : BOOLEAN, late : BOOLEAN]
  BY DEF States
<1>2. /\ t.current = s.current /\ t.value = s.value /\ t.ui = s.ui /\ t.osd = s.osd
         /\ t.raw = s.raw
      /\ t.timing = s.timing /\ t.late = s.late /\ t.lost = s.lost
      /\ \A j \in 0 .. Roots - 1 : t.slot[j] = IF j = i THEN slot ELSE s.slot[j]
  BY DEF States
<1> HIDE DEF t
<1>3. Same(s, t)
  BY <1>2 DEF Same
<1>4. \A j \in 0 .. t.current : t.slot[j].menu \in DOMAIN Menus
  <2>1. \A j \in 0 .. s.current : j \in 0 .. Roots - 1 /\ s.slot[j].menu \in DOMAIN Menus
    BY TopType DEF States
  <2>2. QED
    BY <2>1, <1>2
<1>5. t \in States
  BY <1>1, <1>4 DEF States
<1>6. QED
  BY <1>3, <1>5 DEF t

LEMMA OnTopSame ==
  ASSUME NEW s \in States, NEW slot \in Slots, slot.menu = Top(s).menu, slot.off = Top(s).off
  PROVE  OnTop(s, slot) \in States /\ Same(s, OnTop(s, slot)) /\ Top(OnTop(s, slot)) = slot
<1>1. OnTop(s, slot) \in States /\ Same(s, OnTop(s, slot))
  BY TopType, SlotAt DEF OnTop, Top
<1>2. Top(OnTop(s, slot)) = slot
  BY TopType DEF OnTop, Top, States
<1>3. QED
  BY <1>1, <1>2

\* The listener only remembers the position.
LEMMA ToldSame ==
  ASSUME NEW s \in States
  PROVE  Told(s) \in States /\ Same(s, Told(s)) /\ Told(s).slot = s.slot
<1>1. CASE Top(s).listener = "none"
  BY <1>1, SameReflexive DEF Told
<1>2. CASE Top(s).listener # "none"
  <2> DEFINE d == [s.dirPos EXCEPT ![Top(s).listener] = Top(s).cursor]
  <2>1. d \in [FileLists -> Int]
    BY TopType DEF States, Slots
  <2>2. Told(s) = [s EXCEPT !.dirPos = d]
    BY <1>2 DEF Told
  <2> HIDE DEF d
  <2>3. [s EXCEPT !.dirPos = d] \in States
    BY <2>1 DEF States
  <2>4. Same(s, [s EXCEPT !.dirPos = d]) /\ [s EXCEPT !.dirPos = d].slot = s.slot
    BY DEF Same, States
  <2>5. QED
    BY <2>2, <2>3, <2>4
<1>3. QED
  BY <1>1, <1>2

(***************************************************************************)
(* Moving the cursor and drawing                                           *)
(***************************************************************************)
LEMMA CountType ==
  ASSUME NEW slot \in Slots, slot.menu \in DOMAIN Menus
  PROVE  Count(slot) \in Nat
<1>1. IsFiniteSet(DOMAIN Items(slot))
  BY ItemsType, FS_Interval
<1>2. Drawn(slot) \in SUBSET DOMAIN Items(slot)
  BY DEF Drawn
<1>3. QED
  BY <1>1, <1>2, FS_Subset, FS_CardinalityType DEF Count

\* Drawing finds an item of the menu, or keeps the last one.
LEMMA TraversedType ==
  ASSUME NEW slot \in Slots, slot.menu \in DOMAIN Menus
  PROVE  Traversed(slot) \in Slots /\ Traversed(slot).menu = slot.menu
         /\ Traversed(slot).off = slot.off
<1> DEFINE under == {i \in Drawn(slot) : Place(slot, i) = slot.cursor}
           seen == slot.cursor \in slot.top .. slot.bottom - 1 /\ under # {}
           item == IF seen THEN CHOOSE i \in under : TRUE ELSE slot.item
           cursor == IF slot.cursor >= Count(slot) THEN Count(slot) - 1 ELSE slot.cursor
           blind == slot.blind /\ ~seen
<1>1. item \in Nat /\ (item # 0 => item \in DOMAIN Items(slot))
  <2>1. CASE seen
    <3>1. item \in under
      BY <2>1
    <3>2. item \in DOMAIN Items(slot)
      BY <3>1 DEF Drawn
    <3>3. QED
      BY <3>2, ItemsType
  <2>2. CASE ~seen
    BY <2>2 DEF Slots
  <2>3. QED
    BY <2>1, <2>2
<1>2. cursor \in Int /\ Count(slot) \in Int
  BY CountType DEF Slots
<1>3. blind \in BOOLEAN
  BY Zenon
<1>4. Traversed(slot) = [slot EXCEPT !.item = item, !.max = Count(slot), !.cursor = cursor, !.blind = blind]
  BY DEF Traversed
<1> HIDE DEF item, cursor, blind
<1> DEFINE t == [slot EXCEPT !.item = item, !.max = Count(slot), !.cursor = cursor, !.blind = blind]
<1>5. /\ t \in [menu : DOMAIN Menus \cup {"none"}, off : {"none", "osd"} \cup Ends, open : SUBSET Nat,
                item : Nat, blind : BOOLEAN, listener : FileLists \cup {"none"},
                cursor : Int, top : Int, bottom : Int, max : Int]
      /\ t.menu = slot.menu /\ t.off = slot.off /\ t.item = item
  BY <1>1, <1>2, <1>3 DEF Slots
<1>6. t \in Slots
  BY <1>1, <1>5 DEF Slots, Items
<1>7. QED
  BY <1>4, <1>5, <1>6

LEMMA TraverseSame ==
  ASSUME NEW s \in States
  PROVE  Traverse(s) \in States /\ Same(s, Traverse(s))
<1> DEFINE t == OnTop(s, Traversed(Top(s)))
<1>1. t \in States /\ Same(s, t)
  BY TopType, TraversedType, OnTopSame
<1>2. Traverse(s) \in {t, Told(t)}
  BY DEF Traverse
<1> HIDE DEF t
<1>3. QED
  BY <1>1, <1>2, ToldSame, SameTransitive

Moved(slot, c, t, b) == [slot EXCEPT !.cursor = c, !.top = t, !.bottom = b]
LEMMA MovedSlot ==
  ASSUME NEW slot \in Slots, NEW c \in Int, NEW t \in Int, NEW b \in Int
  PROVE  Moved(slot, c, t, b) \in Slots /\ Moved(slot, c, t, b).menu = slot.menu
         /\ Moved(slot, c, t, b).off = slot.off
         /\ Moved(slot, c, t, b).item = slot.item
  BY DEF Slots, Items, Moved

\* A step of the cursor, either way.
LEMMA UpSame ==
  ASSUME NEW s \in States
  PROVE  Up(s) \in States /\ Same(s, Up(s))
<1> DEFINE slot == Top(s)
           c == IF slot.cursor - 1 < 0 THEN 0 ELSE slot.cursor - 1
           by == IF c <= slot.top - 1 THEN 1 ELSE 0
           new == Moved(slot, c, slot.top - by, slot.bottom - by)
<1>1. c \in Int /\ by \in Int /\ slot.top \in Int /\ slot.bottom \in Int
  BY TopType DEF Slots
<1> HIDE DEF c, by
<1>2. new \in Slots /\ new.menu = Top(s).menu /\ new.off = Top(s).off
  <2>1. slot.top - by \in Int /\ slot.bottom - by \in Int
    BY <1>1
  <2>2. slot \in Slots
    BY TopType
  <2> HIDE DEF slot
  <2>3. QED
    BY <1>1, <2>1, <2>2, MovedSlot DEF slot
<1>3. Up(s) = Told(OnTop(s, new))
  BY DEF Up, Moved, c, by
<1> HIDE DEF new
<1>4. OnTop(s, new) \in States /\ Same(s, OnTop(s, new))
  BY <1>2, OnTopSame
<1>5. QED
  BY <1>3, <1>4, ToldSame, SameTransitive

LEMMA DownSame ==
  ASSUME NEW s \in States
  PROVE  Down(s) \in States /\ Same(s, Down(s))
<1> DEFINE slot == Top(s)
           c == IF slot.cursor + 1 >= slot.max THEN slot.max - 1 ELSE slot.cursor + 1
           by == IF c >= slot.bottom THEN 1 ELSE 0
           new == Moved(slot, c, slot.top + by, slot.bottom + by)
<1>1. c \in Int /\ by \in Int /\ slot.top \in Int /\ slot.bottom \in Int
  BY TopType DEF Slots
<1> HIDE DEF c, by
<1>2. new \in Slots /\ new.menu = Top(s).menu /\ new.off = Top(s).off
  <2>1. slot.top + by \in Int /\ slot.bottom + by \in Int
    BY <1>1
  <2>2. slot \in Slots
    BY TopType
  <2> HIDE DEF slot
  <2>3. QED
    BY <1>1, <2>1, <2>2, MovedSlot DEF slot
<1>3. Down(s) = Told(OnTop(s, new))
  BY DEF Down, Moved, c, by
<1> HIDE DEF new
<1>4. OnTop(s, new) \in States /\ Same(s, OnTop(s, new))
  BY <1>2, OnTopSame
<1>5. QED
  BY <1>3, <1>4, ToldSame, SameTransitive

\* The first elements of a finite set of numbers have as many below them as
\* their number.
LEMMA Numbered ==
  ASSUME NEW S \in SUBSET Nat, IsFiniteSet(S), NEW k \in Nat, k < Cardinality(S)
  PROVE  \E i \in S : Cardinality({j \in S : j < i}) = k
<1> DEFINE Has(n) == \E i \in S : Cardinality({j \in S : j < i}) = n
           T == {n \in Nat : n < Cardinality(S) /\ ~Has(n)}
<1>0. Cardinality(S) \in Nat /\ \A j \in S : j \in Nat
  BY FS_CardinalityType
<1>1. T = {}
  <2> SUFFICES ASSUME T # {} PROVE FALSE
    OBVIOUS
  <2>1. PICK n \in T : \A l \in T : n <= l
    <3>1. T \in SUBSET Nat
      OBVIOUS
    <3> HIDE DEF T
    <3>2. QED
      BY <3>1, Least
  <2>2. n \in Nat /\ n < Cardinality(S) /\ ~Has(n)
    BY <2>1
  <2>3. CASE n = 0
    <3>1. S # {}
      BY <2>2, <2>3, FS_EmptySet
    <3>2. PICK i \in S : \A j \in S : i <= j
      BY <3>1, Least
    <3>3. {j \in S : j < i} = {}
      <4>1. \A j \in S : ~(j < i)
        BY <1>0, <3>2
      <4>2. QED
        BY <4>1
    <3>4. Has(0)
      BY <3>3, FS_EmptySet
    <3>5. QED
      BY <2>2, <2>3, <3>4
  <2>4. CASE n > 0
    <3>1. n - 1 \in Nat /\ n - 1 < Cardinality(S) /\ n - 1 \notin T
      BY <1>0, <2>1, <2>2, <2>4
    <3>2. PICK i \in S : Cardinality({j \in S : j < i}) = n - 1
      BY <3>1
    <3> DEFINE below == {j \in S : j < i}
               above == {j \in S : i < j}
    <3>3. /\ IsFiniteSet(below) /\ i \notin below
          /\ Cardinality(below \cup {i}) = n
      <4>1. IsFiniteSet(below) /\ i \notin below
        BY FS_Subset
      <4>2. Cardinality(below) = n - 1
        BY <3>2
      <4> HIDE DEF below
      <4>3. Cardinality(below \cup {i}) = Cardinality(below) + 1
        BY <4>1, FS_AddElement
      <4>4. QED
        BY <2>2, <4>1, <4>2, <4>3
    <3>4. above # {}
      <4>1. CASE above = {}
        <5>1. \A j \in S : j \in below \/ j = i
          BY <1>0, <4>1
        <5>2. below \cup {i} = S
          BY <5>1
        <5> HIDE DEF below
        <5>3. Cardinality(S) = n
          BY <3>3, <5>2
        <5>4. QED
          BY <1>0, <2>2, <5>3
      <4>2. QED
        BY <4>1
    <3>5. PICK h \in above : \A j \in above : h <= j
      <4>1. above \in SUBSET Nat
        OBVIOUS
      <4> HIDE DEF above
      <4>2. QED
        BY <3>4, <4>1, Least
    <3>6. {j \in S : j < h} = below \cup {i}
      <4>1. h \in S /\ i < h /\ \A j \in S : i < j => h <= j
        BY <3>5
      <4>2. \A j \in S : j < h <=> j < i \/ j = i
        BY <1>0, <4>1
      <4>3. QED
        BY <4>2
    <3>7. Has(n)
      BY <3>3, <3>5, <3>6
    <3>8. QED
      BY <2>2, <3>7
  <2>5. QED
    BY <2>2, <2>3, <2>4
<1>2. QED
  BY <1>1

\* Every place is that of one of the items drawn, and the other way round.
LEMMA PlaceType ==
  ASSUME NEW slot \in Slots, slot.menu \in DOMAIN Menus
  PROVE  /\ \A i \in Drawn(slot) : Place(slot, i) \in 0 .. Count(slot) - 1
         /\ \A c \in 0 .. Count(slot) - 1 : \E i \in Drawn(slot) : Place(slot, i) = c
<1>1. Drawn(slot) \in SUBSET Nat /\ IsFiniteSet(Drawn(slot))
  <2>1. IsFiniteSet(DOMAIN Items(slot)) /\ DOMAIN Items(slot) \in SUBSET Nat
    <3>1. Len(Items(slot)) \in Nat /\ DOMAIN Items(slot) = 1 .. Len(Items(slot))
      BY ItemsType
    <3>2. IsFiniteSet(1 .. Len(Items(slot))) /\ 1 .. Len(Items(slot)) \in SUBSET Nat
      BY <3>1, FS_Interval
    <3>3. QED
      BY <3>1, <3>2
  <2>2. Drawn(slot) \in SUBSET DOMAIN Items(slot)
    BY DEF Drawn
  <2>3. QED
    BY <2>1, <2>2, FS_Subset
<1>2. ASSUME NEW i \in Drawn(slot) PROVE Place(slot, i) \in 0 .. Count(slot) - 1
  <2> DEFINE below == {j \in Drawn(slot) : j < i}
  <2>1. i \notin below /\ below \in SUBSET Drawn(slot)
        /\ below \cup {i} \in SUBSET Drawn(slot)
    BY <1>1
  <2>2. IsFiniteSet(below) /\ Cardinality(below) \in Nat
    BY <1>1, <2>1, FS_Subset, FS_CardinalityType
  <2>3. Cardinality(below \cup {i}) = Cardinality(below) + 1
    BY <2>1, <2>2, FS_AddElement
  <2>4. Cardinality(below \cup {i}) <= Cardinality(Drawn(slot))
    BY <1>1, <2>1, FS_Subset
  <2>5. QED
    BY <2>2, <2>3, <2>4, CountType DEF Place, Count
<1>3. ASSUME NEW c \in 0 .. Count(slot) - 1 PROVE \E i \in Drawn(slot) : Place(slot, i) = c
  <2>1. c \in Nat /\ c < Cardinality(Drawn(slot))
    BY CountType DEF Count
  <2>2. QED
    BY <1>1, <2>1, Numbered DEF Place
<1>4. QED
  BY <1>2, <1>3

\* The first item is always drawn.
LEMMA CountPositive ==
  ASSUME NEW slot \in Slots, slot.menu \in DOMAIN Menus
  PROVE  Count(slot) \in Nat \ {0}
<1>1. IsFiniteSet(DOMAIN Items(slot)) /\ 1 \in DOMAIN Items(slot)
      /\ \A j \in DOMAIN Items(slot) : ~(j < 1)
  BY ItemsType, FS_Interval
<1>2. 1 \in Drawn(slot)
  BY <1>1 DEF Drawn, IsAncestor
<1>3. Drawn(slot) \in SUBSET DOMAIN Items(slot)
  BY DEF Drawn
<1>4. IsFiniteSet(Drawn(slot)) /\ Drawn(slot) # {}
  BY <1>1, <1>2, <1>3, FS_Subset
<1>5. Cardinality(Drawn(slot)) # 0
  BY <1>4, FS_EmptySet
<1>6. QED
  BY <1>5, CountType DEF Count

\* What a slot that is not blind has of its cursor: it is in the window on one
\* of the items; the number of items is also right while it moves; what has
\* just been drawn matches; and a key that was noted finds both.
InWindow(slot) == slot.cursor \in slot.top .. slot.bottom - 1
InView(slot) == slot.blind \/ (InWindow(slot) /\ slot.cursor \in 0 .. Count(slot) - 1)
Known(slot) == InView(slot) /\ (slot.blind \/ slot.max = Count(slot))
Shown(slot) == slot.blind \/ (InWindow(slot) /\ UpToDate(slot))
Seen(s) == s.lost \/ \A i \in 0 .. s.current : InView(s.slot[i])
Firm(s) == s.lost \/ (Seen(s) /\ Known(Top(s)))
Sharp(s) == s.lost \/ (Firm(s) /\ (Top(s).blind \/ Matches(Top(s))))

LEMMA FirmOf ==
  ASSUME NEW s, NEW t, t.slot = s.slot, t.current = s.current, s.lost => t.lost
  PROVE  (Seen(s) => Seen(t)) /\ (Firm(s) => Firm(t))
  BY DEF Firm, Seen, Top

\* What is in view stays so below a slot that is.
Under(s) == s.lost \/ \A i \in 0 .. s.current : i # s.current => InView(s.slot[i])
LEMMA OnTopUnder ==
  ASSUME NEW s \in States, NEW slot \in Slots, Under(s)
  PROVE  /\ Under(OnTop(s, slot)) /\ (InView(slot) => Seen(OnTop(s, slot)))
         /\ Known(slot) => Firm(OnTop(s, slot))
<1>1. /\ OnTop(s, slot).current = s.current /\ OnTop(s, slot).lost = s.lost
      /\ \A i \in 0 .. Roots - 1 : OnTop(s, slot).slot[i] = IF i = s.current THEN slot ELSE s.slot[i]
  BY TopType DEF OnTop, States
<1>2. \A i \in 0 .. s.current : i \in 0 .. Roots - 1
  BY TopType
<1>3. Top(OnTop(s, slot)) = slot
  BY <1>1, TopType DEF Top
<1>4. Under(OnTop(s, slot)) /\ (InView(slot) => Seen(OnTop(s, slot)))
  BY <1>1, <1>2 DEF Under, Seen
<1>5. QED
  BY <1>3, <1>4 DEF Known, Firm

LEMMA OnTopSeen ==
  ASSUME NEW s \in States, NEW slot \in Slots, Seen(s), InView(slot)
  PROVE  Seen(OnTop(s, slot)) /\ (Known(slot) => Firm(OnTop(s, slot)))
  BY OnTopUnder DEF Seen, Under

\* The same menu with the same folders open draws the same items.
LEMMA DrawnSame ==
  ASSUME NEW slot, NEW new, new.menu = slot.menu, new.open = slot.open
  PROVE  /\ Drawn(new) = Drawn(slot) /\ Count(new) = Count(slot)
         /\ \A i : Place(new, i) = Place(slot, i)
<1>1. Drawn(new) = Drawn(slot)
  BY DEF Drawn, Items
<1>2. QED
  BY <1>1 DEF Count, Place

\* What was in view is, when it is drawn, found under the cursor.
LEMMA TraversedShown ==
  ASSUME NEW slot \in Slots, slot.menu \in DOMAIN Menus, InView(slot)
  PROVE  Known(Traversed(slot)) /\ Shown(Traversed(slot))
<1> DEFINE under == {i \in Drawn(slot) : Place(slot, i) = slot.cursor}
           seen == slot.cursor \in slot.top .. slot.bottom - 1 /\ under # {}
           new == Traversed(slot)
<1>1. /\ new.max = Count(slot) /\ (new.blind <=> slot.blind /\ ~seen)
      /\ new.item = IF seen THEN CHOOSE i \in under : TRUE ELSE slot.item
      /\ new.cursor = IF slot.cursor >= Count(slot) THEN Count(slot) - 1 ELSE slot.cursor
      /\ new.menu = slot.menu /\ new.open = slot.open /\ new.top = slot.top
         /\ new.bottom = slot.bottom
  BY DEF Traversed, Slots
<1>2. Count(new) = Count(slot) /\ Drawn(new) = Drawn(slot)
      /\ \A i : Place(new, i) = Place(slot, i)
  BY <1>1, DrawnSame
<1>3. CASE seen
  <2>1. new.item \in Drawn(slot) /\ Place(slot, new.item) = slot.cursor
    BY <1>1, <1>3
  <2>2. slot.cursor \in 0 .. Count(slot) - 1 /\ Count(slot) \in Nat
    BY <2>1, PlaceType, CountType
  <2>3. new.cursor = slot.cursor
    BY <1>1, <2>2
  <2> HIDE DEF new
  <2>4. InWindow(new) /\ new.cursor \in 0 .. Count(new) - 1 /\ new.max = Count(new)
    BY <1>1, <1>2, <1>3, <2>2, <2>3 DEF InWindow
  <2>5. Matches(new)
    BY <1>2, <2>1, <2>3 DEF Matches
  <2>6. QED
    BY <1>2, <2>4, <2>5 DEF Known, InView, Shown, UpToDate, new
<1>4. CASE ~seen
  <2>1. ~slot.blind => seen
    <3>1. ~slot.blind => InWindow(slot) /\ under # {}
      BY PlaceType DEF InView
    <3>2. QED
      BY <3>1 DEF InWindow
  <2>2. new.blind
    BY <1>1, <1>4, <2>1
  <2>3. QED
    BY <2>2 DEF Known, InView, Shown
<1>5. QED
  BY <1>3, <1>4

LEMMA TraverseSeen ==
  ASSUME NEW s \in States, Seen(s)
  PROVE  Firm(Traverse(s)) /\ (s.lost \/ Shown(Top(Traverse(s))))
<1> DEFINE new == Traversed(Top(s))
           t == OnTop(s, new)
<1>1. CASE s.lost
  BY <1>1, TraverseSame DEF Same, Firm
<1>2. CASE ~s.lost
  <2>1. InView(Top(s)) /\ Top(s) \in Slots /\ Top(s).menu \in DOMAIN Menus
    BY <1>2, TopType DEF Seen, Top
  <2>2. new \in Slots /\ new.menu = Top(s).menu /\ new.off = Top(s).off /\ Known(new)
        /\ Shown(new)
    BY <2>1, TraversedType, TraversedShown
  <2>3. Traverse(s) \in {t, Told(t)}
    BY DEF Traverse
  <2> HIDE DEF new
  <2>4. t \in States /\ Firm(t) /\ Top(t) = new
    BY <2>2, OnTopSame, OnTopSeen DEF Known
  <2> HIDE DEF t
  <2>5. Told(t).slot = t.slot /\ Told(t).current = t.current /\ (t.lost => Told(t).lost)
    BY <2>4, ToldSame DEF Same
  <2>6. QED
    BY <2>2, <2>3, <2>4, <2>5, FirmOf DEF Top
<1>3. QED
  BY <1>1, <1>2

\* A step of the cursor within the window, or one that takes the window along.
LEMMA MovedKnown ==
  ASSUME NEW slot \in Slots, NEW c \in Int, NEW by \in {-1, 0, 1}, Known(slot),
         ~slot.blind => c \in 0 .. Count(slot) - 1
         /\ c \in slot.top + by .. slot.bottom + by - 1
  PROVE  Known(Moved(slot, c, slot.top + by, slot.bottom + by))
<1> DEFINE new == Moved(slot, c, slot.top + by, slot.bottom + by)
<1>1. /\ new.menu = slot.menu /\ new.open = slot.open /\ new.item = slot.item
         /\ new.blind = slot.blind
      /\ new.max = slot.max /\ new.cursor = c /\ new.top = slot.top + by
         /\ new.bottom = slot.bottom + by
  BY DEF Moved, Slots
<1> HIDE DEF new
<1>2. Count(new) = Count(slot)
  BY <1>1, DrawnSame
<1>3. new.blind <=> slot.blind
  BY <1>1
<1>4. QED
  <2>1. ~slot.blind => new.cursor \in 0 .. Count(new) - 1
        /\ new.cursor \in new.top .. new.bottom - 1
    <3>1. slot.top \in Int /\ slot.bottom \in Int /\ by \in Int
      BY DEF Slots
    <3>2. QED
      BY <1>1, <1>2, <3>1
  <2>2. ~slot.blind => new.max = Count(new)
    BY <1>1, <1>2 DEF Known
  <2>3. Known(new)
    BY <1>3, <2>1, <2>2 DEF Known, InView, InWindow
  <2>4. QED
    BY <2>3 DEF new

\* The cursor stays on an item, and the window goes with it.
LEMMA UpFirm ==
  ASSUME NEW s \in States, Firm(s)
  PROVE  Firm(Up(s))
<1> DEFINE slot == Top(s)
           c == IF slot.cursor - 1 < 0 THEN 0 ELSE slot.cursor - 1
           by == IF c <= slot.top - 1 THEN -1 ELSE 0
           new == Moved(slot, c, slot.top + by, slot.bottom + by)
<1>1. CASE s.lost
  BY <1>1, UpSame DEF Same, Firm
<1>2. CASE ~s.lost
  <2>1. /\ slot \in Slots /\ slot.menu \in DOMAIN Menus /\ Known(slot) /\ Seen(s)
        /\ slot.cursor \in Int /\ slot.top \in Int /\ slot.bottom \in Int /\ slot.max \in Int
    BY <1>2, TopType DEF Firm, Slots
  <2>2. Count(slot) \in Nat
    BY <2>1, CountType
  <2>3. ~slot.blind => c \in 0 .. Count(slot) - 1
        /\ c \in slot.top + by .. slot.bottom + by - 1
    BY <2>1, <2>2 DEF Known, InView, InWindow
  <2>4. c \in Int /\ by \in {-1, 0, 1}
    BY <2>1
  <2>5. Up(s) = Told(OnTop(s, new))
    <3>1. slot.top - (IF c <= slot.top - 1 THEN 1 ELSE 0) = slot.top + by
      BY <2>1
    <3>2. slot.bottom - (IF c <= slot.top - 1 THEN 1 ELSE 0) = slot.bottom + by
      BY <2>1
    <3>3. QED
      BY <3>1, <3>2 DEF Up, Moved
  <2> HIDE DEF c, by, slot
  <2>6. new \in Slots /\ new.menu = slot.menu /\ new.off = slot.off /\ Known(new)
    <3>1. slot.top + by \in Int /\ slot.bottom + by \in Int
      BY <2>1, <2>4
    <3>2. Known(new)
      BY <2>1, <2>3, <2>4, MovedKnown, Zenon
    <3>3. \A a, b \in Int : Moved(slot, c, a, b) \in Slots
            /\ Moved(slot, c, a, b).menu = slot.menu /\ Moved(slot, c, a, b).off = slot.off
      BY <2>1, <2>4, MovedSlot
    <3>4. new \in Slots /\ new.menu = slot.menu /\ new.off = slot.off
      BY <3>1, <3>3
    <3>5. QED
      BY <3>2, <3>4
  <2> HIDE DEF new
  <2>7. OnTop(s, new) \in States /\ Firm(OnTop(s, new))
    BY <2>1, <2>6, OnTopSame, OnTopSeen DEF Known, slot
  <2>8. QED
    BY <2>5, <2>7, ToldSame, FirmOf DEF Same
<1>3. QED
  BY <1>1, <1>2

LEMMA DownFirm ==
  ASSUME NEW s \in States, Firm(s)
  PROVE  Firm(Down(s))
<1> DEFINE slot == Top(s)
           c == IF slot.cursor + 1 >= slot.max THEN slot.max - 1 ELSE slot.cursor + 1
           by == IF c >= slot.bottom THEN 1 ELSE 0
           new == Moved(slot, c, slot.top + by, slot.bottom + by)
<1>1. CASE s.lost
  BY <1>1, DownSame DEF Same, Firm
<1>2. CASE ~s.lost
  <2>1. /\ slot \in Slots /\ slot.menu \in DOMAIN Menus /\ Known(slot) /\ Seen(s)
        /\ slot.cursor \in Int /\ slot.top \in Int /\ slot.bottom \in Int /\ slot.max \in Int
    BY <1>2, TopType DEF Firm, Slots
  <2>2. Count(slot) \in Nat
    BY <2>1, CountType
  <2>3. ~slot.blind => c \in 0 .. Count(slot) - 1
        /\ c \in slot.top + by .. slot.bottom + by - 1
    BY <2>1, <2>2 DEF Known, InView, InWindow
  <2>4. c \in Int /\ by \in {-1, 0, 1}
    BY <2>1
  <2>5. Down(s) = Told(OnTop(s, new))
    BY DEF Down, Moved
  <2> HIDE DEF c, by, slot
  <2>6. new \in Slots /\ new.menu = slot.menu /\ new.off = slot.off /\ Known(new)
    <3>1. slot.top + by \in Int /\ slot.bottom + by \in Int
      BY <2>1, <2>4
    <3>2. Known(new)
      BY <2>1, <2>3, <2>4, MovedKnown, Zenon
    <3>3. \A a, b \in Int : Moved(slot, c, a, b) \in Slots
            /\ Moved(slot, c, a, b).menu = slot.menu /\ Moved(slot, c, a, b).off = slot.off
      BY <2>1, <2>4, MovedSlot
    <3>4. new \in Slots /\ new.menu = slot.menu /\ new.off = slot.off
      BY <3>1, <3>3
    <3>5. QED
      BY <3>2, <3>4
  <2> HIDE DEF new
  <2>7. OnTop(s, new) \in States /\ Firm(OnTop(s, new))
    BY <2>1, <2>6, OnTopSame, OnTopSeen DEF Known, slot
  <2>8. QED
    BY <2>5, <2>7, ToldSame, FirmOf DEF Same
<1>3. QED
  BY <1>1, <1>2

\* The states that s becomes when only the cursor moves or is drawn.
Views(s) == {t \in States : Same(s, t) /\ (Firm(s) => Firm(t))}

LEMMA ViewsReflexive ==
  ASSUME NEW s \in States
  PROVE  s \in Views(s)
  BY SameReflexive DEF Views

LEMMA ViewsTransitive ==
  ASSUME NEW s, NEW t \in Views(s), NEW u \in Views(t)
  PROVE  u \in Views(s)
  BY SameTransitive DEF Views

LEMMA StepViews ==
  ASSUME NEW s \in States
  PROVE  Up(s) \in Views(s) /\ Down(s) \in Views(s) /\ Traverse(s) \in Views(s)
<1>1. Firm(s) => Seen(s)
  BY DEF Firm, Seen
<1>2. QED
  BY <1>1, UpSame, DownSame, TraverseSame, UpFirm, DownFirm, TraverseSeen DEF Views

\* So does any number of steps.
LEMMA UpsView ==
  ASSUME NEW s \in States, NEW n \in Int
  PROVE  Times(n, Up, s) \in Views(s)
<1> DEFINE D == [i \in Nat |-> Views(s)]
<1>1. s \in D[0] /\ \A i \in 1 .. n : \A t \in D[i - 1] : Up(t) \in D[i]
  <2>1. \A t \in Views(s) : Up(t) \in Views(s)
    BY StepViews, ViewsTransitive DEF Views
  <2>2. \A i \in 1 .. n : i \in Nat /\ i - 1 \in Nat
    OBVIOUS
  <2>3. QED
    BY <2>1, <2>2, ViewsReflexive
<1>2. Times(n, Up, s) \in D[IF n > 0 THEN n ELSE 0]
  <2> HIDE DEF D
  <2>1. QED
    BY <1>1, UpLoop
<1>3. QED
  BY <1>2

LEMMA DownsView ==
  ASSUME NEW s \in States, NEW n \in Int
  PROVE  Times(n, Down, s) \in Views(s)
<1> DEFINE D == [i \in Nat |-> Views(s)]
<1>1. s \in D[0] /\ \A i \in 1 .. n : \A t \in D[i - 1] : Down(t) \in D[i]
  <2>1. \A t \in Views(s) : Down(t) \in Views(s)
    BY StepViews, ViewsTransitive DEF Views
  <2>2. \A i \in 1 .. n : i \in Nat /\ i - 1 \in Nat
    OBVIOUS
  <2>3. QED
    BY <2>1, <2>2, ViewsReflexive
<1>2. Times(n, Down, s) \in D[IF n > 0 THEN n ELSE 0]
  <2> HIDE DEF D
  <2>1. QED
    BY <1>1, DownLoop
<1>3. QED
  BY <1>2

LEMMA ToTopView ==
  ASSUME NEW s \in States
  PROVE  ToTop(s) \in Views(s)
<1> DEFINE n == IF Top(s).cursor < 0 THEN 1 ELSE Top(s).cursor
<1>1. n \in Int
  BY TopType DEF Slots
<1>2. ToTop(s) = Times(n, Up, s)
  BY DEF ToTop
<1> HIDE DEF n
<1>3. QED
  BY <1>1, <1>2, UpsView

LEMMA ToBottomView ==
  ASSUME NEW s \in States
  PROVE  ToBottom(s) \in Views(s)
<1> DEFINE n == Top(s).max - 1 - Top(s).cursor
<1>1. n \in Int
  BY TopType DEF Slots
<1>2. ToBottom(s) = Times(n, Down, s)
  BY DEF ToBottom
<1> HIDE DEF n
<1>3. QED
  BY <1>1, <1>2, DownsView

\* A stack that is lost keeps its choices.
Lost(s) == {t \in States : t.lost /\ t.value = s.value}
LEMMA LostOf ==
  ASSUME NEW s \in States
  PROVE  [s EXCEPT !.lost = TRUE] \in Lost(s)
  BY DEF States, Lost

\* A search that is not done goes one step.
Searches(s) ==
  {r \in [s : States, done : BOOLEAN] : r.s \in Views(s) \/ (r.done /\ r.s \in Lost(s))}
LEMMA SearchView ==
  ASSUME NEW s \in States, NEW start, NEW letter, NEW r \in Searches(s)
  PROVE  Search(r, start, letter) \in Searches(s)
<1> DEFINE t == IF Top(r.s).cursor >= Top(r.s).max - 1 THEN ToTop(r.s) ELSE Down(r.s)
           u == Traverse(t)
           found == Items(Top(u))[Top(u).item].letter = letter
<1>1. CASE r.done
  BY <1>1 DEF Search
<1>2. CASE ~r.done
  <2>1. r.s \in States /\ r.s \in Views(s)
    BY <1>2 DEF Searches
  <2>2. t \in Views(s)
    <3>1. ToTop(r.s) \in Views(r.s) /\ Down(r.s) \in Views(r.s)
      BY <2>1, ToTopView, StepViews
    <3>2. QED
      BY <2>1, <3>1, ViewsTransitive
  <2>3. Search(r, start, letter) =
          CASE Top(t).cursor = start -> [s |-> t, done |-> TRUE]
            [] Top(t).cursor # start /\ Top(u).item = 0 -> [s |-> [u EXCEPT !.lost = TRUE], done |-> TRUE]
            [] OTHER -> [s |-> u, done |-> found]
    BY <1>2 DEF Search
  <2> HIDE DEF t
  <2>4. u \in Views(s) /\ u \in States /\ t \in States
    <3>1. t \in States
      BY <2>2 DEF Views
    <3>2. u \in Views(t)
      BY <3>1, StepViews
    <3>3. QED
      BY <2>2, <3>1, <3>2, ViewsTransitive DEF Views
  <2>5. found \in BOOLEAN
    BY Zenon
  <2> HIDE DEF u, found
  <2> DEFINE gone == [u EXCEPT !.lost = TRUE]
  <2>6. gone \in Lost(s)
    BY <2>4, LostOf DEF Lost, Views, Same
  <2> HIDE DEF gone
  <2>7. gone \in States
    BY <2>6 DEF Lost
  <2>8. /\ [s |-> t, done |-> TRUE] \in Searches(s)
        /\ [s |-> gone, done |-> TRUE] \in Searches(s)
        /\ [s |-> u, done |-> found] \in Searches(s)
    BY <2>2, <2>4, <2>5, <2>6, <2>7 DEF Searches
  <2>9. QED
    BY <2>3, <2>8 DEF gone
<1>3. QED
  BY <1>1, <1>2

\* ui_find_first, ui_set_cur_pos and the drawing of the whole stack.
LEMMA FindFirstView ==
  ASSUME NEW s \in States, NEW letter
  PROVE  FindFirst(s, letter) \in Views(s) \cup Lost(s)
<1> DEFINE steps == Len(Items(Top(s))) + Top(s).max + 1
           start == Top(s).cursor
           first == [s |-> s, done |-> FALSE]
           D == [i \in Nat |-> Searches(s)]
           r == Searched(steps, start, letter, first)
<1>1. steps \in Int
  BY TopType, ItemsType DEF Slots
<1>2. first \in D[0]
  BY ViewsReflexive DEF Searches
<1>3. \A i \in 1 .. steps : \A t \in D[i - 1] : Search(t, start, letter) \in D[i]
  <2>1. \A t \in Searches(s) : Search(t, start, letter) \in Searches(s)
    BY SearchView
  <2>2. \A i \in 1 .. steps : i \in Nat /\ i - 1 \in Nat
    BY <1>1
  <2>3. QED
    BY <2>1, <2>2
<1>4. r \in D[IF steps > 0 THEN steps ELSE 0]
  <2> HIDE DEF D, steps, first, start
  <2>1. QED
    BY <1>1, <1>2, <1>3, SearchLoop
<1>5. r \in Searches(s)
  <2> HIDE DEF r, steps
  <2>1. QED
    BY <1>1, <1>4
<1>6. FindFirst(s, letter) = IF r.done THEN r.s ELSE [s EXCEPT !.lost = TRUE]
  BY DEF FindFirst, Searched
<1> HIDE DEF r
<1>7. QED
  BY <1>5, <1>6, LostOf DEF Searches

\* A file list starts at its top, where the number of items is still that of
\* the menu that was in its slot before; the first step down and the drawing
\* after it leave the cursor on an item, also when there is only one.
AtStart(slot) == ~slot.blind /\ slot.cursor = 0 /\ slot.top = 0 /\ slot.bottom > 1
Listing(s) == {t \in States : Same(s, t) /\ (Seen(s) => Firm(t) \/ (Seen(t) /\ AtStart(Top(t))))}

LEMMA SecondKnown ==
  ASSUME NEW slot \in Slots, slot.menu \in DOMAIN Menus, slot.cursor = 1, slot.top = 0, slot.bottom > 1
  PROVE  Known(Traversed(slot))
<1> DEFINE under == {i \in Drawn(slot) : Place(slot, i) = slot.cursor}
           seen == slot.cursor \in slot.top .. slot.bottom - 1 /\ under # {}
           new == Traversed(slot)
<1>1. Count(slot) \in Nat \ {0} /\ slot.bottom \in Int
  BY CountPositive DEF Slots
<1>2. CASE Count(slot) > 1
  <2>1. InView(slot)
    BY <1>1, <1>2 DEF InView, InWindow
  <2>2. QED
    BY <2>1, TraversedShown
<1>3. CASE Count(slot) = 1
  <2>1. /\ new.max = Count(slot)
        /\ new.cursor = IF slot.cursor >= Count(slot) THEN Count(slot) - 1 ELSE slot.cursor
        /\ new.menu = slot.menu /\ new.open = slot.open /\ new.top = slot.top
           /\ new.bottom = slot.bottom
    BY DEF Traversed, Slots
  <2> HIDE DEF new
  <2>2. Count(new) = Count(slot)
    BY <2>1, DrawnSame
  <2>3. new.cursor = 0
    BY <1>3, <2>1
  <2>4. InView(new)
    BY <1>1, <1>3, <2>1, <2>2, <2>3 DEF InView, InWindow
  <2>5. QED
    BY <2>1, <2>2, <2>4 DEF Known, new
<1>4. QED
  BY <1>1, <1>2, <1>3

LEMMA TowardsListing ==
  ASSUME NEW s \in States, NEW t \in Listing(s), NEW pos \in Int
  PROVE  Towards(t, pos) \in Listing(s)
<1> DEFINE d == Down(t)
           u == Traverse(d)
<1>1. t \in States /\ Same(s, t) /\ d \in Views(t) /\ d \in States
  BY StepViews DEF Listing, Views
<1>2. u \in Views(t) /\ u \in States
  BY <1>1, StepViews, ViewsTransitive DEF Views
<1>3. Same(s, u)
  BY <1>1, <1>2, SameTransitive DEF Views
<1>4. CASE Towards(t, pos) = t
  BY <1>4
<1>5. CASE Towards(t, pos) # t
  <2>1. Towards(t, pos) = u /\ Top(t).cursor < Top(t).max - 1
    BY <1>5 DEF Towards
  <2>2. ASSUME Seen(s), ~Firm(t) PROVE Firm(u)
    <3> DEFINE slot == Top(t)
               zero == 0
               one == 1
               new == Moved(slot, one, zero, slot.bottom)
    <3>1. /\ Seen(t) /\ AtStart(slot) /\ slot \in Slots /\ slot.menu \in DOMAIN Menus
          /\ slot.bottom \in Int /\ slot.max \in Int
      BY <1>1, <2>2, TopType DEF Listing, Slots
    <3>2. d = Told(OnTop(t, new))
      <4>1. slot.cursor = 0 /\ slot.top = 0 /\ slot.bottom > 1 /\ slot.cursor < slot.max - 1
        BY <2>1, <3>1 DEF AtStart
      <4>2. (IF slot.cursor + 1 >= slot.max THEN slot.max - 1 ELSE slot.cursor + 1) = 1
        BY <3>1, <4>1
      <4>3. (IF 1 >= slot.bottom THEN 1 ELSE 0) = 0
        BY <3>1, <4>1
      <4>4. slot.top + 0 = 0 /\ slot.bottom + 0 = slot.bottom
        BY <3>1, <4>1
      <4>5. QED
        BY <4>2, <4>3, <4>4 DEF Down, Moved
    <3>3. new \in Slots /\ new.menu = slot.menu /\ new.off = slot.off
      BY <3>1, MovedSlot
    <3>4. new.cursor = 1 /\ new.top = 0 /\ new.bottom = slot.bottom
      BY <3>1 DEF Moved, Slots
    <3> HIDE DEF new, slot, d
    <3>5. Known(Traversed(new)) /\ Traversed(new) \in Slots
      BY <3>1, <3>3, <3>4, SecondKnown, TraversedType DEF AtStart
    <3>6. OnTop(t, new) \in States /\ Under(OnTop(t, new)) /\ Top(OnTop(t, new)) = new
      <4>1. Under(t)
        BY <3>1 DEF Seen, Under
      <4>2. QED
        BY <1>1, <3>3, <4>1, OnTopSame, OnTopUnder DEF slot
    <3>7. d.slot = OnTop(t, new).slot /\ Same(OnTop(t, new), d)
      BY <3>2, <3>6, ToldSame
    <3>8. Under(d) /\ Top(d) = new
      BY <3>6, <3>7 DEF Same, Under, Top
    <3>9. Firm(OnTop(d, Traversed(new))) /\ OnTop(d, Traversed(new)) \in States
      <4>1. Traversed(new).menu = Top(d).menu /\ Traversed(new).off = Top(d).off
        BY <3>1, <3>3, <3>8, TraversedType
      <4>2. QED
        BY <1>1, <3>5, <3>8, <4>1, OnTopUnder, OnTopSame
    <3>10. u \in {OnTop(d, Traversed(new)), Told(OnTop(d, Traversed(new)))}
      BY <3>8 DEF Traverse
    <3>11. QED
      BY <3>9, <3>10, ToldSame, FirmOf DEF Same
  <2>3. Seen(s) => Firm(u)
    BY <1>2, <2>2 DEF Views
  <2>4. QED
    BY <1>2, <1>3, <2>1, <2>3 DEF Listing
<1>6. QED
  BY <1>4, <1>5

LEMMA SetCurPosListing ==
  ASSUME NEW s \in States, NEW t \in Listing(s), NEW pos \in Int
  PROVE  SetCurPos(t, pos) \in Listing(s)
<1> DEFINE D == [i \in Nat |-> Listing(s)]
<1>1. t \in D[0] /\ \A i \in 1 .. pos : \A u \in D[i - 1] : Towards(u, pos) \in D[i]
  BY TowardsListing
<1>2. SetCurPos(t, pos) \in D[IF pos > 0 THEN pos ELSE 0]
  <2> HIDE DEF D
  <2>1. SetCurPos(t, pos) = Brought(pos, pos, t)
    BY DEF SetCurPos, Brought
  <2>2. QED
    BY <1>1, <2>1, TowardsLoop
<1>3. QED
  BY <1>2

\* What s is when the menus below the i-th are drawn.
DrawnTo(s, i) ==
  {t \in States : /\ Same(s, t)
                  /\ Seen(s) /\ ~s.lost => ~t.lost /\ Seen(t)
                     /\ \A j \in 0 .. i - 1 : j <= s.current => Shown(t.slot[j])}

LEMMA DrawnAtOne ==
  ASSUME NEW s \in States, NEW i \in 0 .. s.current, NEW t \in DrawnTo(s, i)
  PROVE  DrawnAt(t, i) \in DrawnTo(s, i + 1)
<1> DEFINE new == Traversed(t.slot[i])
           u == [t EXCEPT !.slot[i] = new]
           v == DrawnAt(t, i)
<1>1. t \in States /\ Same(s, t) /\ t.current = s.current /\ i \in 0 .. Roots - 1
      /\ i \in Nat /\ s.current \in Nat
  BY TopType DEF DrawnTo, Same
<1>2. t.slot[i] \in Slots /\ t.slot[i].menu \in DOMAIN Menus
  BY <1>1 DEF States
<1>3. new \in Slots /\ new.menu = t.slot[i].menu /\ new.off = t.slot[i].off
      /\ (InView(t.slot[i]) => InView(new) /\ Shown(new))
  BY <1>2, TraversedType, TraversedShown DEF Known
<1>4. v \in {u, Told(u)}
  BY DEF DrawnAt
<1> HIDE DEF new, v
<1>5. u \in States /\ Same(t, u)
  BY <1>1, <1>3, SlotAt
<1>6. /\ u.lost = t.lost /\ u.current = t.current
      /\ \A j \in 0 .. Roots - 1 : u.slot[j] = IF j = i THEN new ELSE t.slot[j]
  BY <1>1 DEF States
<1> HIDE DEF u
<1>7. v \in States /\ Same(u, v) /\ v.slot = u.slot /\ v.current = u.current
      /\ (v.lost <=> u.lost)
  <2>1. Told(u) \in States /\ Same(u, Told(u)) /\ Told(u).slot = u.slot
        /\ Told(u).lost = u.lost
    BY <1>5, ToldSame DEF Told, States
  <2>2. QED
    BY <1>4, <1>5, <2>1, SameReflexive DEF Same
<1>8. Same(s, v)
  BY <1>1, <1>5, <1>7, SameTransitive
<1>9. ASSUME Seen(s), ~s.lost PROVE ~v.lost /\ Seen(v)
      /\ \A j \in 0 .. (i + 1) - 1 : j <= s.current => Shown(v.slot[j])
  <2>1. ~t.lost /\ (\A j \in 0 .. s.current : InView(t.slot[j]))
        /\ \A j \in 0 .. i - 1 : j <= s.current => Shown(t.slot[j])
    BY <1>1, <1>9 DEF DrawnTo, Seen
  <2>2. \A j \in 0 .. s.current : j \in 0 .. Roots - 1
        /\ v.slot[j] = IF j = i THEN new ELSE t.slot[j]
    BY <1>6, <1>7, TopType
  <2>3. InView(new) /\ Shown(new)
    BY <1>3, <2>1
  <2>4. Seen(v)
    BY <1>1, <1>6, <1>7, <2>1, <2>2, <2>3 DEF Seen
  <2>5. \A j \in 0 .. (i + 1) - 1 : j = i \/ j \in 0 .. i - 1
    BY <1>1
  <2>6. \A j \in 0 .. (i + 1) - 1 : j \in 0 .. s.current
    BY <1>1
  <2>7. \A j \in 0 .. (i + 1) - 1 : Shown(v.slot[j])
    BY <2>1, <2>2, <2>3, <2>5, <2>6
  <2>8. QED
    BY <1>6, <1>7, <2>1, <2>4, <2>7
<1>10. QED
  BY <1>7, <1>8, <1>9 DEF DrawnTo, v

LEMMA DrawnAllShown ==
  ASSUME NEW s \in States
  PROVE  DrawnAll(s) \in DrawnTo(s, s.current + 1)
<1> DEFINE D == [i \in Nat |-> DrawnTo(s, i)]
           n == s.current + 1
<1>0. /\ n \in Int /\ n \in Nat /\ n > 0
      /\ \A i \in 1 .. n : i - 1 \in 0 .. s.current /\ i - 1 \in Nat /\ i \in Nat
         /\ (i - 1) + 1 = i
  BY TopType
<1>1. s \in D[0]
  BY SameReflexive DEF DrawnTo
<1>2. \A i \in 1 .. n : \A t \in D[i - 1] : DrawnAt(t, i - 1) \in D[i]
  BY <1>0, DrawnAtOne
<1>3. DrawnAll(s) \in D[IF n > 0 THEN n ELSE 0]
  <2>1. DrawnAll(s) = Loop(n, LAMBDA t, i : DrawnAt(t, i - 1), s)
    BY DEF DrawnAll
  <2> HIDE DEF D, n
  <2>2. QED
    BY <1>0, <1>1, <1>2, <2>1, DrawLoop
<1>4. QED
  BY <1>0, <1>3

(***************************************************************************)
(* The stack                                                               *)
(***************************************************************************)
Offs == {"none", "osd"} \cup Ends
On(s, off) == \E i \in 1 .. s.current : s.slot[i].off = off
NoEnds(s) == \A i \in 1 .. s.current : s.slot[i].off \notin Ends
Awake(s) == s.ui \/ s.late

\* The invariant of a stack that is not lost: the flags go with the slots;
\* nothing that does anything is above a page whose popping ends something;
\* and only after a key was acted on with the menu closed is there anything on
\* the stack of a menu that is closed, or above such a page.
Rooted(s) == s.slot[0].off = "none" /\ s.slot[0].menu = "root"
OsdKept(s) ==
  /\ s.osd <=> On(s, "osd")
  /\ \A i, j \in 1 .. s.current : s.slot[i].off = "osd" /\ s.slot[j].off = "osd" => i = j
  /\ s.osd => s.ui
EndsKept(s) == (s.raw <=> On(s, "raw")) /\ (s.timing => On(s, "timer"))
EndsOnTop(s) ==
  \A i \in 1 .. s.current : s.slot[i].off \in Ends =>
    /\ \A j \in i .. s.current : IsPage(s.slot[j].menu)
       /\ (j > i => s.slot[j].off \notin Ends)
    /\ s.late \/ i = s.current
ClosedEmpty(s) == ~s.late /\ ~s.ui => s.current = 0
Stack(s) == Rooted(s) /\ OsdKept(s) /\ EndsKept(s) /\ EndsOnTop(s) /\ ClosedEmpty(s)

Fine(s) == s.lost \/ Stack(s)
\* What a script runs in.
Calm(s) == s.lost \/ (Stack(s) /\ NoEnds(s) /\ Awake(s))
\* Every operation but a choice of an item.
Kept(s, t) == t \in States /\ t.value = s.value /\ (s.lost => t.lost) /\ (Seen(s) => Seen(t))

LEMMA KeptTransitive ==
  ASSUME NEW s, NEW t, NEW u, Kept(s, t), Kept(t, u)
  PROVE  Kept(s, u)
  BY DEF Kept

\* The stack is fine as long as its slots and flags stay, a test ends early or
\* a key is acted on late.
LEMMA StackOf ==
  ASSUME NEW s \in States, NEW t, Stack(s), t.current = s.current, t.ui <=> s.ui,
         t.osd <=> s.osd,
         t.raw <=> s.raw, t.timing => s.timing, s.late => t.late,
         \A i \in 0 .. s.current : t.slot[i].menu = s.slot[i].menu
         /\ t.slot[i].off = s.slot[i].off
  PROVE  Stack(t)
<1>1. s.current \in Nat
  BY TopType
<1>2. \A i \in 1 .. s.current : t.slot[i].menu = s.slot[i].menu
      /\ t.slot[i].off = s.slot[i].off
  BY <1>1
<1>3. \A off : On(t, off) <=> On(s, off)
  BY <1>2 DEF On
<1>4. Rooted(t)
  BY <1>1 DEF Stack, Rooted
<1>5. OsdKept(t)
  BY <1>2, <1>3 DEF Stack, OsdKept
<1>6. EndsKept(t)
  BY <1>3 DEF Stack, EndsKept
<1>7. EndsOnTop(t)
  <2>1. \A i \in 1 .. s.current : \A j \in i .. s.current : j \in 1 .. s.current
    BY <1>1
  <2>2. QED
    BY <1>2, <2>1 DEF Stack, EndsOnTop
<1>8. ClosedEmpty(t)
  BY DEF Stack, ClosedEmpty
<1>9. QED
  BY <1>4, <1>5, <1>6, <1>7, <1>8 DEF Stack

\* What changes only flags keeps the rest.
LEMMA KeptOf ==
  ASSUME NEW s, NEW t \in States, t.slot = s.slot, t.current = s.current, t.value = s.value,
         s.lost => t.lost
  PROVE  Kept(s, t)
  BY FirmOf DEF Kept

LEMMA SameFine ==
  ASSUME NEW s \in States, NEW t \in States, Same(s, t)
  PROVE  (Fine(s) => Fine(t)) /\ (Calm(s) => Calm(t))
<1>1. Same(s, t)
  OBVIOUS
<1>2. \A i \in 0 .. s.current : i \in 0 .. Roots - 1
  BY TopType
<1>3. \A i \in 0 .. s.current : t.slot[i].menu = s.slot[i].menu
      /\ t.slot[i].off = s.slot[i].off
  BY <1>1, <1>2 DEF Same
<1>4. s.current \in Nat /\ t.current = s.current /\ (s.lost => t.lost)
  BY <1>1, TopType DEF Same
<1>5. \A i \in 1 .. s.current : t.slot[i].off = s.slot[i].off
  BY <1>3, <1>4
<1>6. (NoEnds(s) => NoEnds(t)) /\ (Awake(s) => Awake(t))
  BY <1>1, <1>4, <1>5 DEF NoEnds, Awake, Same
<1>7. Stack(s) => Stack(t)
  BY <1>1, <1>3, StackOf DEF Same
<1>8. QED
  BY <1>1, <1>4, <1>6, <1>7 DEF Fine, Calm

\* Nothing that only moves the cursor or draws touches the stack.
LEMMA ViewKept ==
  ASSUME NEW s \in States, NEW t \in Views(s)
  PROVE  (Firm(s) => Kept(s, t) /\ Firm(t)) /\ (Fine(s) => Fine(t)) /\ (Calm(s) => Calm(t))
<1>1. t \in States /\ Same(s, t) /\ (Firm(s) => Firm(t))
  BY DEF Views
<1>2. Firm(t) => Seen(t)
  BY DEF Firm, Seen
<1>3. QED
  BY <1>1, <1>2, SameFine DEF Kept, Same

\* One slot more, or less.
Below(s, t, n) ==
  \A i \in 0 .. n : t.slot[i].menu = s.slot[i].menu /\ t.slot[i].off = s.slot[i].off
Pushed(s, t, menu, off) ==
  /\ t.current = s.current + 1 /\ Below(s, t, s.current)
  /\ t.slot[t.current].menu = menu /\ t.slot[t.current].off = off /\ (t.late <=> s.late)
\* A push keeps the invariant when it is made as the handlers make it.
LEMMA PushedStack ==
  ASSUME NEW s \in States, NEW t \in States, NEW menu, NEW off, Stack(s), Pushed(s, t, menu,
         off),
         off = "osd" => ~s.osd, t.osd <=> (s.osd \/ off = "osd"), t.osd => t.ui, t.late \/ t.ui,
         t.raw <=> (s.raw \/ off = "raw"), t.timing => (s.timing \/ off = "timer"),
         off \in Ends => NoEnds(s) /\ IsPage(menu), NoEnds(s) \/ (s.late /\ IsPage(menu))
  PROVE  Stack(t)
<1>1. s.current \in Nat /\ t.current = s.current + 1 /\ t.slot[t.current].menu = menu
      /\ t.slot[t.current].off = off
  BY TopType DEF Pushed
<1>2. \A i \in 1 .. t.current : i \in 1 .. s.current \/ i = t.current
  BY <1>1
<1>3. \A i \in 1 .. s.current : /\ t.slot[i].menu = s.slot[i].menu
      /\ t.slot[i].off = s.slot[i].off
                                /\ i \in 1 .. t.current /\ i # t.current
  BY <1>1 DEF Pushed, Below
<1>4. t.current \in 1 .. t.current
  BY <1>1
<1>5. \A x : On(t, x) <=> On(s, x) \/ off = x
  BY <1>1, <1>2, <1>3, <1>4 DEF On
<1>6. Rooted(t)
  BY <1>1 DEF Stack, Rooted, Pushed, Below
<1>7. OsdKept(t)
  <2>1. ~s.osd => \A i \in 1 .. s.current : s.slot[i].off # "osd"
    BY DEF Stack, OsdKept, On
  <2>2. t.osd <=> On(t, "osd")
    BY <1>5 DEF Stack, OsdKept
  <2>3. \A i, j \in 1 .. t.current : t.slot[i].off = "osd" /\ t.slot[j].off = "osd" => i = j
    BY <1>1, <1>2, <1>3, <2>1 DEF Stack, OsdKept
  <2>4. QED
    BY <2>2, <2>3 DEF OsdKept
<1>8. EndsKept(t)
  BY <1>5 DEF Stack, EndsKept
<1>9. EndsOnTop(t)
  <2> SUFFICES ASSUME NEW i \in 1 .. t.current, t.slot[i].off \in Ends
               PROVE  /\ \A j \in i .. t.current : IsPage(t.slot[j].menu)
                         /\ (j > i => t.slot[j].off \notin Ends)
                      /\ t.late \/ i = t.current
    BY DEF EndsOnTop
  <2>1. CASE i = t.current
    BY <1>1, <2>1
  <2>2. CASE i # t.current
    <3>1. i \in 1 .. s.current /\ s.slot[i].off \in Ends
      BY <1>2, <1>3, <2>2
    <3>2. ~NoEnds(s) /\ s.late /\ IsPage(menu) /\ off \notin Ends
      BY <3>1 DEF NoEnds
    <3>3. \A j \in i .. s.current : j \in 1 .. s.current /\ IsPage(s.slot[j].menu)
          /\ (j > i => s.slot[j].off \notin Ends)
      BY <1>1, <3>1 DEF Stack, EndsOnTop
    <3>4. \A j \in i .. t.current : j \in i .. s.current \/ j = t.current
      BY <1>1, <3>1
    <3>5. QED
      BY <1>1, <1>3, <3>2, <3>3, <3>4 DEF Pushed
  <2>3. QED
    BY <2>1, <2>2
<1>10. ClosedEmpty(t)
  BY DEF ClosedEmpty
<1>11. QED
  BY <1>6, <1>7, <1>8, <1>9, <1>10 DEF Stack

Popped(s, t) ==
  /\ s.current > 0 /\ t.current = s.current - 1 /\ Below(s, t, t.current)
  /\ (t.late <=> s.late) /\ (t.ui <=> s.ui)
\* A pop keeps it when the callback ends what the slot stands for.
LEMMA PoppedStack ==
  ASSUME NEW s \in States, NEW t \in States, Stack(s), Popped(s, t),
         t.osd <=> (s.osd /\ Top(s).off # "osd"),
         t.raw <=> (s.raw /\ Top(s).off # "raw"), t.timing => (s.timing /\ Top(s).off # "timer")
  PROVE  Stack(t) /\ Awake(t) /\ (NoEnds(s) \/ Top(s).off \in Ends => NoEnds(t))
<1>1. s.current \in Nat /\ t.current \in Nat /\ s.current > 0 /\ t.current = s.current - 1
      /\ s.current \in 1 .. s.current
  BY TopType DEF Popped
<1>2. \A i \in 1 .. s.current : i \in 1 .. t.current \/ i = s.current
  BY <1>1
<1>3. \A i \in 1 .. t.current : /\ t.slot[i].menu = s.slot[i].menu
      /\ t.slot[i].off = s.slot[i].off
                                /\ i \in 1 .. s.current /\ i # s.current
  BY <1>1 DEF Popped, Below
<1>4. Top(s) = s.slot[s.current]
  BY DEF Top
<1>5. \A x : On(s, x) <=> On(t, x) \/ Top(s).off = x
  BY <1>1, <1>2, <1>3, <1>4 DEF On
<1>6. Rooted(t)
  BY <1>1 DEF Stack, Rooted, Popped, Below
<1>7. OsdKept(t)
  <2>1. On(t, "osd") => Top(s).off # "osd"
    BY <1>1, <1>3, <1>4 DEF Stack, OsdKept, On
  <2>2. t.osd <=> On(t, "osd")
    BY <1>5, <2>1 DEF Stack, OsdKept
  <2>3. \A i, j \in 1 .. t.current : t.slot[i].off = "osd" /\ t.slot[j].off = "osd" => i = j
    BY <1>3 DEF Stack, OsdKept
  <2>4. QED
    BY <2>2, <2>3 DEF OsdKept, Stack, Popped
<1>8. ASSUME NEW i \in 1 .. t.current, t.slot[i].off \in Ends PROVE Top(s).off \notin Ends
      /\ s.late
  <2>1. i \in 1 .. s.current /\ s.slot[i].off \in Ends /\ s.current \in i .. s.current
        /\ s.current > i /\ i # s.current
    BY <1>1, <1>3, <1>8
  <2>2. QED
    BY <1>4, <2>1 DEF Stack, EndsOnTop
<1>9. EndsKept(t)
  <2>1. On(t, "raw") => Top(s).off # "raw"
    BY <1>8 DEF On, Ends
  <2>2. QED
    BY <1>5, <2>1 DEF Stack, EndsKept
<1>10. EndsOnTop(t)
  <2>1. \A i \in 1 .. t.current : \A j \in i .. t.current : j \in i .. s.current
        /\ j \in 1 .. t.current
    BY <1>1
  <2>2. QED
    BY <1>3, <1>8, <2>1 DEF Stack, EndsOnTop, Popped
<1>11. Awake(t) /\ ClosedEmpty(t)
  BY <1>1 DEF Awake, ClosedEmpty, Stack, Popped
<1>12. NoEnds(s) \/ Top(s).off \in Ends => NoEnds(t)
  BY <1>3, <1>8 DEF NoEnds
<1>13. QED
  BY <1>6, <1>7, <1>9, <1>10, <1>11, <1>12 DEF Stack

(***************************************************************************)
(* Pushing, popping and dialogs                                            *)
(***************************************************************************)
Fresh(slot, menu, off, rows) ==
  [slot EXCEPT !.menu = menu, !.off = off, !.open = {}, !.item = 0, !.blind = FALSE,
               !.cursor = 0, !.top = 0, !.bottom = rows]
IsNew(slot, menu) ==
  /\ slot.item = 0 /\ ~slot.blind /\ slot.cursor = 0 /\ slot.top = 0
  /\ slot.bottom = Menus[menu].rows
\* ui_push_menu: what the new slot has.
LEMMA NewSlot ==
  ASSUME NEW slot \in Slots, NEW menu \in DOMAIN Menus, NEW off \in Offs
  PROVE  /\ Fresh(slot, menu, off, Menus[menu].rows) \in Slots
         /\ Fresh(slot, menu, off, Menus[menu].rows).menu = menu
         /\ Fresh(slot, menu, off, Menus[menu].rows).off = off
         /\ IsNew(Fresh(slot, menu, off, Menus[menu].rows), menu)
         /\ InView(Fresh(slot, menu, off, Menus[menu].rows))
<1> DEFINE rows == Menus[menu].rows
           none == {}
           no == FALSE
           zero == 0
           a == [slot EXCEPT !.menu = menu, !.off = off, !.open = none, !.item = zero, !.blind = no]
           b == Moved(a, zero, zero, rows)
           Shape == [menu : DOMAIN Menus \cup {"none"}, off : {"none", "osd"} \cup Ends, open : SUBSET Nat,
                     item : Nat, blind : BOOLEAN, listener : FileLists \cup {"none"},
                     cursor : Int, top : Int, bottom : Int, max : Int]
<1>1. rows \in Nat \ {0}
  BY MenuAssumption DEF IsMenu
<1>2. none \in SUBSET Nat /\ no \in BOOLEAN /\ zero \in Nat
  OBVIOUS
<1>3. Fresh(slot, menu, off, rows) = b
  BY DEF Fresh, Moved
<1> HIDE DEF rows, none, no, zero
<1>4. a \in Shape /\ a.menu = menu /\ a.off = off /\ a.item = zero /\ a.blind = no
  BY <1>2 DEF Slots, Offs
<1> HIDE DEF a
<1>5. a \in Slots
  BY <1>4 DEF Slots, zero
<1>6. b \in Slots /\ b.menu = menu /\ b.off = off /\ b.item = 0
  BY <1>1, <1>2, <1>4, <1>5, MovedSlot DEF zero
<1>7. b.cursor = 0 /\ b.top = 0 /\ b.bottom = rows /\ ~b.blind
  <2>1. b.cursor = zero /\ b.top = zero /\ b.bottom = rows /\ b.blind = a.blind
    BY <1>5 DEF Moved, Slots
  <2>2. ~a.blind
    BY <1>4 DEF no
  <2>3. QED
    BY <2>1, <2>2 DEF zero
<1> HIDE DEF b
<1>8. InView(b)
  BY <1>1, <1>6, <1>7, CountPositive DEF InView, InWindow
<1>9. QED
  BY <1>3, <1>6, <1>7, <1>8 DEF rows, IsNew

SameFlags(s, t) ==
  /\ (t.ui <=> s.ui) /\ (t.osd <=> s.osd) /\ (t.raw <=> s.raw) /\ (t.timing <=> s.timing)
  /\ (t.late <=> s.late)

\* ui_push_menu: the slots below are left alone.
LEMMA PushKept ==
  ASSUME NEW s \in States, NEW menu \in DOMAIN Menus, NEW off \in Offs
  PROVE  /\ Kept(s, Push(s, menu, off)) /\ SameFlags(s, Push(s, menu, off))
         /\ Push(s, menu, off).lost
            \/ (Pushed(s, Push(s, menu, off), menu, off) /\ IsNew(Top(Push(s, menu, off)), menu))
         /\ s.current + 1 < Roots => (Push(s, menu, off).lost <=> s.lost)
<1> DEFINE n == s.current + 1
           new == Fresh(s.slot[n], menu, off, Menus[menu].rows)
           t == [s EXCEPT !.current = n, !.slot[n] = new]
<1>0. Roots \in Nat /\ s.current \in 0 .. Roots - 1 /\ s.slot \in [0 .. Roots - 1 -> Slots]
  BY TopType
<1>1. CASE n >= Roots
  <2>1. Push(s, menu, off) = [s EXCEPT !.lost = TRUE]
    BY <1>1 DEF Push
  <2>2. [s EXCEPT !.lost = TRUE] \in States
    BY LostOf DEF Lost
  <2>3. ~(s.current + 1 < Roots)
    BY <1>0, <1>1
  <2>4. QED
    BY <2>1, <2>2, <2>3 DEF Kept, SameFlags, States, Seen
<1>2. CASE ~(n >= Roots)
  <2>1. Push(s, menu, off) = t
    BY <1>2 DEF Push, Fresh
  <2>2. n \in 0 .. Roots - 1 /\ n \notin 0 .. s.current
        /\ \A i \in 0 .. n : i \in 0 .. s.current \/ i = n
    BY <1>0, <1>2
  <2>3. new \in Slots /\ new.menu = menu /\ new.off = off /\ IsNew(new, menu) /\ InView(new)
    <3>1. s.slot[n] \in Slots
      BY <1>0, <2>2
    <3>2. QED
      BY <3>1, NewSlot
  <2> HIDE DEF new
  <2>4. /\ t.current = n /\ t.slot = [s.slot EXCEPT ![n] = new] /\ t.lost = s.lost
           /\ t.value = s.value
        /\ t.ui = s.ui /\ t.osd = s.osd /\ t.raw = s.raw /\ t.timing = s.timing
           /\ t.late = s.late
    BY DEF States
  <2>5. t.slot[n] = new /\ \A i \in 0 .. s.current : t.slot[i] = s.slot[i]
    BY <1>0, <2>2, <2>4
  <2>6. t \in [slot : [0 .. Roots - 1 -> Slots], current : 0 .. Roots - 1, ui : BOOLEAN, osd : BOOLEAN,
               entered : BOOLEAN, value : Values, dirPos : [FileLists -> Int],
               raw : BOOLEAN, timing : BOOLEAN, lost : BOOLEAN, late : BOOLEAN]
    BY <2>2, <2>3 DEF States
  <2> HIDE DEF t
  <2>7. \A i \in 0 .. t.current : t.slot[i].menu \in DOMAIN Menus
    <3>1. \A i \in 0 .. s.current : s.slot[i].menu \in DOMAIN Menus
      BY DEF States
    <3>2. QED
      BY <2>2, <2>3, <2>4, <2>5, <3>1
  <2>8. t \in States
    BY <2>6, <2>7 DEF States
  <2>9. Pushed(s, t, menu, off)
    BY <2>3, <2>4, <2>5 DEF Pushed, Below
  <2>10. Seen(s) => Seen(t)
    <3>1. \A i \in 0 .. t.current : t.slot[i] = new \/ (i \in 0 .. s.current /\ t.slot[i] = s.slot[i])
      BY <2>2, <2>4, <2>5
    <3>2. QED
      BY <2>3, <2>4, <3>1 DEF Seen
  <2>11. QED
    BY <2>1, <2>3, <2>4, <2>5, <2>8, <2>9, <2>10 DEF Kept, SameFlags, Top
<1>3. QED
  BY <1>1, <1>2

LEMMA NoEndsPushed ==
  ASSUME NEW s \in States, NEW t, NEW menu, NEW off, Pushed(s, t, menu, off), NoEnds(s),
         off \notin Ends
  PROVE  NoEnds(t)
<1>1. s.current \in Nat /\ t.current = s.current + 1
  BY TopType DEF Pushed
<1>2. \A i \in 1 .. t.current : i = t.current \/ (i \in 1 .. s.current /\ i \in 0 .. s.current)
  BY <1>1
<1>3. QED
  BY <1>2 DEF NoEnds, Pushed, Below

\* A menu without a callback may be pushed whenever a script runs.
LEMMA PushCalm ==
  ASSUME NEW s \in States, Calm(s), NEW menu \in DOMAIN Menus
  PROVE  Calm(Push(s, menu, "none"))
<1> DEFINE t == Push(s, menu, "none")
<1>1. Kept(s, t) /\ SameFlags(s, t) /\ (t.lost \/ Pushed(s, t, menu, "none")) /\ t \in States
  BY PushKept DEF Offs, Kept
<1> HIDE DEF t
<1>2. ASSUME ~t.lost PROVE Stack(t) /\ NoEnds(t) /\ Awake(t)
  <2>1. Stack(s) /\ NoEnds(s) /\ Awake(s) /\ Pushed(s, t, menu, "none")
    BY <1>1, <1>2 DEF Calm, Kept
  <2>2. Awake(t) /\ (t.osd => t.ui)
    BY <1>1, <2>1 DEF Awake, SameFlags, Stack, OsdKept
  <2>3. Stack(t)
    BY <1>1, <2>1, <2>2, PushedStack DEF SameFlags, Awake, Ends
  <2>4. QED
    BY <2>1, <2>2, <2>3, NoEndsPushed DEF Ends
<1>3. QED
  BY <1>2 DEF Calm, t

\* A menu that is pushed as an OSD when the UI is off.
LEMMA OsdOpened ==
  ASSUME NEW s \in States, NEW menu \in DOMAIN Menus, ~s.ui
  PROVE  LET t == EnableOsd(Push(s, menu, "osd"))
         IN  /\ Kept(s, t) /\ (Fine(s) /\ IsPage(menu) => Fine(t)) /\ (Calm(s) => Calm(t))
             /\ t.lost \/ t.current = s.current + 1
<1> DEFINE p == Push(s, menu, "osd")
           t == EnableOsd(p)
<1>1. Kept(s, p) /\ SameFlags(s, p) /\ (p.lost \/ Pushed(s, p, menu, "osd")) /\ p \in States
  BY PushKept DEF Offs, Kept
<1> HIDE DEF p
<1>2. /\ t \in States /\ t.ui /\ t.osd /\ t.raw = p.raw /\ t.timing = p.timing
         /\ t.late = p.late
      /\ t.lost = p.lost /\ t.value = p.value /\ t.current = p.current /\ t.slot = p.slot
  BY <1>1 DEF EnableOsd, States
<1> HIDE DEF t
<1>3. Kept(s, t) /\ (t.lost \/ Pushed(s, t, menu, "osd"))
  <2>1. Kept(p, t)
    BY <1>2, KeptOf
  <2>2. Kept(s, t)
    BY <1>1, <2>1, KeptTransitive
  <2>3. QED
    BY <1>1, <1>2, <2>2 DEF Pushed, Below
<1>4. ASSUME ~t.lost, Stack(s), NoEnds(s) \/ IsPage(menu)
      PROVE  Stack(t) /\ (NoEnds(s) => NoEnds(t)) /\ Awake(t)
  <2>1. Pushed(s, t, menu, "osd") /\ ~s.osd /\ (NoEnds(s) \/ s.late)
    <3>1. s.late \/ s.current = 0
      BY <1>4 DEF Stack, ClosedEmpty
    <3>2. s.current = 0 => NoEnds(s)
      BY DEF NoEnds
    <3>3. QED
      BY <1>3, <1>4, <3>1, <3>2 DEF Stack, OsdKept
  <2>2. (t.raw <=> s.raw) /\ (t.timing <=> s.timing)
    BY <1>1, <1>2 DEF SameFlags
  <2>3. Stack(t)
    BY <1>2, <1>4, <2>1, <2>2, PushedStack DEF Ends
  <2>4. QED
    BY <1>2, <2>1, <2>3, NoEndsPushed DEF Awake, Ends
<1>5. QED
  BY <1>3, <1>4 DEF Fine, Calm, Kept, Pushed, t, p

\* What is drawn at once is the stack as it is.
LEMMA AtOnceFine ==
  ASSUME NEW s \in States
  PROVE  /\ AtOnce(s) \in States /\ Same(s, AtOnce(s)) /\ Kept(s, AtOnce(s))
         /\ (Fine(s) => Fine(AtOnce(s))) /\ (Calm(s) => Calm(AtOnce(s)))
         /\ Seen(s) /\ ~s.lost => Shown(Top(AtOnce(s)))
<1> DEFINE t == AtOnce(s)
<1>1. CASE s.lost
  <2>1. t = s
    BY <1>1 DEF AtOnce
  <2>2. QED
    BY <1>1, <2>1, SameReflexive, SameFine DEF Kept
<1>2. CASE ~s.lost
  <2>1. t \in DrawnTo(s, s.current + 1)
    BY <1>2, DrawnAllShown DEF AtOnce
  <2> HIDE DEF t
  <2>2. t \in States /\ Same(s, t)
    BY <2>1 DEF DrawnTo
  <2>3. Seen(s) => Seen(t) /\ Shown(Top(t))
    <3>1. t.current = s.current /\ s.current \in Nat /\ s.current \in 0 .. (s.current + 1) - 1
      BY <2>2, TopType DEF Same
    <3>2. QED
      BY <1>2, <2>1, <3>1 DEF DrawnTo, Top
  <2>4. Kept(s, t)
    BY <2>2, <2>3 DEF Kept, Same
  <2>5. QED
    BY <2>2, <2>3, <2>4, SameFine DEF t
<1>3. QED
  BY <1>1, <1>2

\* ui_info and ui_error, whether the UI is on or off, and ui_confirm_wrapped.
Opened(s) ==
  {t \in States : /\ Kept(s, t) /\ (Calm(s) => Calm(t)) /\ (t.lost \/ t.current = s.current + 1)
                  /\ Seen(s) => t.lost \/ Shown(Top(t))}

LEMMA AtOnceOpened ==
  ASSUME NEW s \in States, NEW p, Kept(s, p), Calm(s) => Calm(p), p.lost \/ p.current = s.current + 1
  PROVE  AtOnce(p) \in Opened(s)
<1>1. p \in States
  BY DEF Kept
<1>2. /\ AtOnce(p) \in States /\ Kept(p, AtOnce(p)) /\ (Calm(p) => Calm(AtOnce(p)))
      /\ (AtOnce(p).lost <=> p.lost) /\ AtOnce(p).current = p.current
      /\ Seen(p) => p.lost \/ Shown(Top(AtOnce(p)))
  BY <1>1, AtOnceFine DEF Same
<1>3. Kept(s, AtOnce(p))
  BY <1>2, KeptTransitive
<1>4. QED
  BY <1>2, <1>3 DEF Opened, Kept

LEMMA DialogCalm ==
  ASSUME NEW s \in States
  PROVE  Dialog(s) \in Opened(s)
<1>1. "dialog" \in DOMAIN Menus
  BY MenuAssumption
<1>2. CASE s.ui
  <2>1. Dialog(s) = AtOnce(Push(s, "dialog", "none"))
    BY <1>2 DEF Dialog
  <2>2. QED
    BY <1>1, <2>1, PushKept, PushCalm, AtOnceOpened DEF Offs, Pushed
<1>3. CASE ~s.ui
  <2>1. Dialog(s) = AtOnce(EnableOsd(Push(s, "dialog", "osd")))
    BY <1>3 DEF Dialog
  <2>2. QED
    BY <1>1, <1>3, <2>1, OsdOpened, AtOnceOpened
<1>4. QED
  BY <1>2, <1>3

LEMMA ConfirmCalm ==
  ASSUME NEW s \in States, NEW menu \in DOMAIN Menus
  PROVE  Confirm(s, menu) \in Opened(s)
  BY PushKept, PushCalm, AtOnceOpened DEF Confirm, Offs, Pushed

\* A stack pops within as many steps as it is high, and one more for the page
\* that the end of the time test puts in the place of its own.
Weight(s) == s.current + IF On(s, "timer") THEN 1 ELSE 0

\* What ui_pop_menu leaves of a slot.
LEMMA SlotLeft ==
  ASSUME NEW slot \in Slots
  PROVE  Left(slot) \in Slots
<1> DEFINE none == {}
           no == FALSE
           unused == [menu |-> "none", off |-> "none", open |-> none, item |-> 0, blind |-> no,
                      listener |-> "none", cursor |-> 0, top |-> 0, bottom |-> 0, max |-> 0]
<1>1. none \in SUBSET Nat /\ no \in BOOLEAN
  OBVIOUS
<1>2. NoSlot = unused
  BY DEF NoSlot
<1> HIDE DEF none, no
<1>3. unused \in Slots /\ unused.item = 0
  BY <1>1 DEF Slots
<1> HIDE DEF unused
<1>4. [unused EXCEPT !.max = slot.max, !.listener = slot.listener] \in Slots
  BY <1>3 DEF Slots
<1>5. QED
  BY <1>2, <1>4 DEF Left

Dropped(s) == [s EXCEPT !.current = @ - 1, !.slot[s.current] = Left(@)]
LEMMA PopStep ==
  ASSUME NEW s \in States, s.current > 0
  PROVE  Kept(s, Dropped(s)) /\ SameFlags(s, Dropped(s)) /\ Popped(s, Dropped(s))
         /\ Dropped(s).lost = s.lost
<1> DEFINE n == s.current
           t == [s EXCEPT !.current = n - 1, !.slot[n] = Left(s.slot[n])]
<1>1. /\ Roots \in Nat /\ n \in 0 .. Roots - 1 /\ n - 1 \in 0 .. Roots - 1
         /\ s.slot \in [0 .. Roots - 1 -> Slots]
      /\ n \notin 0 .. n - 1 /\ \A i \in 0 .. n - 1 : i \in 0 .. n /\ i \in 0 .. Roots - 1
  BY TopType
<1>2. Left(s.slot[n]) \in Slots
  BY <1>1, SlotLeft
<1>3. /\ t.current = n - 1 /\ t.slot = [s.slot EXCEPT ![n] = Left(s.slot[n])]
         /\ t.lost = s.lost /\ t.value = s.value
      /\ t.ui = s.ui /\ t.osd = s.osd /\ t.raw = s.raw /\ t.timing = s.timing
         /\ t.late = s.late
  BY DEF States
<1>4. \A i \in 0 .. n - 1 : t.slot[i] = s.slot[i] /\ s.slot[i].menu \in DOMAIN Menus
  BY <1>1, <1>3 DEF States
<1>5. t \in [slot : [0 .. Roots - 1 -> Slots], current : 0 .. Roots - 1, ui : BOOLEAN, osd : BOOLEAN,
             entered : BOOLEAN, value : Values, dirPos : [FileLists -> Int],
             raw : BOOLEAN, timing : BOOLEAN, lost : BOOLEAN, late : BOOLEAN]
  BY <1>1, <1>2 DEF States
<1>6. Dropped(s) = t
  BY DEF Dropped
<1> HIDE DEF t
<1>7. t \in States
  BY <1>3, <1>4, <1>5 DEF States
<1>8. Kept(s, t) /\ SameFlags(s, t) /\ Popped(s, t) /\ t.lost = s.lost
  <2>1. Seen(s) => Seen(t)
    BY <1>1, <1>3, <1>4 DEF Seen
  <2>2. QED
    BY <1>3, <1>4, <1>7, <2>1 DEF Kept, SameFlags, Popped, Below
<1>9. QED
  BY <1>6, <1>8

\* ui_pop_menu with its callback, which may push.
LEMMA PopFine ==
  ASSUME NEW s \in States, NEW t \in Pop(s)
  PROVE  /\ Kept(s, t) /\ (Calm(s) => Calm(t))
         /\ Fine(s) => t.lost \/ (Stack(t) /\ Weight(t) < Weight(s))
<1>1. CASE s.current = 0
  <2>1. t = [s EXCEPT !.lost = TRUE]
    BY <1>1 DEF Pop
  <2>2. t \in States
    BY <2>1, LostOf DEF Lost
  <2>3. t.lost /\ t.value = s.value
    BY <2>1 DEF States
  <2>4. QED
    BY <2>2, <2>3 DEF Kept, Calm, Seen
<1>2. CASE s.current # 0
  <2> DEFINE p == Dropped(s)
             off == Top(s).off
  <2>1. s.current \in Nat /\ s.current > 0 /\ s.current \in 1 .. s.current /\ off \in Offs
        /\ off = s.slot[s.current].off
    BY <1>2, TopType DEF Slots, Offs, Top
  <2>2. Kept(s, p) /\ SameFlags(s, p) /\ Popped(s, p) /\ p.lost = s.lost /\ p \in States
        /\ p.current \in Nat
    BY <2>1, PopStep, TopType DEF Kept
  <2>3. t \in PoppedOff(p, off)
    BY <1>2 DEF Pop, Dropped
  <2> HIDE DEF p, off
  <2>4. ASSUME NEW q \in States, Kept(p, q), q.lost = p.lost, q.current = p.current, q.slot = p.slot,
               (q.late <=> p.late), (q.ui <=> p.ui), (q.osd <=> p.osd /\ off # "osd"),
               (q.raw <=> p.raw /\ off # "raw"), (q.timing <=> p.timing /\ off # "timer")
        PROVE  /\ Kept(s, q) /\ (Calm(s) => Calm(q))
               /\ Fine(s) => q.lost \/ (Stack(q) /\ Weight(q) < Weight(s))
               /\ Fine(s) /\ off \in Ends => Calm(q)
    <3>1. Popped(s, q) /\ (q.lost <=> s.lost)
      BY <2>2, <2>4 DEF Popped, Below
    <3>2. ASSUME Stack(s) PROVE Stack(q) /\ Awake(q)
          /\ (NoEnds(s) \/ off \in Ends => NoEnds(q))
      BY <2>2, <2>4, <3>1, <3>2, PoppedStack DEF SameFlags, off
    <3>3. Weight(q) < Weight(s)
      <4>1. On(q, "timer") => On(s, "timer")
        <5>1. \A i \in 1 .. q.current : i \in 0 .. q.current /\ i \in 1 .. s.current
          BY <2>1, <3>1 DEF Popped
        <5>2. QED
          BY <3>1, <5>1 DEF On, Popped, Below
      <4>2. q.current = s.current - 1
        BY <3>1 DEF Popped
      <4>3. QED
        BY <2>1, <4>1, <4>2 DEF Weight
    <3>4. QED
      BY <2>2, <2>4, <3>1, <3>2, <3>3, KeptTransitive DEF Fine, Calm
  <2>5. CASE off = "osd"
    <3>1. t = DisableOsd(p)
      BY <2>3, <2>5 DEF PoppedOff
    <3>2. /\ t \in States /\ ~t.osd /\ t.ui = p.ui /\ t.raw = p.raw /\ t.timing = p.timing
             /\ t.late = p.late
          /\ t.lost = p.lost /\ t.value = p.value /\ t.current = p.current /\ t.slot = p.slot
      BY <2>2, <3>1 DEF DisableOsd, States
    <3>3. Kept(p, t)
      BY <3>2, KeptOf
    <3>4. QED
      BY <2>4, <2>5, <3>2, <3>3
  <2>6. CASE off = "raw"
    <3>1. t = [p EXCEPT !.raw = FALSE]
      BY <2>3, <2>6 DEF PoppedOff
    <3>2. /\ t \in States /\ t.osd = p.osd /\ t.ui = p.ui /\ ~t.raw /\ t.timing = p.timing
             /\ t.late = p.late
          /\ t.lost = p.lost /\ t.value = p.value /\ t.current = p.current /\ t.slot = p.slot
      BY <2>2, <3>1 DEF States
    <3>3. Kept(p, t)
      BY <3>2, KeptOf
    <3>4. QED
      BY <2>4, <2>6, <3>2, <3>3
  <2>7. CASE off = "timer" /\ p.timing
    <3>1. t = [p EXCEPT !.timing = FALSE]
      BY <2>3, <2>7 DEF PoppedOff
    <3>2. /\ t \in States /\ t.osd = p.osd /\ t.ui = p.ui /\ t.raw = p.raw /\ ~t.timing
             /\ t.late = p.late
          /\ t.lost = p.lost /\ t.value = p.value /\ t.current = p.current /\ t.slot = p.slot
      BY <2>2, <3>1 DEF States
    <3>3. Kept(p, t)
      BY <3>2, KeptOf
    <3>4. QED
      BY <2>4, <2>7, <3>2, <3>3
  <2>8. CASE off = "timer" /\ ~p.timing
    <3>1. t \in {Push(p, "result", "none"), Dialog(p)}
      BY <2>3, <2>8 DEF PoppedOff
    <3>2. Kept(p, p)
      BY <2>2 DEF Kept
    <3>3. Fine(s) => Calm(p)
      BY <2>2, <2>4, <2>8, <3>2 DEF Ends
    <3>4. Kept(p, t) /\ (t.lost \/ t.current = p.current + 1) /\ (Calm(p) => Calm(t))
      <4>1. "result" \in DOMAIN Menus /\ "none" \in Offs
        BY MenuAssumption DEF Offs
      <4>2. QED
        BY <2>2, <3>1, <4>1, PushKept, PushCalm, DialogCalm DEF Pushed, Opened
    <3>5. ASSUME Fine(s), ~t.lost PROVE Stack(t) /\ Weight(t) < Weight(s)
      <4>1. Stack(t) /\ NoEnds(t)
        BY <3>3, <3>4, <3>5 DEF Calm
      <4>2. ~On(t, "timer")
        BY <4>1 DEF NoEnds, On, Ends
      <4>3. On(s, "timer")
        BY <2>1, <2>8 DEF On
      <4>4. t.current = s.current
        BY <2>1, <2>2, <3>4, <3>5 DEF Popped
      <4>5. QED
        BY <2>1, <4>1, <4>2, <4>3, <4>4 DEF Weight
    <3>6. Calm(s) => Fine(s)
      BY DEF Calm, Fine
    <3>7. QED
      BY <2>2, <3>3, <3>4, <3>5, <3>6, KeptTransitive
  <2>9. CASE off = "none"
    <3>1. t = p
      BY <2>3, <2>9 DEF PoppedOff
    <3>2. Kept(p, p)
      BY <2>2 DEF Kept
    <3>3. QED
      BY <2>2, <2>4, <2>9, <3>1, <3>2
  <2>10. QED
    BY <2>1, <2>5, <2>6, <2>7, <2>8, <2>9 DEF Offs, Ends
<1>3. QED
  BY <1>1, <1>2

\* What a pop leaves on top was drawn, or is the result of the time test.
LEMMA PopShown ==
  ASSUME NEW s \in States, NEW t \in Pop(s), Seen(s), \A i \in 0 .. s.current : Shown(s.slot[i])
  PROVE  t.lost \/ Shown(Top(t)) \/ NewResult(Top(t))
<1>1. s.current \in Nat
  BY TopType
<1>2. CASE s.current = 0
  <2>1. t \in Lost(s)
    BY <1>2, LostOf DEF Pop
  <2>2. QED
    BY <2>1 DEF Lost
<1>3. CASE s.current # 0
  <2> DEFINE p == Dropped(s)
  <2>1. p \in States /\ Kept(s, p) /\ p.current = s.current - 1
        /\ p.slot = [s.slot EXCEPT ![s.current] = Left(s.slot[s.current])]
    <3>1. Kept(s, p)
      BY <1>1, <1>3, PopStep
    <3>2. p = [s EXCEPT !.current = s.current - 1, !.slot = [s.slot EXCEPT ![s.current] = Left(s.slot[s.current])]]
      BY DEF Dropped, States
    <3>3. QED
      BY <3>1, <3>2 DEF States, Kept
  <2>2. t \in PoppedOff(p, Top(s).off)
    BY <1>3 DEF Pop, Dropped
  <2> HIDE DEF p
  <2>3. Shown(Top(p)) /\ Seen(p)
    <3>1. s.current - 1 \in 0 .. Roots - 1 /\ s.current - 1 \in 0 .. s.current
          /\ s.current - 1 # s.current
      BY <1>1, <1>3, TopType
    <3>2. Top(p) = s.slot[s.current - 1]
      BY <2>1, <3>1, TopType DEF Top
    <3>3. QED
      BY <2>1, <3>1, <3>2 DEF Kept
  <2>4. CASE t = Dialog(p)
    BY <2>1, <2>3, <2>4, DialogCalm DEF Opened
  <2>5. CASE t = Push(p, "result", "none")
    <3>1. "result" \in DOMAIN Menus /\ "none" \in Offs
      BY MenuAssumption DEF Offs
    <3>2. t.lost \/ (Pushed(p, t, "result", "none") /\ Top(t).item = 0)
      BY <2>1, <2>5, <3>1, PushKept DEF IsNew
    <3>3. QED
      BY <3>2 DEF Pushed, NewResult, Top
  <2>6. CASE ~(t \in {Push(p, "result", "none"), Dialog(p)})
    <3>1. t \in {p, DisableOsd(p), [p EXCEPT !.raw = FALSE], [p EXCEPT !.timing = FALSE]}
      BY <2>2, <2>6 DEF PoppedOff
    <3>2. t.slot = p.slot /\ t.current = p.current
      BY <2>1, <3>1 DEF DisableOsd, States
    <3>3. QED
      BY <2>3, <3>2 DEF Top
  <2>7. QED
    BY <2>4, <2>5, <2>6
<1>4. QED
  BY <1>2, <1>3

\* ui_pop_all_and_toggle leaves an empty stack.
LEMMA ToggleFine ==
  ASSUME NEW s \in States
  PROVE  /\ Kept(s, Toggle(s)) /\ Toggle(s).current = s.current
         /\ Fine(s) /\ (s.lost \/ s.current = 0) => Fine(Toggle(s))
<1> DEFINE t == Toggle(s)
           on == ~s.ui
<1>1. on \in BOOLEAN /\ FALSE \in BOOLEAN
  BY Zenon
<1>2. t = [s EXCEPT !.ui = on, !.entered = on, !.late = FALSE]
  BY DEF Toggle
<1> HIDE DEF on
<1>3. t \in States
  BY <1>1, <1>2 DEF States
<1>4. /\ ~t.late /\ t.ui = on /\ t.osd = s.osd /\ t.raw = s.raw /\ t.timing = s.timing
         /\ t.lost = s.lost
      /\ t.value = s.value /\ t.current = s.current /\ t.slot = s.slot
  BY <1>2 DEF States
<1> HIDE DEF t
<1>5. ASSUME Stack(s), s.current = 0 PROVE Stack(t)
  <2>1. ~On(s, "osd") /\ ~On(s, "raw") /\ ~On(s, "timer")
    BY <1>5 DEF On
  <2>2. ~On(t, "osd") /\ ~On(t, "raw") /\ ~On(t, "timer") /\ t.current = 0
    BY <1>4, <1>5 DEF On
  <2>3. ~t.osd /\ ~t.raw /\ ~t.timing
    BY <1>4, <1>5, <2>1 DEF Stack, OsdKept, EndsKept
  <2>4. QED
    BY <1>4, <1>5, <2>2, <2>3 DEF Stack, Rooted, OsdKept, EndsKept, EndsOnTop, ClosedEmpty
<1>6. Kept(s, t)
  BY <1>3, <1>4, KeptOf
<1>7. QED
  BY <1>4, <1>5, <1>6 DEF Fine, t

\* What the stack of s may be after i of the pops that empty it.
Emptied(s, i) ==
  {t \in States : Kept(s, t) /\ (Fine(s) => t.lost \/ (Stack(t) /\ Weight(t) <= (IF i < Roots THEN Roots - i ELSE 0)))}

LEMMA WeightType ==
  ASSUME NEW s \in States
  PROVE  Weight(s) \in Nat /\ Weight(s) >= s.current /\ Weight(s) <= Roots
         /\ (s.current = 0 => Weight(s) = 0)
<1>1. s.current \in 0 .. Roots - 1 /\ Roots \in Nat
  BY TopType
<1>2. s.current = 0 => ~On(s, "timer")
  BY DEF On
<1>3. QED
  BY <1>1, <1>2 DEF Weight

\* ui_pop_all_and_toggle ends what it has to and leaves an empty stack.
LEMMA PopAllFine ==
  ASSUME NEW s \in States, NEW u \in PopAllAndToggle(s)
  PROVE  Kept(s, u) /\ (Fine(s) => Fine(u) /\ (u.lost \/ u.current = 0))
<1> DEFINE D == [i \in Nat |-> SUBSET Emptied(s, i)]
           n == 2 * Roots
           only == {s}
<1>1. n \in Int /\ n \in Nat /\ n > 0 /\ Roots \in Nat /\ n >= Roots
  BY MenuAssumption
<1>2. only \in D[0]
  <2>1. Kept(s, s)
    BY DEF Kept
  <2>2. s \in Emptied(s, 0)
    BY <1>1, <2>1, WeightType DEF Emptied, Fine
  <2>3. QED
    BY <2>2
<1>3. ASSUME NEW i \in 1 .. n, NEW states \in D[i - 1] PROVE AfterPop(states) \in D[i]
  <2>1. i \in Nat /\ i - 1 \in Nat /\ i > 0
    BY <1>1
  <2>2. ASSUME NEW x \in Emptied(s, i - 1), NEW y \in (IF x.current > 0 THEN Pop(x) ELSE {x}) PROVE y \in Emptied(s, i)
    <3>1. x \in States /\ Kept(s, x) /\ x.current \in Nat
      BY TopType DEF Emptied
    <3>2. CASE x.current > 0
      <4>1. y \in Pop(x)
        BY <2>2, <3>2
      <4>2. Kept(x, y) /\ (Fine(x) => y.lost \/ (Stack(y) /\ Weight(y) < Weight(x)))
            /\ y \in States
        BY <3>1, <4>1, PopFine DEF Kept
      <4>3. Kept(s, y)
        BY <3>1, <4>2, KeptTransitive
      <4>4. ASSUME Fine(s), ~y.lost PROVE Stack(y)
            /\ Weight(y) <= (IF i < Roots THEN Roots - i ELSE 0)
        <5>1. ~x.lost
          BY <4>2, <4>4 DEF Kept
        <5>2. Stack(x) /\ Weight(x) <= (IF i - 1 < Roots THEN Roots - (i - 1) ELSE 0)
          BY <2>2, <4>4, <5>1 DEF Emptied
        <5>3. Stack(y) /\ Weight(y) < Weight(x)
          BY <4>2, <4>4, <5>2 DEF Fine
        <5>4. QED
          BY <1>1, <2>1, <3>1, <4>2, <5>2, <5>3, WeightType
      <4>5. QED
        BY <4>2, <4>3, <4>4 DEF Emptied
    <3>3. CASE ~(x.current > 0)
      <4>1. y = x /\ x.current = 0
        BY <2>2, <3>1, <3>3
      <4>2. Weight(x) = 0
        BY <3>1, <4>1, WeightType
      <4>3. Fine(s) => x.lost \/ Stack(x)
        BY <2>2 DEF Emptied
      <4>4. 0 <= (IF i < Roots THEN Roots - i ELSE 0)
        BY <1>1, <2>1
      <4>5. QED
        BY <3>1, <4>1, <4>2, <4>3, <4>4 DEF Emptied
    <3>4. QED
      BY <3>2, <3>3
  <2>3. states \in SUBSET Emptied(s, i - 1)
    BY <1>3, <2>1
  <2>4. AfterPop(states) \in SUBSET Emptied(s, i)
    BY <2>2, <2>3 DEF AfterPop
  <2>5. QED
    BY <2>1, <2>4
<1>4. Times(n, AfterPop, only) \in D[IF n > 0 THEN n ELSE 0]
  <2> HIDE DEF D, n, only
  <2>1. \A i \in 1 .. n : \A t \in D[i - 1] : AfterPop(t) \in D[i]
    BY <1>3
  <2>2. QED
    BY <1>1, <1>2, <2>1, PopLoop
<1>5. Times(n, AfterPop, only) \in SUBSET Emptied(s, n)
  BY <1>1, <1>4
<1>6. PICK t \in Emptied(s, n) : u = Toggle(t)
  <2>1. PICK t \in Times(n, AfterPop, only) : u = Toggle(t)
    BY DEF PopAllAndToggle
  <2>2. QED
    BY <1>5, <2>1
<1>7. t \in States /\ Kept(s, t) /\ Kept(t, u)
  BY <1>6, ToggleFine DEF Emptied
<1>8. ASSUME Fine(s) PROVE Fine(u) /\ (u.lost \/ u.current = 0)
  <2>1. t.lost \/ (Stack(t) /\ Weight(t) <= 0)
    BY <1>1, <1>6, <1>8 DEF Emptied
  <2>2. t.lost \/ (Stack(t) /\ t.current = 0)
    BY <1>7, <2>1, WeightType, TopType
  <2>3. QED
    BY <1>6, <1>7, <2>2, ToggleFine DEF Fine, Kept
<1>9. QED
  BY <1>7, <1>8, KeptTransitive

(***************************************************************************)
(* The handlers                                                            *)
(***************************************************************************)
\* glob_osd_popped
LEMMA DisableKept ==
  ASSUME NEW s \in States
  PROVE  Kept(s, DisableOsd(s))
         /\ (Fine(s) /\ (s.lost \/ s.current = 0) => Fine(DisableOsd(s)))
<1> DEFINE t == DisableOsd(s)
<1>1. t = [s EXCEPT !.osd = FALSE]
  BY DEF DisableOsd
<1>2. /\ t \in States /\ ~t.osd /\ t.ui = s.ui /\ t.raw = s.raw /\ t.timing = s.timing
         /\ t.late = s.late
      /\ t.lost = s.lost /\ t.value = s.value /\ t.current = s.current /\ t.slot = s.slot
  BY <1>1 DEF States
<1> HIDE DEF t
<1>3. ASSUME Stack(s), s.current = 0 PROVE Stack(t)
  <2>1. t.current = 0 /\ \A off : ~On(s, off) /\ ~On(t, off)
    BY <1>2, <1>3 DEF On
  <2>2. QED
    BY <1>2, <1>3, <2>1 DEF Stack, Rooted, OsdKept, EndsKept, EndsOnTop, ClosedEmpty
<1>4. Kept(s, t)
  BY <1>2, KeptOf
<1>5. QED
  BY <1>2, <1>3, <1>4 DEF Fine, t

\* The OSDs of the quick functions.
LEMMA ShowOsdFine ==
  ASSUME NEW s \in States, NEW t \in ShowOsd(s, "osd")
  PROVE  Kept(s, t) /\ (Fine(s) => Fine(t))
<1>1. Kept(s, s)
  BY DEF Kept
<1>2. CASE s.ui /\ s.osd
  <2>1. PICK u \in PopAllAndToggle(s) : t = DisableOsd(u)
    BY <1>2 DEF ShowOsd, Dismiss
  <2>2. Kept(s, u) /\ (Fine(s) => Fine(u)) /\ (Fine(s) => u.lost \/ u.current = 0)
        /\ u \in States
    BY <2>1, PopAllFine DEF Kept
  <2>3. QED
    BY <2>1, <2>2, DisableKept, KeptTransitive
<1>3. CASE s.ui /\ ~s.osd
  BY <1>1, <1>3 DEF ShowOsd, Dismiss
<1>4. CASE ~s.ui
  <2>1. t = EnableOsd(Push(s, "osd", "osd"))
    BY <1>4 DEF ShowOsd
  <2>2. "osd" \in DOMAIN Menus /\ IsPage("osd")
    BY MenuAssumption
  <2>3. QED
    BY <1>4, <2>1, <2>2, OsdOpened
<1>5. QED
  BY <1>2, <1>3, <1>4

\* show_files
LEMMA ShowFilesCalm ==
  ASSUME NEW s \in States, NEW menu \in FileLists, NEW reset \in BOOLEAN
  PROVE  LET t == ShowFiles(s, menu, reset)
         IN  /\ Kept(s, t) /\ (Calm(s) => Calm(t)) /\ Same(Push(s, menu, "none"), t)
<1> DEFINE t == Push(s, menu, "none")
           slot == [Top(t) EXCEPT !.listener = menu]
           listed == [t EXCEPT !.slot[t.current] = slot]
           files == IF t.lost THEN t ELSE [t EXCEPT !.slot[t.current].listener = menu]
           u == IF reset THEN [files EXCEPT !.dirPos[menu] = 0] ELSE SetCurPos(files, s.dirPos[menu])
<1>1. menu \in DOMAIN Menus /\ "none" \in Offs /\ Menus[menu].rows > 1
  BY MenuAssumption DEF Offs
<1>2. Kept(s, t) /\ (Calm(s) => Calm(t)) /\ t \in States /\ (t.lost \/ IsNew(Top(t), menu))
  BY <1>1, PushKept, PushCalm DEF Kept
<1>3. ShowFiles(s, menu, reset) = u
  BY DEF ShowFiles
<1> HIDE DEF t
<1>4. ~t.lost => listed \in Listing(t)
  <2> DEFINE old == Top(t)
  <2>0. SUFFICES ASSUME ~t.lost PROVE listed \in Listing(t)
    OBVIOUS
  <2>1. /\ slot \in Slots /\ slot.menu = old.menu /\ slot.off = old.off
           /\ slot.open = old.open
        /\ slot.item = old.item /\ slot.blind = old.blind /\ slot.max = old.max
        /\ slot.cursor = old.cursor /\ slot.top = old.top /\ slot.bottom = old.bottom
    BY <1>2, TopType DEF Slots, Items
  <2> HIDE DEF slot, old
  <2>2. listed \in States /\ Same(t, listed) /\ listed = OnTop(t, slot) /\ Top(listed) = slot
    BY <1>2, <2>1, OnTopSame DEF OnTop, old
  <2>3. AtStart(slot)
    BY <1>1, <1>2, <2>0, <2>1 DEF AtStart, IsNew, old
  <2>4. Seen(t) => Seen(listed)
    <3>1. Count(slot) = Count(old)
      BY <2>1, DrawnSame
    <3>2. InView(old) => InView(slot)
      BY <2>1, <3>1 DEF InView, InWindow
    <3>3. Seen(t) => InView(old)
      BY <1>2, <2>0, TopType DEF Seen, Top, old
    <3>4. QED
      BY <1>2, <2>1, <2>2, <3>2, <3>3, OnTopSeen
  <2>5. QED
    BY <2>2, <2>3, <2>4 DEF Listing
<1>5. t.lost => t \in Listing(t)
  BY <1>2, SameReflexive DEF Listing, Firm
<1>6. files \in Listing(t) /\ files \in States
  BY <1>4, <1>5 DEF Top, Listing
<1> HIDE DEF files
<1>7. [files EXCEPT !.dirPos[menu] = 0] \in Listing(t)
  <2> DEFINE d == [files.dirPos EXCEPT ![menu] = 0]
             v == [files EXCEPT !.dirPos = d]
  <2>1. d \in [FileLists -> Int]
    BY <1>6 DEF States
  <2>2. [files EXCEPT !.dirPos[menu] = 0] = v
    OBVIOUS
  <2> HIDE DEF d
  <2>3. v \in States /\ v.slot = files.slot
    BY <1>6, <2>1 DEF States
  <2>4. Same(files, v)
    BY <1>6 DEF Same, States
  <2> HIDE DEF v
  <2>5. (Firm(files) => Firm(v)) /\ (Seen(files) => Seen(v)) /\ Top(v) = Top(files)
    BY <2>3, <2>4, FirmOf DEF Same, Top
  <2>6. Same(t, v)
    BY <1>6, <2>4, SameTransitive DEF Listing
  <2>7. QED
    BY <1>6, <2>2, <2>3, <2>5, <2>6 DEF Listing
<1>8. SetCurPos(files, s.dirPos[menu]) \in Listing(t)
  <2>1. s.dirPos[menu] \in Int
    BY DEF States
  <2>2. QED
    BY <1>2, <1>6, <2>1, SetCurPosListing
<1>9. u \in States /\ Same(t, u) /\ (Seen(t) => Seen(u))
  BY <1>7, <1>8 DEF Listing, Firm, Seen
<1> HIDE DEF u
<1>10. Kept(s, u)
  BY <1>2, <1>9 DEF Kept, Same
<1>11. QED
  BY <1>2, <1>3, <1>9, <1>10, SameFine DEF t

\* What a push sets before it.
LEMMA PushEndFine ==
  ASSUME NEW s \in States, NEW menu \in DOMAIN Menus, Menus[menu].off # "osd"
  PROVE  LET b == [s EXCEPT !.raw = @ \/ Menus[menu].off = "raw", !.timing = @ \/ Menus[menu].off = "timer"]
             t == Push(b, menu, Menus[menu].off)
         IN  /\ Kept(s, t) /\ (Calm(s) => Fine(t))
             /\ Calm(s) /\ Menus[menu].off = "none" => Calm(t)
<1> DEFINE off == Menus[menu].off
           raw == s.raw \/ off = "raw"
           timing == s.timing \/ off = "timer"
           b == [s EXCEPT !.raw = raw, !.timing = timing]
           t == Push(b, menu, off)
<1>1. off \in Offs /\ off # "osd" /\ (off \in Ends => IsPage(menu))
  BY MenuAssumption DEF IsMenu, Offs
<1>2. raw \in BOOLEAN /\ timing \in BOOLEAN
  BY Zenon
<1>3. [s EXCEPT !.raw = @ \/ Menus[menu].off = "raw", !.timing = @ \/ Menus[menu].off = "timer"] = b
  OBVIOUS
<1> HIDE DEF off
<1>4. raw <=> s.raw \/ off = "raw"
  BY Zenon
<1>5. timing <=> s.timing \/ off = "timer"
  BY Zenon
<1> HIDE DEF raw, timing
<1>6. /\ b \in States /\ b.osd = s.osd /\ b.ui = s.ui /\ b.raw = raw /\ b.timing = timing
         /\ b.late = s.late
      /\ b.lost = s.lost /\ b.value = s.value /\ b.current = s.current /\ b.slot = s.slot
  BY <1>2 DEF States
<1> HIDE DEF b
<1>7. Kept(b, t) /\ SameFlags(b, t) /\ (t.lost \/ Pushed(b, t, menu, off)) /\ t \in States
  BY <1>1, <1>6, PushKept DEF Kept
<1> HIDE DEF t
<1>8. Kept(s, t)
  <2>1. Kept(s, b)
    BY <1>6, KeptOf
  <2>2. QED
    BY <1>7, <2>1, KeptTransitive
<1>9. ASSUME Calm(s), ~t.lost PROVE Stack(t) /\ Awake(t) /\ (off = "none" => NoEnds(t))
  <2>1. Stack(s) /\ NoEnds(s) /\ Awake(s)
    BY <1>8, <1>9 DEF Calm, Kept
  <2>2. Pushed(s, t, menu, off)
    BY <1>6, <1>7, <1>9 DEF Pushed, Below
  <2>3. Awake(t) /\ (t.osd => t.ui) /\ (t.osd <=> s.osd) /\ (t.raw <=> raw)
        /\ (t.timing <=> timing)
    BY <1>6, <1>7, <2>1 DEF Awake, SameFlags, Stack, OsdKept
  <2>4. Stack(t)
    BY <1>1, <1>4, <1>5, <1>7, <2>1, <2>2, <2>3, PushedStack DEF Awake
  <2>5. QED
    BY <2>1, <2>2, <2>3, <2>4, NoEndsPushed DEF Ends
<1>10. QED
  BY <1>3, <1>8, <1>9 DEF Fine, Calm, off, t

\* Every step of a handler.
LEMMA StepFine ==
  ASSUME NEW s \in States, NEW op \in Steps, NEW t \in Step(s, op)
  PROVE  /\ Kept(s, t) /\ (Calm(s) => Fine(t)) /\ (Fine(s) /\ op[1] = "exit" => Fine(t))
         /\ Calm(s) /\ op[1] # "exit"
            /\ (op[1] = "push" => Menus[op[2]].off = "none") => Calm(t)
<1>0. Calm(s) => Fine(s)
  BY DEF Calm, Fine
<1>1. CASE op = <<"dialog">>
  <2>1. t = Dialog(s)
    BY <1>1 DEF Step
  <2>2. Calm(t) => Fine(t)
    BY DEF Calm, Fine
  <2>3. QED
    BY <1>1, <2>1, <2>2, DialogCalm DEF Opened
<1>2. CASE op = <<"pop">>
  <2>1. t \in Pop(s)
    BY <1>2 DEF Step
  <2>2. Calm(t) => Fine(t)
    BY DEF Calm, Fine
  <2>3. QED
    BY <1>2, <2>1, <2>2, PopFine
<1>3. CASE op = <<"exit">>
  <2>1. t \in PopAllAndToggle(s)
    BY <1>3 DEF Step
  <2>2. QED
    BY <1>0, <1>3, <2>1, PopAllFine
<1>4. CASE op \in {<<"push", menu>> : menu \in {x \in DOMAIN Menus : Menus[x].off # "osd"}}
  <2>1. PICK menu \in DOMAIN Menus : Menus[menu].off # "osd" /\ op = <<"push", menu>>
    BY <1>4
  <2>2. op[1] = "push" /\ op[2] = menu
    BY <2>1
  <2>3. t = Push([s EXCEPT !.raw = @ \/ Menus[menu].off = "raw", !.timing = @ \/ Menus[menu].off = "timer"],
                 menu, Menus[menu].off)
    BY <2>2 DEF Step
  <2>4. QED
    BY <2>1, <2>2, <2>3, PushEndFine
<1>5. CASE op \in {<<"files", menu, reset>> : menu \in FileLists, reset \in BOOLEAN}
  <2>1. PICK menu \in FileLists, reset \in BOOLEAN : op = <<"files", menu, reset>>
    BY <1>5
  <2>2. op[1] = "files" /\ op[2] = menu /\ op[3] = reset
    BY <2>1
  <2>3. t = ShowFiles(s, menu, reset)
    BY <2>2 DEF Step
  <2>4. Calm(t) => Fine(t)
    BY DEF Calm, Fine
  <2>5. QED
    BY <2>2, <2>3, <2>4, ShowFilesCalm
<1>6. CASE op \in {<<"confirm", menu>> : menu \in {x \in DOMAIN Menus : Menus[x].off = "none"}}
  <2>1. PICK menu \in DOMAIN Menus : op = <<"confirm", menu>>
    BY <1>6
  <2>2. op[1] = "confirm" /\ op[2] = menu
    BY <2>1
  <2>3. t = Confirm(s, menu)
    BY <2>2 DEF Step
  <2>4. Calm(t) => Fine(t)
    BY DEF Calm, Fine
  <2>5. QED
    BY <2>2, <2>3, <2>4, ConfirmCalm DEF Opened
<1>7. CASE op = <<"item">>
  <2>1. t = s /\ op[1] = "item"
    BY <1>7 DEF Step
  <2>2. QED
    BY <1>0, <2>1 DEF Kept
<1>8. QED
  BY <1>1, <1>2, <1>3, <1>4, <1>5, <1>6, <1>7 DEF Steps

(***************************************************************************)
(* A choice of an item                                                     *)
(***************************************************************************)
Exit == << <<"exit">> >>

\* What s may be after i steps of a handler, and that it has not left the UI.
Stays(script, i) == \A j \in 1 .. i : script[j][1] # "exit"
After(s, script, i) ==
  {t \in States : /\ Kept(s, t) /\ (Fine(s) /\ script = Exit => Fine(t)) /\ (Calm(s) => Fine(t))
                  /\ Calm(s) /\ i < Len(script) /\ Stays(script, i) => Calm(t)}

\* After it has left the UI a handler only reads its item.
LEMMA Leaving ==
  ASSUME NEW script, IsScript(script), NEW i \in 1 .. Len(script)
  PROVE  /\ script[i] \in Steps
         /\ i < Len(script) /\ script[i][1] = "push" => Menus[script[i][2]].off = "none"
         /\ script[i] = <<"item">> \/ Stays(script, i - 1)
         /\ Stays(script, i) => Stays(script, i - 1) /\ script[i][1] # "exit"
<1>1. Len(script) \in Nat
  BY DEF IsScript
<1>2. \A j \in 1 .. i - 1 : j \in 1 .. Len(script) /\ j < i /\ j \in 1 .. i
  BY <1>1
<1>3. \A j \in 1 .. Len(script) : j < i /\ script[j][1] = "exit" => script[i] = <<"item">>
  BY DEF IsScript
<1>4. i < Len(script) => i \in 1 .. Len(script) - 1
  BY <1>1
<1>5. i \in 1 .. i
  BY <1>1
<1>6. QED
  BY <1>2, <1>3, <1>4, <1>5 DEF IsScript, Stays

\* A handler as a whole, and what it makes of an item that was freed.
LEMMA DoneFine ==
  ASSUME NEW s \in States, NEW script, IsScript(script), NEW t \in Done(Len(script), script, {s})
  PROVE  t \in States /\ Kept(s, t) /\ (Calm(s) \/ (Fine(s) /\ script = Exit) => Fine(t))
<1> DEFINE n == Len(script)
           D == [i \in Nat |-> SUBSET After(s, script, i)]
           only == {s}
<1>1. n \in Int /\ n \in Nat /\ \A i \in 1 .. n : script[i] \in Steps /\ i \in Nat
      /\ i - 1 \in Nat /\ i - 1 < n
  BY DEF IsScript
<1>2. only \in D[0]
  <2>1. Kept(s, s) /\ (Calm(s) => Fine(s))
    BY DEF Kept, Calm, Fine
  <2>2. QED
    BY <2>1 DEF After
<1>3. ASSUME NEW i \in 1 .. n, NEW states \in D[i - 1] PROVE StepAll(states, script[i]) \in D[i]
  <2>1. ASSUME NEW x \in After(s, script, i - 1), NEW y \in Step(x, script[i]) PROVE y \in After(s, script, i)
    <3>1. x \in States /\ Kept(s, x) /\ (Calm(s) => Fine(x)) /\ (Calm(s) /\ Stays(script, i - 1) => Calm(x))
          /\ (Fine(s) /\ script = Exit => Fine(x))
      BY <1>1 DEF After
    <3> DEFINE op == script[i]
    <3>2. /\ op \in Steps /\ (i < n => (op[1] = "push" => Menus[op[2]].off = "none"))
          /\ op = <<"item">> \/ Stays(script, i - 1)
          /\ Stays(script, i) => Stays(script, i - 1) /\ op[1] # "exit"
      BY Leaving
    <3>3. script = Exit => op[1] = "exit"
      BY DEF Exit
    <3> HIDE DEF op
    <3>4. /\ Kept(x, y) /\ (Calm(x) => Fine(y)) /\ (Fine(x) /\ op[1] = "exit" => Fine(y))
          /\ Calm(x) /\ op[1] # "exit"
             /\ (op[1] = "push" => Menus[op[2]].off = "none") => Calm(y)
      <4>1. y \in Step(x, op)
        BY <2>1 DEF op
      <4>2. QED
        BY <3>1, <3>2, <4>1, StepFine
    <3>5. Kept(s, y) /\ y \in States
      BY <3>1, <3>4, KeptTransitive DEF Kept
    <3>6. op = <<"item">> => y = x
      BY <2>1 DEF Step, op
    <3>7. Calm(s) => Fine(y)
      BY <3>1, <3>2, <3>4, <3>6
    <3>8. QED
      BY <3>1, <3>2, <3>3, <3>4, <3>5, <3>7 DEF After
  <2>2. states \in SUBSET After(s, script, i - 1)
    BY <1>1, <1>3
  <2>3. StepAll(states, script[i]) \in SUBSET After(s, script, i)
    BY <2>1, <2>2 DEF StepAll
  <2>4. QED
    BY <1>1, <2>3
<1>4. Done(n, script, only) \in D[IF n > 0 THEN n ELSE 0]
  <2> HIDE DEF D, n, only
  <2>1. \A i \in 1 .. n : \A x \in D[i - 1] : StepAll(x, script[i]) \in D[i]
    BY <1>3
  <2>2. QED
    BY <1>1, <1>2, <2>1, RunLoop
<1>5. Done(n, script, only) \in SUBSET After(s, script, n)
  <2>1. (IF n > 0 THEN n ELSE 0) = n
    BY <1>1
  <2>2. QED
    BY <1>1, <1>4, <2>1
<1>6. t \in After(s, script, n)
  BY <1>5
<1>7. QED
  BY <1>1, <1>6 DEF After

LEMMA RunEnds ==
  ASSUME NEW s, NEW script, NEW t \in Run(s, script)
  PROVE  \E u \in Done(Len(script), script, {s}) :
           t = u \/ (UsesFreed(script, s.current) /\ t = [u EXCEPT !.lost = TRUE])
  BY DEF Run, MayBeLost, Done

LEMMA RunFine ==
  ASSUME NEW s \in States, NEW script, IsScript(script), NEW t \in Run(s, script)
  PROVE  Kept(s, t) /\ (Calm(s) \/ (Fine(s) /\ script = Exit) => Fine(t))
<1>1. PICK u \in Done(Len(script), script, {s}) :
        t = u \/ (UsesFreed(script, s.current) /\ t = [u EXCEPT !.lost = TRUE])
  BY RunEnds
<1>2. u \in States /\ Kept(s, u) /\ (Calm(s) \/ (Fine(s) /\ script = Exit) => Fine(u))
  BY DoneFine
<1>3. CASE t = u
  BY <1>2, <1>3
<1>4. CASE t = [u EXCEPT !.lost = TRUE]
  <2>1. t \in States /\ t.lost /\ t.value = u.value
    BY <1>2, <1>4, LostOf DEF Lost
  <2>2. QED
    BY <1>2, <2>1 DEF Kept, Fine, Seen
<1>5. QED
  BY <1>1, <1>3, <1>4

\* The search for the next choice finds the nearest that is not disabled, or
\* the one it started at.
LEMMA NextFromNearest ==
  ASSUME NEW c \in DOMAIN Lists, NEW v, NEW orig, NEW down,
         NEW k \in 0 .. 2 * Lists[c].n, Enabled(c, down[k]) \/ down[k] = orig
  PROVE  \E j \in 0 .. k : /\ NextFrom(c, v, orig, down) = down[j]
                           /\ Enabled(c, down[j]) \/ down[j] = orig
<1> DEFINE reach == {j \in 0 .. 2 * Lists[c].n : Enabled(c, down[j]) \/ down[j] = orig}
           j == CHOOSE i \in reach : \A l \in reach : i <= l
<1>1. reach \in SUBSET Nat /\ k \in reach
  BY ListAssumption
<1>2. \E i \in reach : \A l \in reach : i <= l
  <2> HIDE DEF reach
  <2>1. QED
    BY <1>1, Least
<1>3. j \in reach /\ j <= k
  BY <1>1, <1>2
<1>4. NextFrom(c, v, orig, down) = down[j]
  BY DEF NextFrom
<1> HIDE DEF j
<1>5. QED
  BY <1>1, <1>3, <1>4

\* A multiple choice runs on past its last choice only when that is disabled.
LEMMA ChosenEnabled ==
  ASSUME NEW c \in DOMAIN Lists, NEW v \in 0 .. Lists[c].n, NEW action \in {"left", "right",
         "return"}
  PROVE  /\ Chosen(c, v, action) \in 0 .. Lists[c].n
         /\ Enabled(c, v) => Enabled(c, Chosen(c, v, action))
         /\ Chosen(c, v, action) = Lists[c].n => ~Enabled(c, Lists[c].n - 1)
<1> DEFINE n == Lists[c].n
<1>1. n \in Nat /\ n > 0 /\ Enabled(c, 0) /\ Enabled(c, n)
  BY ListAssumption DEF Enabled
<1>2. CASE action = "left"
  <2> DEFINE first == IF v - 1 < 0 THEN n - 1 ELSE v - 1
             down == [k \in 0 .. 2 * n |-> first - k]
             w == NextFrom(c, first, v, down)
  <2>1. first \in 0 .. n - 1 /\ first \in 0 .. 2 * n
    BY <1>1
  <2>2. Chosen(c, v, action) = IF w < 0 THEN n - 1 ELSE w
    BY <1>2 DEF Chosen
  <2> HIDE DEF first
  <2>3. down[first] = 0 /\ \A k \in 0 .. first : down[k] = first - k
    BY <1>1, <2>1
  <2> HIDE DEF down
  <2>4. PICK k \in 0 .. first : w = down[k] /\ (Enabled(c, down[k]) \/ down[k] = v)
    BY <1>1, <2>1, <2>3, NextFromNearest
  <2> HIDE DEF w
  <2>5. w \in 0 .. n - 1 /\ (Enabled(c, w) \/ w = v)
    BY <1>1, <2>1, <2>3, <2>4
  <2>6. QED
    BY <1>1, <2>2, <2>5
<1>3. CASE action = "right"
  <2> DEFINE first == IF v + 1 >= n THEN 0 ELSE v + 1
             down == [k \in 0 .. 2 * n |-> (first + k) % n]
             w == NextFrom(c, first, v, down)
             k0 == n - first
  <2>1. first \in 0 .. n - 1 /\ k0 \in 0 .. 2 * n /\ first + k0 = n
    BY <1>1
  <2>2. Chosen(c, v, action) = w
    BY <1>3 DEF Chosen
  <2> HIDE DEF first, k0
  <2>3. down[k0] = 0 /\ \A k \in 0 .. k0 : down[k] \in 0 .. n - 1
    <3>1. n % n = 0
      BY <1>1
    <3>2. \A x \in Nat : x % n \in 0 .. n - 1
      BY <1>1
    <3>3. \A k \in 0 .. 2 * n : first + k \in Nat
      BY <1>1, <2>1
    <3>4. \A k \in 0 .. k0 : k \in 0 .. 2 * n
      BY <1>1, <2>1
    <3>5. QED
      BY <2>1, <3>1, <3>2, <3>3, <3>4
  <2> HIDE DEF down
  <2>4. PICK k \in 0 .. k0 : w = down[k] /\ (Enabled(c, down[k]) \/ down[k] = v)
    <3>1. Enabled(c, down[k0])
      BY <1>1, <2>3
    <3>2. QED
      BY <2>1, <3>1, NextFromNearest
  <2> HIDE DEF w
  <2>5. w \in 0 .. n - 1 /\ (Enabled(c, w) \/ w = v)
    BY <2>3, <2>4
  <2>6. QED
    BY <1>1, <2>2, <2>5
<1>4. CASE action = "return"
  <2> DEFINE first == IF v + 1 >= n THEN 0 ELSE v + 1
             down == [k \in 0 .. 2 * n |-> first + k]
             w == NextFrom(c, first, v, down)
             k0 == (IF Enabled(c, n - 1) THEN n - 1 ELSE n) - first
  <2>1. /\ first \in 0 .. n - 1 /\ k0 \in 0 .. 2 * n
        /\ first + k0 = IF Enabled(c, n - 1) THEN n - 1 ELSE n
    BY <1>1
  <2>2. Chosen(c, v, action) = w
    BY <1>4 DEF Chosen
  <2> HIDE DEF first, k0
  <2>3. \A k \in 0 .. k0 : down[k] = first + k
    BY <1>1, <2>1
  <2> HIDE DEF down
  <2>4. PICK k \in 0 .. k0 : w = down[k] /\ (Enabled(c, down[k]) \/ down[k] = v)
    <3>1. k0 \in 0 .. k0
      BY <1>1, <2>1
    <3>2. Enabled(c, down[k0])
      BY <1>1, <2>1, <2>3, <3>1
    <3>3. QED
      BY <2>1, <3>2, NextFromNearest
  <2> HIDE DEF w
  <2>5. /\ w \in 0 .. n /\ (Enabled(c, w) \/ w = v)
        /\ Enabled(c, n - 1) => w \in 0 .. n - 1
    BY <1>1, <2>1, <2>3, <2>4
  <2>6. QED
    BY <1>1, <2>2, <2>5
<1>5. QED
  BY <1>2, <1>3, <1>4

\* What must hold of the choices.
ChoicesOk(s) ==
  \A c \in DOMAIN Lists :
    Enabled(c, s.value[c]) /\ (s.value[c] = Lists[c].n => ~Enabled(c, Lists[c].n - 1))

\* What every key that is acted on does to a state.
Acted(s, t) ==
  /\ t \in States /\ (ChoicesOk(s) => ChoicesOk(t)) /\ (Fine(s) /\ Awake(s) => Fine(t))
  /\ (Sharp(s) => Seen(t))

LEMMA KeptActed ==
  ASSUME NEW s, NEW t, Kept(s, t), Fine(s) /\ Awake(s) => Fine(t)
  PROVE  Acted(s, t)
  BY DEF Kept, Acted, ChoicesOk, Sharp, Firm, Seen

LEMMA ViewActed ==
  ASSUME NEW s \in States, NEW t \in Views(s)
  PROVE  Acted(s, t)
<1>1. t \in States /\ t.value = s.value /\ (Firm(s) => Firm(t)) /\ (Fine(s) => Fine(t))
  BY ViewKept DEF Views, Same
<1>2. (Sharp(s) => Firm(s)) /\ (Firm(t) => Seen(t))
  BY DEF Sharp, Firm, Seen
<1>3. QED
  BY <1>1, <1>2 DEF Acted, ChoicesOk

LEMMA LostActed ==
  ASSUME NEW s, NEW t \in Lost(s)
  PROVE  Acted(s, t)
  BY DEF Lost, Acted, ChoicesOk, Fine, Seen

\* A multiple choice takes a value that may be chosen.
LEMMA ChoiceActed ==
  ASSUME NEW s \in States, NEW c \in DOMAIN Lists, NEW action \in {"left", "right", "return"}
  PROVE  Acted(s, [s EXCEPT !.value[c] = Chosen(c, s.value[c], action)])
<1> DEFINE v == Chosen(c, s.value[c], action)
           f == [s.value EXCEPT ![c] = v]
           t == [s EXCEPT !.value = f]
<1>1. s.value \in [DOMAIN Lists -> Nat]
      /\ \A l \in DOMAIN Lists : s.value[l] \in 0 .. Lists[l].n
  BY DEF States, Values
<1>2. /\ v \in 0 .. Lists[c].n
      /\ Enabled(c, s.value[c]) => Enabled(c, v)
      /\ v = Lists[c].n => ~Enabled(c, Lists[c].n - 1)
  BY <1>1, ChosenEnabled
<1>3. [s EXCEPT !.value[c] = Chosen(c, s.value[c], action)] = t
  OBVIOUS
<1> HIDE DEF v
<1>4. f \in Values /\ f[c] = v /\ \A l \in DOMAIN Lists : l # c => f[l] = s.value[l]
  BY <1>1, <1>2, ListAssumption DEF Values
<1> HIDE DEF f
<1>5. /\ t \in States /\ t.value = f /\ t.slot = s.slot /\ t.current = s.current
         /\ t.ui = s.ui /\ t.osd = s.osd
      /\ t.raw = s.raw /\ t.timing = s.timing /\ t.late = s.late /\ t.lost = s.lost
  BY <1>4 DEF States
<1> HIDE DEF t
<1>6. ChoicesOk(s) => ChoicesOk(t)
  BY <1>2, <1>4, <1>5 DEF ChoicesOk
<1>7. Fine(s) => Fine(t)
  BY <1>5, StackOf DEF Fine
<1>8. Sharp(s) => Seen(t)
  <2>1. Sharp(s) => Seen(s)
    BY DEF Sharp, Firm, Seen
  <2>2. QED
    BY <1>5, <2>1, FirmOf
<1>9. QED
  BY <1>3, <1>5, <1>6, <1>7, <1>8 DEF Acted

\* Opening or closing a folder neither moves it nor what is above it.
LEMMA FolderPlace ==
  ASSUME NEW slot, NEW new, slot.item \in Drawn(slot), DOMAIN Items(slot) \in SUBSET Nat,
         new.menu = slot.menu, new.item = slot.item,
         new.open \in {slot.open \ {slot.item}, slot.open \cup {slot.item}}
  PROVE  slot.item \in Drawn(new) /\ Place(new, slot.item) = Place(slot, slot.item)
<1> DEFINE items == Items(slot)
<1>0. \A i \in DOMAIN items : i \in Nat
  OBVIOUS
<1>1. Items(new) = items /\ slot.item \in Nat
  BY <1>0 DEF Items, Drawn
<1>2. \A a, i : IsAncestor(items, a, i) => a < i
  BY DEF IsAncestor
<1>3. \A i \in DOMAIN items : i \in Drawn(slot) <=> \A j \in DOMAIN items : IsAncestor(items, j, i) => j \in slot.open
  BY DEF Drawn
<1>4. \A i \in DOMAIN items : i \in Drawn(new) <=> \A j \in DOMAIN items : IsAncestor(items, j, i) => j \in new.open
  BY <1>1 DEF Drawn
<1>5. Drawn(slot) \in SUBSET DOMAIN items /\ Drawn(new) \in SUBSET DOMAIN items
  BY <1>1 DEF Drawn
<1> HIDE DEF items
<1>6. \A j : j # slot.item => (j \in slot.open <=> j \in new.open)
  OBVIOUS
<1>7. \A i \in DOMAIN items : i \in Nat
      /\ (i < slot.item \/ i = slot.item) => (i \in Drawn(slot) <=> i \in Drawn(new))
  <2> SUFFICES ASSUME NEW i \in DOMAIN items, i \in Nat, i < slot.item \/ i = slot.item
               PROVE  i \in Drawn(slot) <=> i \in Drawn(new)
    OBVIOUS
  <2>1. \A j \in DOMAIN items : IsAncestor(items, j, i) => (j \in slot.open <=> j \in new.open)
    <3> SUFFICES ASSUME NEW j \in DOMAIN items, IsAncestor(items, j, i) PROVE j # slot.item
      BY <1>6
    <3>1. j < i
      BY <1>2
    <3>2. QED
      BY <1>1, <3>1
  <2>2. QED
    BY <1>3, <1>4, <2>1
<1>8. slot.item \in Drawn(new)
  BY <1>1, <1>5, <1>7
<1>9. \A j : j \in Drawn(slot) /\ j < slot.item <=> j \in Drawn(new) /\ j < slot.item
  BY <1>0, <1>5, <1>7
<1>10. {j \in Drawn(slot) : j < slot.item} = {j \in Drawn(new) : j < slot.item}
  BY <1>9
<1>11. QED
  BY <1>8, <1>10 DEF Place

\* Opening and closing a folder.
LEMMA FolderActed ==
  ASSUME NEW s \in States
  PROVE  LET slot == Top(s)
         IN  Acted(s, OnTop(s, [slot EXCEPT !.open = IF slot.item \in @ THEN @ \ {slot.item} ELSE @ \cup {slot.item}]))
<1> DEFINE slot == Top(s)
           open == IF slot.item \in slot.open THEN slot.open \ {slot.item} ELSE slot.open \cup {slot.item}
           new == [slot EXCEPT !.open = open]
           t == OnTop(s, new)
<1>1. slot \in Slots /\ slot.menu \in DOMAIN Menus /\ open \in SUBSET Nat
  BY TopType DEF Slots
<1>2. open \in {slot.open \ {slot.item}, slot.open \cup {slot.item}}
  OBVIOUS
<1> HIDE DEF open
<1>3. /\ new \in Slots /\ new.menu = slot.menu /\ new.off = slot.off /\ new.open = open
         /\ new.item = slot.item
      /\ new.blind = slot.blind /\ new.cursor = slot.cursor /\ new.top = slot.top
         /\ new.bottom = slot.bottom
  BY <1>1 DEF Slots, Items
<1> HIDE DEF new
<1>4. t \in States /\ Same(s, t)
  BY <1>3, OnTopSame
<1>5. (Fine(s) => Fine(t)) /\ (ChoicesOk(s) => ChoicesOk(t))
  BY <1>4, SameFine DEF ChoicesOk, Same
<1>6. ASSUME Sharp(s) PROVE Seen(t)
  <2>1. CASE s.lost
    BY <1>4, <2>1 DEF Same, Seen
  <2>2. CASE ~s.lost
    <3>1. Seen(s) /\ InView(slot) /\ (slot.blind \/ Matches(slot))
      BY <1>6, <2>2 DEF Sharp, Firm, Known
    <3>2. ASSUME ~new.blind PROVE InWindow(new) /\ new.cursor \in 0 .. Count(new) - 1
      <4>1. InWindow(slot) /\ slot.item \in Drawn(slot)
            /\ Place(slot, slot.item) = slot.cursor
        BY <1>3, <3>1, <3>2 DEF InView, Matches
      <4>2. DOMAIN Items(slot) \in SUBSET Nat
        BY <1>1, ItemsType
      <4>3. slot.item \in Drawn(new) /\ Place(new, slot.item) = slot.cursor
        BY <1>2, <1>3, <4>1, <4>2, FolderPlace
      <4>4. QED
        BY <1>1, <1>3, <4>1, <4>3, PlaceType DEF InWindow
    <3>3. InView(new)
      BY <3>2 DEF InView
    <3>4. QED
      BY <1>3, <3>1, <3>3, OnTopSeen
  <2>3. QED
    BY <2>1, <2>2
<1>7. Acted(s, t)
  BY <1>4, <1>5, <1>6 DEF Acted
<1>8. QED
  BY <1>7 DEF new, open

\* ui_action for an item: nothing is on a page that ends something but what
\* leaves the UI.
LEMMA ActFine ==
  ASSUME NEW s \in States, NEW action \in {"left", "right", "return"}, NEW t \in Act(s,
         action)
  PROVE  Acted(s, t)
<1> DEFINE slot == Top(s)
           it == Items(slot)[slot.item]
<1>1. slot \in Slots /\ slot.menu \in DOMAIN Menus
      /\ (slot.item # 0 => slot.item \in DOMAIN Menus[slot.menu].items)
  BY TopType DEF Slots, Items
<1>2. slot.item # 0 => /\ \A script \in it.scripts : IsScript(script)
                       /\ it.kind = "choice" => it.choice \in DOMAIN Lists
                       /\ IsPage(slot.menu) => it.scripts \subseteq {Exit}
  <2>1. IsMenu(slot.menu)
    BY <1>1, MenuAssumption
  <2>2. QED
    BY <1>1, <2>1 DEF IsMenu, IsPage, Items, Exit
<1>3. CASE slot.item = 0
  <2>1. t = [s EXCEPT !.lost = TRUE]
    BY <1>3 DEF Act
  <2>2. QED
    BY <2>1, LostOf, LostActed
<1>4. CASE slot.item # 0 /\ it.kind = "choice"
  <2>1. t = [s EXCEPT !.value[it.choice] = Chosen(it.choice, s.value[it.choice], action)]
    BY <1>4 DEF Act
  <2>2. QED
    BY <1>2, <1>4, <2>1, ChoiceActed
<1>5. CASE slot.item # 0 /\ it.kind = "folder" /\ action = "return"
  <2>1. t = OnTop(s, [slot EXCEPT !.open = IF slot.item \in @ THEN @ \ {slot.item} ELSE @ \cup {slot.item}])
    BY <1>5 DEF Act
  <2>2. QED
    BY <2>1, FolderActed
<1>6. CASE slot.item # 0 /\ it.kind = "button" /\ action = "return"
  <2>1. PICK script \in it.scripts : t \in Run(s, script)
    BY <1>6 DEF Act
  <2>2. Kept(s, t) /\ (Calm(s) \/ (Fine(s) /\ script = Exit) => Fine(t))
    BY <1>2, <1>6, <2>1, RunFine
  <2>3. Fine(s) /\ Awake(s) => Calm(s) \/ script = Exit
    <3>1. CASE NoEnds(s)
      BY <3>1 DEF Fine, Calm
    <3>2. CASE ~NoEnds(s) /\ Stack(s)
      <4>1. PICK i \in 1 .. s.current : s.slot[i].off \in Ends
        BY <3>2 DEF NoEnds
      <4>2. s.current \in i .. s.current
        BY <4>1, TopType
      <4>3. IsPage(slot.menu)
        BY <3>2, <4>1, <4>2 DEF Stack, EndsOnTop, Top
      <4>4. QED
        BY <1>2, <1>6, <2>1, <4>3
    <3>3. QED
      BY <3>1, <3>2 DEF Fine, Calm
  <2>4. QED
    BY <2>2, <2>3, KeptActed
<1>7. CASE slot.item # 0 /\ ~(it.kind = "choice")
      /\ ~(it.kind = "folder" /\ action = "return")
            /\ ~(it.kind = "button" /\ action = "return")
  <2>1. t = s
    BY <1>7 DEF Act
  <2>2. QED
    BY <2>1 DEF Acted, Sharp, Firm, Seen
<1>8. QED
  BY <1>3, <1>4, <1>5, <1>6, <1>7

\* ui_action
LEMMA ActionFine ==
  ASSUME NEW s \in States, NEW t, NEW action \in {"up", "down", "left", "right", "return",
         "escape", "exit"},
         t \in Action(s, action)
  PROVE  Acted(s, t)
<1>1. CASE action = "up"
  <2>1. t = Up(s)
    BY <1>1 DEF Action
  <2>2. QED
    BY <2>1, StepViews, ViewActed
<1>2. CASE action = "down"
  <2>1. t = Down(s)
    BY <1>2 DEF Action
  <2>2. QED
    BY <2>1, StepViews, ViewActed
<1>3. CASE action \in {"left", "right", "return"}
  <2>1. t \in Act(s, action)
    BY <1>3 DEF Action
  <2>2. QED
    BY <1>3, <2>1, ActFine
<1>4. CASE action = "escape" /\ s.current > 0 /\ ~s.osd
  <2>1. t \in Pop(s)
    BY <1>4 DEF Action
  <2>2. Kept(s, t) /\ (Fine(s) => Fine(t))
    BY <2>1, PopFine DEF Fine
  <2>3. QED
    BY <2>2, KeptActed
<1>5. CASE action = "escape" /\ s.current = 0
  <2>1. t = Toggle(s)
    BY <1>5 DEF Action
  <2>2. QED
    BY <1>5, <2>1, ToggleFine, KeptActed
<1>6. CASE action = "exit" \/ (action = "escape" /\ s.current > 0 /\ s.osd)
  <2>1. t \in PopAllAndToggle(s)
    BY <1>6 DEF Action
  <2>2. QED
    BY <2>1, PopAllFine, KeptActed
<1>7. s.current > 0 \/ s.current = 0
  BY TopType
<1>8. QED
  BY <1>1, <1>2, <1>3, <1>4, <1>5, <1>6, <1>7

\* ui_check_key
LEMMA HandleFine ==
  ASSUME NEW s \in States, NEW key \in Keys, NEW t \in Handle(s, key)
  PROVE  Acted(s, t)
<1>1. CASE key \in {"up", "down", "left", "right", "return", "escape", "exit"}
  <2>1. t \in Action(s, key)
    BY <1>1 DEF Handle
  <2>2. QED
    BY <1>1, <2>1, ActionFine
<1>2. CASE key \in {"top", "bottom", "pageup", "pagedown", "find"}
  <2>1. t \in Views(s) \cup Lost(s)
    <3>1. PageRows \in Int
      BY MenuAssumption
    <3>2. ToTop(s) \in Views(s) /\ ToBottom(s) \in Views(s) /\ TypeChar(s, "f") \in Views(s) \cup Lost(s)
      BY ToTopView, ToBottomView, FindFirstView, LostOf DEF TypeChar
    <3>3. Times(PageRows, Up, s) \in Views(s)
      BY <3>1, UpsView
    <3>4. Times(PageRows, Down, s) \in Views(s)
      BY <3>1, DownsView
    <3>5. t \in {ToTop(s), ToBottom(s), TypeChar(s, "f"), Times(PageRows, Up, s), Times(PageRows, Down, s)}
      BY <1>2 DEF Handle
    <3>6. QED
      BY <3>2, <3>3, <3>4, <3>5
  <2>2. QED
    BY <2>1, ViewActed, LostActed
<1>3. CASE key = "released"
  <2>1. t = s
    BY <1>3 DEF Handle
  <2>2. QED
    BY <2>1 DEF Acted, Sharp, Firm, Seen
<1>4. QED
  BY <1>1, <1>2, <1>3 DEF Keys

\* A key that comes when the menu has changed makes its slot blind.
LEMMA NotedFine ==
  ASSUME NEW s \in States
  PROVE  /\ Noted(s) \in States /\ Noted(s).value = s.value
         /\ (Fine(s) => Fine(Noted(s))) /\ Awake(Noted(s)) /\ (Seen(s) => Sharp(Noted(s)))
<1> DEFINE closed == s.late \/ ~s.ui
           late == [s EXCEPT !.late = closed]
           slot == [Top(late) EXCEPT !.blind = TRUE]
           t == OnTop(late, slot)
           right == UpToDate(Top(s))
<1>1. closed \in BOOLEAN
  BY Zenon
<1>2. closed <=> s.late \/ ~s.ui
  BY Zenon
<1>3. (right => Noted(s) = late) /\ (~right => Noted(s) = t)
  BY DEF Noted, OnTop, Top
<1> HIDE DEF closed, right
<1>4. /\ late \in States /\ late.late = closed /\ late.slot = s.slot
         /\ late.current = s.current /\ late.ui = s.ui
      /\ late.osd = s.osd /\ late.raw = s.raw /\ late.timing = s.timing
         /\ late.lost = s.lost /\ late.value = s.value
  BY <1>1 DEF States
<1> HIDE DEF late
<1>5. (Fine(s) => Fine(late)) /\ Awake(late) /\ (Seen(s) => Seen(late)) /\ Top(late) = Top(s)
  <2>1. Stack(s) => Stack(late)
    BY <1>2, <1>4, StackOf
  <2>2. QED
    BY <1>2, <1>4, <2>1, FirmOf DEF Fine, Awake, Top
<1>6. slot \in Slots /\ slot.menu = Top(late).menu /\ slot.off = Top(late).off /\ slot.blind
  BY <1>4, TopType DEF Slots, Items
<1> HIDE DEF slot
<1>7. t \in States /\ Same(late, t) /\ Top(t) = slot
  BY <1>4, <1>6, OnTopSame
<1>8. (Fine(late) => Fine(t)) /\ (Awake(late) => Awake(t)) /\ t.value = s.value
  BY <1>4, <1>7, SameFine DEF Same, Awake
<1>9. ASSUME Seen(s) PROVE Sharp(t)
  <2>1. InView(slot) /\ Known(slot)
    BY <1>6 DEF InView, Known
  <2>2. Firm(t)
    BY <1>4, <1>5, <1>6, <1>9, <2>1, OnTopSeen
  <2>3. QED
    BY <1>6, <1>7, <2>2 DEF Sharp
<1>10. ASSUME Seen(s), right PROVE Sharp(late)
  <2>1. CASE s.lost
    BY <1>4, <2>1 DEF Sharp
  <2>2. CASE ~s.lost
    <3>1. InView(Top(late)) /\ Seen(late)
      BY <1>4, <1>5, <1>10, <2>2, TopType DEF Seen, Top
    <3>2. QED
      BY <1>5, <1>10, <3>1 DEF Sharp, Firm, Known, UpToDate, right
  <2>3. QED
    BY <2>1, <2>2
<1>11. QED
  BY <1>3, <1>4, <1>5, <1>7, <1>8, <1>9, <1>10

\* timing_hook, when the test's time is up
LEMMA TimeIsUpFine ==
  ASSUME NEW s \in States, NEW t \in TimeIsUp(s)
  PROVE  /\ Kept(s, t) /\ (Fine(s) => Fine(t))
         /\ Seen(s) /\ (\A i \in 0 .. s.current : Shown(s.slot[i])) =>
              t.lost \/ Shown(Top(t)) \/ NewResult(Top(t))
<1> DEFINE b == [s EXCEPT !.timing = FALSE]
<1>1. t \in Pop(b)
  BY DEF TimeIsUp
<1>2. /\ b \in States /\ ~b.timing /\ b.late = s.late /\ b.slot = s.slot
         /\ b.current = s.current /\ b.ui = s.ui
      /\ b.osd = s.osd /\ b.raw = s.raw /\ b.lost = s.lost /\ b.value = s.value
  BY DEF States
<1> HIDE DEF b
<1>3. Kept(s, b) /\ (Fine(s) => Fine(b))
  <2>1. Stack(s) => Stack(b)
    BY <1>2, StackOf
  <2>2. QED
    BY <1>2, <2>1, KeptOf DEF Fine
<1>4. Kept(b, t) /\ (Fine(b) => Fine(t))
  BY <1>1, <1>2, PopFine DEF Fine
<1>5. Seen(s) /\ (\A i \in 0 .. s.current : Shown(s.slot[i])) =>
        t.lost \/ Shown(Top(t)) \/ NewResult(Top(t))
  <2>1. Seen(s) => Seen(b)
    BY <1>2, FirmOf
  <2>2. QED
    BY <1>1, <1>2, <2>1, PopShown
<1>6. QED
  BY <1>3, <1>4, <1>5, KeptTransitive

(***************************************************************************)
(* No slot is missing                                                      *)
(***************************************************************************)
\* Every menu is in a slot that it may be in, an OSD finds one on top of any
\* other menu, and what the end of a time test shows finds that of its page.
Nested(slot, l) ==
  /\ l \in Levels[slot.menu]
  /\ slot.off # "osd" => l + 1 \in Levels["osd"]
  /\ slot.off = "timer" => l \in Levels["result"] \cap Levels["dialog"]
Safe == {s \in States : ~s.lost /\ \A i \in 0 .. s.current : Nested(s.slot[i], i)}

LEMMA NestedNew ==
  ASSUME NEW menu \in DOMAIN Menus, NEW l \in Levels[menu], NEW slot, slot.menu = menu,
         menu # "osd" \/ slot.off = "osd",
         slot.off = "timer" => l \in Levels["result"] \cap Levels["dialog"]
  PROVE  Nested(slot, l)
  BY NestingAssumption DEF Nested

\* Moving the cursor and drawing leave all in its slot.
LEMMA SameSafe ==
  ASSUME NEW s \in Safe, NEW t \in States, Same(s, t)
  PROVE  t \in Safe /\ t.current = s.current
<1>1. s \in States /\ t.current = s.current /\ ~t.lost
      /\ \A i \in 0 .. Roots - 1 : t.slot[i].menu = s.slot[i].menu /\ t.slot[i].off = s.slot[i].off
  BY DEF Safe, Same
<1>2. \A i \in 0 .. s.current : i \in 0 .. Roots - 1
  BY <1>1, TopType
<1>3. \A i \in 0 .. t.current : Nested(t.slot[i], i)
  BY <1>1, <1>2 DEF Safe, Nested
<1>4. QED
  BY <1>1, <1>3 DEF Safe

LEMMA FlagsSafe ==
  ASSUME NEW s \in Safe, NEW t \in States, t.slot = s.slot, t.current = s.current, t.lost <=> s.lost
  PROVE  t \in Safe
  BY DEF Safe

\* ui_push_menu, for what has a slot.
LEMMA PushSafe ==
  ASSUME NEW s \in Safe, NEW menu \in DOMAIN Menus, NEW off \in Offs, s.current + 1 \in Levels[menu],
         menu # "osd" \/ off = "osd",
         off = "timer" => s.current + 1 \in Levels["result"] \cap Levels["dialog"]
  PROVE  Push(s, menu, off) \in Safe /\ Push(s, menu, off).current = s.current + 1
<1> DEFINE t == Push(s, menu, off)
<1>1. s \in States /\ s.current \in Nat /\ ~s.lost /\ s.current + 1 < Roots
  BY NestingAssumption, TopType DEF Safe
<1>2. t \in States /\ ~t.lost /\ Pushed(s, t, menu, off)
  BY <1>1, PushKept DEF Kept
<1> HIDE DEF t
<1>3. t.current = s.current + 1 /\ t.slot[t.current].menu = menu /\ t.slot[t.current].off = off
      /\ \A i \in 0 .. s.current : t.slot[i].menu = s.slot[i].menu /\ t.slot[i].off = s.slot[i].off
  BY <1>2 DEF Pushed, Below
<1>4. \A i \in 0 .. t.current : i \in 0 .. s.current \/ i = t.current
  BY <1>1, <1>3
<1>5. Nested(t.slot[t.current], t.current)
  BY <1>3, NestedNew
<1>6. \A i \in 0 .. s.current : Nested(t.slot[i], i)
  BY <1>3 DEF Safe, Nested
<1>7. QED
  BY <1>2, <1>3, <1>4, <1>5, <1>6 DEF Safe, t

LEMMA OsdSafe ==
  ASSUME NEW s \in Safe, NEW menu \in DOMAIN Menus, s.current + 1 \in Levels[menu]
  PROVE  EnableOsd(Push(s, menu, "osd")) \in Safe
         /\ EnableOsd(Push(s, menu, "osd")).current = s.current + 1
<1> DEFINE p == Push(s, menu, "osd")
           t == EnableOsd(p)
<1>1. p \in Safe /\ p \in States /\ p.current = s.current + 1
  BY PushSafe DEF Offs, Safe
<1> HIDE DEF p
<1>2. t \in States /\ t.slot = p.slot /\ t.current = p.current /\ t.lost = p.lost
  BY <1>1 DEF EnableOsd, States
<1> HIDE DEF t
<1>3. QED
  BY <1>1, <1>2, FlagsSafe DEF t, p

\* ui_info and ui_error, ui_confirm_wrapped, show_files
LEMMA AtOnceSafe ==
  ASSUME NEW s \in Safe
  PROVE  AtOnce(s) \in Safe /\ AtOnce(s).current = s.current
  BY AtOnceFine, SameSafe DEF Safe

LEMMA DialogSafe ==
  ASSUME NEW s \in Safe, s.current + 1 \in Levels["dialog"]
  PROVE  Dialog(s) \in Safe /\ Dialog(s).current = s.current + 1
<1>1. "dialog" \in DOMAIN Menus
  BY MenuAssumption
<1>2. CASE s.ui
  BY <1>1, <1>2, PushSafe, AtOnceSafe DEF Dialog, Offs
<1>3. CASE ~s.ui
  BY <1>1, <1>3, OsdSafe, AtOnceSafe DEF Dialog
<1>4. QED
  BY <1>2, <1>3

LEMMA ConfirmSafe ==
  ASSUME NEW s \in Safe, NEW menu \in DOMAIN Menus, Menus[menu].off = "none", s.current + 1 \in Levels[menu]
  PROVE  Confirm(s, menu) \in Safe /\ Confirm(s, menu).current = s.current + 1
<1>1. menu # "osd"
  BY NestingAssumption
<1>2. QED
  BY <1>1, PushSafe, AtOnceSafe DEF Confirm, Offs

LEMMA ShowFilesSafe ==
  ASSUME NEW s \in Safe, NEW menu \in FileLists, NEW reset \in BOOLEAN, s.current + 1 \in Levels[menu]
  PROVE  ShowFiles(s, menu, reset) \in Safe /\ ShowFiles(s, menu, reset).current = s.current + 1
<1>1. menu \in DOMAIN Menus /\ menu # "osd" /\ "none" \in Offs /\ s \in States
  BY MenuAssumption DEF Offs, Safe, FileLists
<1>2. Push(s, menu, "none") \in Safe /\ Push(s, menu, "none").current = s.current + 1
  BY <1>1, PushSafe
<1>3. ShowFiles(s, menu, reset) \in States /\ Same(Push(s, menu, "none"), ShowFiles(s, menu, reset))
  BY <1>1, ShowFilesCalm DEF Kept
<1>4. QED
  BY <1>2, <1>3, SameSafe

\* ui_pop_menu with its callback, which finds a slot for what it pushes.
LEMMA PopSafe ==
  ASSUME NEW s \in Safe, NEW t \in Pop(s), s.current > 0
  PROVE  t \in Safe /\ (Top(s).off # "timer" => t.current = s.current - 1)
<1> DEFINE p == Dropped(s)
           off == Top(s).off
<1>1. s \in States /\ s.current \in Nat /\ off \in Offs /\ Nested(s.slot[s.current], s.current)
      /\ off = s.slot[s.current].off /\ ~s.lost
  BY TopType DEF Safe, Slots, Offs, Top
<1>2. p \in States /\ Popped(s, p) /\ p.lost = s.lost
  BY <1>1, PopStep DEF Kept
<1>3. t \in PoppedOff(p, off)
  BY <1>1 DEF Pop, Dropped
<1> HIDE DEF p, off
<1>4. p \in Safe /\ p.current = s.current - 1
  <2>1. \A i \in 0 .. p.current : i \in 0 .. s.current /\ p.slot[i].menu = s.slot[i].menu
        /\ p.slot[i].off = s.slot[i].off
    BY <1>1, <1>2 DEF Popped, Below
  <2>2. QED
    BY <1>1, <1>2, <2>1 DEF Safe, Nested, Popped
<1>5. CASE t \in {p, DisableOsd(p), [p EXCEPT !.raw = FALSE], [p EXCEPT !.timing = FALSE]}
  <2>1. t \in States /\ t.slot = p.slot /\ t.current = p.current /\ t.lost = p.lost
    BY <1>2, <1>5 DEF DisableOsd, States
  <2>2. QED
    BY <1>4, <2>1, FlagsSafe
<1>6. CASE off = "timer" /\ t \in {Push(p, "result", "none"), Dialog(p)}
  <2>1. p.current + 1 = s.current /\ s.current \in Levels["result"] /\ s.current \in Levels["dialog"]
    BY <1>1, <1>4, <1>6 DEF Nested
  <2>2. "result" \in DOMAIN Menus
    BY MenuAssumption
  <2>3. QED
    BY <1>4, <1>6, <2>1, <2>2, PushSafe, DialogSafe DEF Offs, off
<1>7. QED
  BY <1>3, <1>5, <1>6 DEF PoppedOff

\* ui_pop_all_and_toggle
LEMMA PopAllSafe ==
  ASSUME NEW s \in Safe, NEW u \in PopAllAndToggle(s)
  PROVE  u \in Safe
<1> DEFINE D == [i \in Nat |-> SUBSET Safe]
           n == 2 * Roots
           only == {s}
<1>1. n \in Int /\ n \in Nat
  BY MenuAssumption
<1>2. only \in D[0]
  OBVIOUS
<1>3. ASSUME NEW i \in 1 .. n, NEW states \in D[i - 1] PROVE AfterPop(states) \in D[i]
  <2>1. i \in Nat /\ i - 1 \in Nat
    BY <1>1
  <2>2. \A x \in states : x \in Safe
    BY <1>3, <2>1
  <2>3. \A x \in states : \A y \in (IF x.current > 0 THEN Pop(x) ELSE {x}) : y \in Safe
    BY <2>2, PopSafe
  <2>4. AfterPop(states) \in SUBSET Safe
    BY <2>3 DEF AfterPop
  <2>5. QED
    BY <2>1, <2>4
<1>4. Times(n, AfterPop, only) \in D[IF n > 0 THEN n ELSE 0]
  <2> HIDE DEF D, n, only
  <2>1. \A i \in 1 .. n : \A t \in D[i - 1] : AfterPop(t) \in D[i]
    BY <1>3
  <2>2. QED
    BY <1>1, <1>2, <2>1, PopLoop
<1>5. Times(n, AfterPop, only) \in SUBSET Safe
  BY <1>1, <1>4
<1>6. PICK t \in Safe : u = Toggle(t)
  <2>1. PICK t \in Times(n, AfterPop, only) : u = Toggle(t)
    BY DEF PopAllAndToggle
  <2>2. QED
    BY <1>5, <2>1
<1>7. t \in States
  BY DEF Safe
<1>8. u \in States /\ u.current = t.current
  BY <1>6, <1>7, ToggleFine DEF Kept
<1>9. u.slot = t.slot /\ u.lost = t.lost
  BY <1>6, <1>7 DEF Toggle, States
<1>10. QED
  BY <1>8, <1>9, FlagsSafe

\* glob_osd_popped, and the OSDs of the quick functions
LEMMA ShowOsdSafe ==
  ASSUME NEW s \in Safe, Fine(s), NEW t \in ShowOsd(s, "osd")
  PROVE  t \in Safe
<1>1. s \in States /\ s.current \in Nat /\ Stack(s)
  BY TopType DEF Safe, Fine
<1>2. CASE s.ui /\ s.osd
  <2>1. PICK u \in PopAllAndToggle(s) : t = DisableOsd(u)
    BY <1>2 DEF ShowOsd, Dismiss
  <2>2. u \in Safe /\ u \in States
    BY <2>1, PopAllSafe DEF Safe
  <2>3. t \in States /\ t.slot = u.slot /\ t.current = u.current /\ t.lost = u.lost
    BY <2>1, <2>2 DEF DisableOsd, States
  <2>4. QED
    BY <2>2, <2>3, FlagsSafe
<1>3. CASE s.ui /\ ~s.osd
  BY <1>3 DEF ShowOsd, Dismiss
<1>4. CASE ~s.ui
  <2>1. t = EnableOsd(Push(s, "osd", "osd")) /\ "osd" \in DOMAIN Menus
    BY <1>4, MenuAssumption DEF ShowOsd
  <2>2. s.slot[s.current].off # "osd"
    <3>1. CASE s.current = 0
      BY <1>1, <3>1 DEF Stack, Rooted
    <3>2. CASE s.current # 0
      <4>1. s.current \in 1 .. s.current /\ ~s.osd
        BY <1>1, <1>4, <3>2 DEF Stack, OsdKept
      <4>2. QED
        BY <1>1, <4>1 DEF Stack, OsdKept, On
    <3>3. QED
      BY <3>1, <3>2
  <2>3. s.current + 1 \in Levels["osd"]
    <3>1. s.current \in 0 .. s.current
      BY <1>1
    <3>2. QED
      BY <2>2, <3>1 DEF Safe, Nested
  <2>4. QED
    BY <2>1, <2>3, OsdSafe
<1>5. QED
  BY <1>2, <1>3, <1>4

\* timing_hook, when the test's time is up
LEMMA TimeIsUpSafe ==
  ASSUME NEW s \in Safe, Fine(s), NEW t \in TimeIsUp(s)
  PROVE  t \in Safe
<1> DEFINE b == [s EXCEPT !.timing = FALSE]
<1>1. t \in Pop(b) /\ s.timing /\ s \in States /\ Stack(s)
  BY DEF TimeIsUp, Safe, Fine
<1>2. b \in States /\ b.slot = s.slot /\ b.current = s.current /\ b.lost = s.lost
  BY <1>1 DEF States
<1> HIDE DEF b
<1>3. s.current > 0
  <2>1. On(s, "timer")
    BY <1>1 DEF Stack, EndsKept
  <2>2. QED
    BY <1>1, <2>1, TopType DEF On
<1>4. QED
  BY <1>1, <1>2, <1>3, FlagsSafe, PopSafe

\* The slot of the menu on top before and after a step.
NextLevel(op, l) ==
  CASE op[1] = "pop" -> l - 1 [] op[1] = "exit" -> 0 [] op[1] = "item" -> l [] OTHER -> l + 1
LEMMA StepSafe ==
  ASSUME NEW s \in Safe, Calm(s), NEW op \in Steps, NEW t \in Step(s, op),
         op[1] \in {"push", "confirm", "files"} => s.current + 1 \in Levels[op[2]],
         op[1] = "dialog" => s.current + 1 \in Levels["dialog"],
         op[1] = "pop" => s.current > 0
  PROVE  t \in Safe /\ t.current = NextLevel(op, s.current)
<1>0. s \in States /\ ~s.lost /\ Stack(s) /\ NoEnds(s)
  BY DEF Safe, Calm
<1>1. CASE op = <<"dialog">>
  <2>1. t = Dialog(s)
    BY <1>1 DEF Step
  <2>2. QED
    BY <1>1, <2>1, DialogSafe DEF NextLevel
<1>2. CASE op = <<"pop">>
  <2>1. t \in Pop(s)
    BY <1>2 DEF Step
  <2>2. s.current > 0 /\ s.current \in 1 .. s.current
    BY <1>0, <1>2, TopType
  <2>3. Top(s).off # "timer"
    BY <1>0, <2>2 DEF NoEnds, Top, Ends
  <2>4. QED
    BY <1>2, <2>1, <2>2, <2>3, PopSafe DEF NextLevel
<1>3. CASE op = <<"exit">>
  <2>1. t \in PopAllAndToggle(s)
    BY <1>3 DEF Step
  <2>2. t \in Safe /\ t.current = 0
    BY <1>0, <2>1, PopAllSafe, PopAllFine DEF Fine, Safe
  <2>3. QED
    BY <1>3, <2>2 DEF NextLevel
<1>4. CASE op \in {<<"push", menu>> : menu \in {x \in DOMAIN Menus : Menus[x].off # "osd"}}
  <2>1. PICK menu \in DOMAIN Menus : Menus[menu].off # "osd" /\ op = <<"push", menu>>
    BY <1>4
  <2>2. op[1] = "push" /\ op[2] = menu
    BY <2>1
  <2> DEFINE off == Menus[menu].off
             raw == s.raw \/ off = "raw"
             timing == s.timing \/ off = "timer"
             b == [s EXCEPT !.raw = raw, !.timing = timing]
  <2>3. t = Push(b, menu, off)
    BY <2>2 DEF Step
  <2>4. menu # "osd" /\ off \in Offs /\ s.current + 1 \in Levels[menu]
        /\ (off = "timer" => s.current + 1 \in Levels["result"] \cap Levels["dialog"])
    <3>1. menu # "osd"
      BY <2>1, NestingAssumption
    <3>2. off \in Offs
      BY MenuAssumption DEF IsMenu, Offs
    <3>3. s.current + 1 \in Levels[menu]
      BY <2>2
    <3>4. QED
      BY <3>1, <3>2, <3>3, NestingAssumption
  <2>5. raw \in BOOLEAN /\ timing \in BOOLEAN
    BY Zenon
  <2> HIDE DEF raw, timing, off
  <2>6. b \in States /\ b.slot = s.slot /\ b.current = s.current /\ b.lost = s.lost
    BY <1>0, <2>5 DEF States
  <2> HIDE DEF b
  <2>7. b \in Safe
    BY <2>6, FlagsSafe
  <2>8. t \in Safe /\ t.current = s.current + 1
    BY <2>3, <2>4, <2>6, <2>7, PushSafe
  <2>9. QED
    BY <2>2, <2>8 DEF NextLevel
<1>5. CASE op \in {<<"files", menu, reset>> : menu \in FileLists, reset \in BOOLEAN}
  <2>1. PICK menu \in FileLists, reset \in BOOLEAN : op = <<"files", menu, reset>>
    BY <1>5
  <2>2. op[1] = "files" /\ op[2] = menu /\ op[3] = reset
    BY <2>1
  <2>3. t = ShowFiles(s, menu, reset)
    BY <2>2 DEF Step
  <2>4. QED
    BY <2>2, <2>3, ShowFilesSafe DEF NextLevel
<1>6. CASE op \in {<<"confirm", menu>> : menu \in {x \in DOMAIN Menus : Menus[x].off = "none"}}
  <2>1. PICK menu \in DOMAIN Menus : Menus[menu].off = "none" /\ op = <<"confirm", menu>>
    BY <1>6
  <2>2. op[1] = "confirm" /\ op[2] = menu
    BY <2>1
  <2>3. t = Confirm(s, menu)
    BY <2>2 DEF Step
  <2>4. QED
    BY <2>1, <2>2, <2>3, ConfirmSafe DEF NextLevel
<1>7. CASE op = <<"item">>
  BY <1>7 DEF Step, NextLevel
<1>8. QED
  BY <1>1, <1>2, <1>3, <1>4, <1>5, <1>6, <1>7 DEF Steps

\* The slots before the steps of a script follow from one another.
LEMMA LevelStep ==
  ASSUME NEW script, NEW n \in Nat, Len(script) = n, NEW l \in Int
  PROVE  /\ LevelBefore(script, l)[1] = l
         /\ \A i \in 1 .. n :
              LevelBefore(script, l)[i + 1] = NextLevel(script[i], LevelBefore(script, l)[i])
<1> DEFINE D == [i \in Nat |-> Int]
           g == [i \in 1 .. n |-> [x \in Int |-> NextLevel(script[i], x)]]
           Is(f) == f = [i \in 1 .. n + 1 |-> IF i = 1 THEN l ELSE NextLevel(script[i - 1], f[i - 1])]
           level == CHOOSE f : Is(f)
<1>1. PICK f : Iterates(f, n, D, g, l)
  <2>1. \A i \in 1 .. n : \A x \in D[i - 1] : g[i][x] \in D[i]
    <3>1. \A i \in 1 .. n : i \in Nat /\ i - 1 \in Nat
      OBVIOUS
    <3>2. \A i \in 1 .. n : \A x \in Int : g[i][x] \in Int
      BY DEF NextLevel
    <3>3. QED
      BY <3>1, <3>2
  <2>2. l \in D[0]
    OBVIOUS
  <2> HIDE DEF D, g
  <2>3. QED
    BY <2>1, <2>2, Iteration
<1>2. f[0] = l /\ \A i \in 1 .. n : f[i] = NextLevel(script[i], f[i - 1])
  <2>1. \A i \in 1 .. n : i - 1 \in Nat
    OBVIOUS
  <2>2. \A i \in 1 .. n : \A x \in Int : g[i][x] = NextLevel(script[i], x)
    OBVIOUS
  <2> HIDE DEF g
  <2>3. f[0] = l /\ \A i \in 1 .. n : f[i - 1] \in Int /\ f[i] = g[i][f[i - 1]]
    BY <1>1, <2>1 DEF Iterates
  <2>4. QED
    BY <2>2, <2>3
<1>3. Is([i \in 1 .. n + 1 |-> f[i - 1]])
  <2> DEFINE h == [i \in 1 .. n + 1 |-> f[i - 1]]
  <2>1. \A i \in 1 .. n + 1 : i # 1 => i - 1 \in 1 .. n /\ i - 1 \in 1 .. n + 1 /\ (i - 1) - 1 = i - 2
    OBVIOUS
  <2>2. \A i \in 1 .. n + 1 : i # 1 => f[i - 1] = NextLevel(script[i - 1], h[i - 1])
    BY <1>2, <2>1
  <2>3. f[1 - 1] = l
    BY <1>2
  <2>4. h = [i \in 1 .. n + 1 |-> IF i = 1 THEN l ELSE NextLevel(script[i - 1], h[i - 1])]
    BY <2>2, <2>3
  <2>5. QED
    BY <2>4
<1> HIDE DEF Is
<1>4. Is(level)
  BY <1>3
<1>5. LevelBefore(script, l) = level
  BY DEF LevelBefore, Is, NextLevel
<1> HIDE DEF level
<1>6. level[1] = l /\ \A i \in 1 .. n : level[i + 1] = NextLevel(script[i], level[i])
  <2>1. 1 \in 1 .. n + 1 /\ \A i \in 1 .. n : i + 1 \in 1 .. n + 1 /\ i + 1 # 1 /\ (i + 1) - 1 = i
    OBVIOUS
  <2>2. \A i \in 1 .. n + 1 : level[i] = IF i = 1 THEN l ELSE NextLevel(script[i - 1], level[i - 1])
    BY <1>4 DEF Is
  <2>3. QED
    BY <2>1, <2>2
<1>7. QED
  BY <1>5, <1>6

\* A handler that runs in the menu of the item never leaves the stack.
RanTo(s, script, i) ==
  {t \in Safe : /\ t.current = LevelBefore(script, s.current)[i + 1]
                /\ i < Len(script) /\ Stays(script, i) => Calm(t)}
LEMMA DoneSafe ==
  ASSUME NEW s \in Safe, NEW script, IsScript(script), IsNested(script, s.current),
         Calm(s) \/ (Fine(s) /\ script = Exit), NEW t \in Done(Len(script), script, {s})
  PROVE  t \in Safe
<1> DEFINE n == Len(script)
           D == [i \in Nat |-> SUBSET RanTo(s, script, i)]
           only == {s}
           level == LevelBefore(script, s.current)
<1>1. n \in Int /\ n \in Nat /\ s \in States /\ s.current \in Int
      /\ \A i \in 1 .. n : script[i] \in Steps /\ i \in Nat /\ i - 1 \in Nat /\ i - 1 < n /\ (i - 1) + 1 = i
  BY TopType DEF IsScript, Safe
<1>2. level[1] = s.current /\ \A i \in 1 .. n : level[i + 1] = NextLevel(script[i], level[i])
  BY <1>1, LevelStep
<1>3. CASE script = Exit
  <2>1. n = 1 /\ script[1] = <<"exit">>
    BY <1>3 DEF Exit
  <2>2. Done(n, script, only) = Done(1, script, only)
    BY <2>1
  <2> DEFINE E == [i \in Nat |-> SUBSET Safe]
  <2>3. ASSUME NEW i \in 1 .. 1, NEW states \in E[i - 1] PROVE StepAll(states, script[i]) \in E[i]
    <3>1. i = 1 /\ states \in SUBSET Safe
      BY <2>3
    <3>2. \A x \in states : \A y \in Step(x, <<"exit">>) : y \in Safe
      BY <3>1, PopAllSafe DEF Step
    <3>3. StepAll(states, script[i]) \in SUBSET Safe
      BY <2>1, <3>1, <3>2 DEF StepAll
    <3>4. QED
      BY <3>1, <3>3
  <2>4. only \in E[0]
    OBVIOUS
  <2>5. Done(1, script, only) \in E[IF 1 > 0 THEN 1 ELSE 0]
    <3> HIDE DEF E, only
    <3>1. \A i \in 1 .. 1 : \A x \in E[i - 1] : StepAll(x, script[i]) \in E[i]
      BY <2>3
    <3>2. QED
      BY <2>4, <3>1, RunLoop
  <2>6. QED
    BY <2>2, <2>5
<1>4. CASE Calm(s)
  <2>1. only \in D[0]
    BY <1>2, <1>4 DEF RanTo
  <2> HIDE DEF level
  <2>2. ASSUME NEW i \in 1 .. n, NEW states \in D[i - 1] PROVE StepAll(states, script[i]) \in D[i]
    <3> DEFINE op == script[i]
    <3>1. /\ op \in Steps /\ (i < n => (op[1] = "push" => Menus[op[2]].off = "none"))
          /\ op = <<"item">> \/ Stays(script, i - 1)
          /\ Stays(script, i) => Stays(script, i - 1) /\ op[1] # "exit"
      BY Leaving
    <3>2. /\ op[1] \in {"push", "confirm", "files"} => level[i] + 1 \in Levels[op[2]]
          /\ op[1] = "dialog" => level[i] + 1 \in Levels["dialog"]
          /\ op[1] = "pop" => level[i] > 0
      BY DEF IsNested, level
    <3> HIDE DEF op
    <3>3. ASSUME NEW x \in RanTo(s, script, i - 1), NEW y \in Step(x, op) PROVE y \in RanTo(s, script, i)
      <4>1. x \in Safe /\ x \in States /\ x.current = level[i] /\ (Stays(script, i - 1) => Calm(x))
        BY <1>1 DEF RanTo, Safe, level
      <4>2. y \in Safe /\ y.current = NextLevel(op, level[i])
        <5>1. CASE op = <<"item">>
          BY <3>3, <4>1, <5>1 DEF Step, NextLevel
        <5>2. CASE Calm(x)
          BY <3>1, <3>2, <3>3, <4>1, <5>2, StepSafe
        <5>3. QED
          BY <3>1, <4>1, <5>1, <5>2
      <4>3. y.current = level[i + 1]
        BY <1>2, <4>2 DEF op
      <4>4. i < n /\ Stays(script, i) => Calm(y)
        BY <3>1, <3>3, <4>1, StepFine
      <4>5. QED
        BY <4>2, <4>3, <4>4 DEF RanTo, level
    <3>4. states \in SUBSET RanTo(s, script, i - 1)
      BY <1>1, <2>2
    <3>5. StepAll(states, script[i]) \in SUBSET RanTo(s, script, i)
      BY <3>3, <3>4 DEF StepAll, op
    <3>6. QED
      BY <1>1, <3>5
  <2>3. Done(n, script, only) \in D[IF n > 0 THEN n ELSE 0]
    <3> HIDE DEF D, n, only
    <3>1. \A i \in 1 .. n : \A x \in D[i - 1] : StepAll(x, script[i]) \in D[i]
      BY <2>2
    <3>2. QED
      BY <1>1, <2>1, <3>1, RunLoop
  <2>4. Done(n, script, only) \in SUBSET RanTo(s, script, n)
    <3>1. (IF n > 0 THEN n ELSE 0) = n
      BY <1>1
    <3>2. QED
      BY <1>1, <2>3, <3>1
  <2>5. QED
    BY <2>4 DEF RanTo
<1>5. QED
  BY <1>3, <1>4

LEMMA RunSafe ==
  ASSUME NEW s \in Safe, NEW script, IsScript(script), IsNested(script, s.current),
         Calm(s) \/ (Fine(s) /\ script = Exit), NEW t \in Run(s, script)
  PROVE  t \in Safe \/ (t.lost /\ UsesFreed(script, s.current))
<1>1. PICK u \in Done(Len(script), script, {s}) :
        t = u \/ (UsesFreed(script, s.current) /\ t = [u EXCEPT !.lost = TRUE])
  BY RunEnds
<1>2. u \in Safe /\ u \in States
  BY DoneSafe DEF Safe
<1>3. t = [u EXCEPT !.lost = TRUE] => t.lost
  BY <1>2, LostOf DEF Lost
<1>4. QED
  BY <1>1, <1>2, <1>3

\* ui_action for an item that there is: only its handler may lose it.
LEMMA ActSafe ==
  ASSUME NEW s \in Safe, Fine(s), Awake(s), Top(s).item # 0, NEW action \in {"left", "right", "return"},
         NEW t \in Act(s, action)
  PROVE  t \in Safe \/ (t.lost /\ action = "return" /\ FreesItsItem(s))
<1> DEFINE slot == Top(s)
           it == Items(slot)[slot.item]
<1>0. s \in States /\ s.current \in 0 .. s.current
  BY TopType DEF Safe
<1>1. slot \in Slots /\ slot.menu \in DOMAIN Menus /\ slot.item \in DOMAIN Menus[slot.menu].items
      /\ s.current \in Levels[slot.menu]
  BY <1>0, TopType DEF Slots, Items, Safe, Nested, Top
<1>2. /\ \A script \in it.scripts : IsScript(script) /\ IsNested(script, s.current)
      /\ it.kind = "choice" => it.choice \in DOMAIN Lists
      /\ IsPage(slot.menu) => it.scripts \subseteq {Exit}
  <2>1. IsMenu(slot.menu)
    BY <1>1, MenuAssumption
  <2>2. \A script \in it.scripts : IsNested(script, s.current)
    BY <1>1, NestingAssumption DEF Items
  <2>3. QED
    BY <1>1, <2>1, <2>2 DEF IsMenu, IsPage, Items, Exit
<1>3. CASE it.kind = "choice"
  <2> DEFINE c == it.choice
             u == [s EXCEPT !.value[c] = Chosen(c, s.value[c], action)]
  <2>1. t = u
    BY <1>3 DEF Act
  <2>2. u \in States
    BY <1>0, <1>2, <1>3, ChoiceActed DEF Acted
  <2>3. u.slot = s.slot /\ u.current = s.current /\ u.lost = s.lost
    BY <1>0 DEF States
  <2>4. QED
    BY <2>1, <2>2, <2>3, FlagsSafe
<1>4. CASE it.kind = "folder" /\ action = "return"
  <2> DEFINE open == IF slot.item \in slot.open THEN slot.open \ {slot.item} ELSE slot.open \cup {slot.item}
             new == [slot EXCEPT !.open = open]
  <2>1. t = OnTop(s, new)
    BY <1>4 DEF Act
  <2>2. open \in SUBSET Nat
    BY <1>1 DEF Slots
  <2> HIDE DEF open
  <2>3. new \in Slots /\ new.menu = slot.menu /\ new.off = slot.off
    BY <1>1, <2>2 DEF Slots, Items
  <2> HIDE DEF new
  <2>4. QED
    BY <1>0, <2>1, <2>3, OnTopSame, SameSafe
<1>5. CASE it.kind = "button" /\ action = "return"
  <2>1. PICK script \in it.scripts : t \in Run(s, script)
    BY <1>5 DEF Act
  <2>2. Calm(s) \/ script = Exit
    <3>1. CASE NoEnds(s)
      BY <3>1 DEF Fine, Calm
    <3>2. CASE ~NoEnds(s)
      <4>1. PICK i \in 1 .. s.current : s.slot[i].off \in Ends
        BY <3>2 DEF NoEnds
      <4>2. s.current \in i .. s.current
        BY <1>0, <4>1, TopType
      <4>3. IsPage(slot.menu)
        BY <4>1, <4>2 DEF Stack, EndsOnTop, Top, Fine, Safe
      <4>4. QED
        BY <1>2, <2>1, <4>3
    <3>3. QED
      BY <3>1, <3>2
  <2>3. t \in Safe \/ (t.lost /\ UsesFreed(script, s.current))
    BY <1>2, <2>1, <2>2, RunSafe
  <2>4. QED
    BY <1>5, <2>1, <2>3 DEF FreesItsItem
<1>6. CASE ~(it.kind = "choice") /\ ~(it.kind = "folder" /\ action = "return")
           /\ ~(it.kind = "button" /\ action = "return")
  BY <1>6 DEF Act
<1>7. QED
  BY <1>3, <1>4, <1>5, <1>6

\* ui_action: only an item that there is not, or that its handler frees, is
\* what is not safe.
LEMMA ActionSafe ==
  ASSUME NEW s \in Safe, Fine(s), Awake(s), NEW t,
         NEW action \in {"up", "down", "left", "right", "return", "escape", "exit"}, t \in Action(s, action)
  PROVE  t \in Safe \/ (t.lost /\ (Top(s).item = 0 \/ (action = "return" /\ FreesItsItem(s))))
<1>0. s \in States /\ s.current \in Nat
  BY TopType DEF Safe
<1>1. CASE action \in {"up", "down"}
  <2>1. t \in {Up(s), Down(s)}
    BY <1>1 DEF Action
  <2>2. QED
    BY <1>0, <2>1, StepViews, SameSafe DEF Views
<1>2. CASE action \in {"left", "right", "return"}
  <2>1. t \in Act(s, action)
    BY <1>2 DEF Action
  <2>2. CASE Top(s).item # 0
    BY <1>2, <2>1, <2>2, ActSafe
  <2>3. CASE Top(s).item = 0
    <3>1. t = [s EXCEPT !.lost = TRUE]
      BY <2>1, <2>3 DEF Act
    <3>2. QED
      BY <1>0, <2>3, <3>1, LostOf DEF Lost
  <2>4. QED
    BY <2>2, <2>3
<1>3. CASE action = "escape" /\ s.current > 0 /\ ~s.osd
  BY <1>3, PopSafe DEF Action
<1>4. CASE action = "escape" /\ s.current = 0
  <2>1. t = Toggle(s)
    BY <1>4 DEF Action
  <2>2. t \in States /\ t.current = s.current
    BY <1>0, <2>1, ToggleFine DEF Kept
  <2>3. t.slot = s.slot /\ t.lost = s.lost
    BY <1>0, <2>1 DEF Toggle, States
  <2>4. QED
    BY <2>2, <2>3, FlagsSafe
<1>5. CASE action = "exit" \/ (action = "escape" /\ s.current > 0 /\ s.osd)
  BY <1>5, PopAllSafe DEF Action
<1>6. QED
  BY <1>0, <1>1, <1>2, <1>3, <1>4, <1>5

\* A step of the cursor leaves all else of the menu, but its window.
SameItems(slot, new) ==
  new.menu = slot.menu /\ new.open = slot.open /\ new.max = slot.max /\ new.item = slot.item

LEMMA MovedTop ==
  ASSUME NEW s \in States, NEW c \in Int, NEW a \in Int, NEW b \in Int
  PROVE  LET t == Told(OnTop(s, Moved(Top(s), c, a, b)))
         IN  SameItems(Top(s), Top(t)) /\ Top(t).cursor = c
<1> DEFINE slot == Top(s)
           new == Moved(slot, c, a, b)
           u == OnTop(s, new)
<1>1. slot \in Slots
  BY TopType
<1>2. new \in Slots /\ new.menu = slot.menu /\ new.off = slot.off /\ SameItems(slot, new) /\ new.cursor = c
  <2>1. new.open = slot.open /\ new.max = slot.max /\ new.cursor = c
    BY <1>1 DEF Moved, Slots
  <2>2. QED
    BY <1>1, <2>1, MovedSlot DEF SameItems
<1> HIDE DEF new
<1>3. u \in States /\ Top(u) = new
  BY <1>2, OnTopSame
<1> HIDE DEF u
<1>4. Top(Told(u)) = new
  BY <1>3, ToldSame DEF Same, Top
<1>5. QED
  BY <1>2, <1>4 DEF u, new, slot

LEMMA UpMoves ==
  ASSUME NEW s \in States
  PROVE  SameItems(Top(s), Top(Up(s)))
         /\ Top(Up(s)).cursor = IF Top(s).cursor - 1 < 0 THEN 0 ELSE Top(s).cursor - 1
<1> DEFINE slot == Top(s)
           c == IF slot.cursor - 1 < 0 THEN 0 ELSE slot.cursor - 1
           by == IF c <= slot.top - 1 THEN 1 ELSE 0
           a == slot.top - by
           b == slot.bottom - by
<1>1. c \in Int /\ a \in Int /\ b \in Int
  BY TopType DEF Slots
<1>2. Up(s) = Told(OnTop(s, Moved(slot, c, a, b)))
  BY DEF Up, Moved
<1> HIDE DEF c, a, b
<1>3. LET t == Told(OnTop(s, Moved(Top(s), c, a, b)))
      IN  SameItems(Top(s), Top(t)) /\ Top(t).cursor = c
  BY <1>1, MovedTop
<1>4. SameItems(Top(s), Top(Up(s))) /\ Top(Up(s)).cursor = c
  BY <1>2, <1>3
<1>5. QED
  BY <1>4 DEF c

LEMMA DownMoves ==
  ASSUME NEW s \in States
  PROVE  SameItems(Top(s), Top(Down(s)))
         /\ Top(Down(s)).cursor = IF Top(s).cursor + 1 >= Top(s).max THEN Top(s).max - 1 ELSE Top(s).cursor + 1
<1> DEFINE slot == Top(s)
           c == IF slot.cursor + 1 >= slot.max THEN slot.max - 1 ELSE slot.cursor + 1
           by == IF c >= slot.bottom THEN 1 ELSE 0
           a == slot.top + by
           b == slot.bottom + by
<1>1. c \in Int /\ a \in Int /\ b \in Int
  BY TopType DEF Slots
<1>2. Down(s) = Told(OnTop(s, Moved(slot, c, a, b)))
  BY DEF Down, Moved
<1> HIDE DEF c, a, b
<1>3. LET t == Told(OnTop(s, Moved(Top(s), c, a, b)))
      IN  SameItems(Top(s), Top(t)) /\ Top(t).cursor = c
  BY <1>1, MovedTop
<1>4. SameItems(Top(s), Top(Down(s))) /\ Top(Down(s)).cursor = c
  BY <1>2, <1>3
<1>5. QED
  BY <1>4 DEF c

\* ui_to_top gets to the top.
LEMMA ToTopMoves ==
  ASSUME NEW s \in States, Top(s).cursor \in Nat
  PROVE  SameItems(Top(s), Top(ToTop(s))) /\ Top(ToTop(s)).cursor = 0
<1> DEFINE n == Top(s).cursor
           Risen(i) == {t \in States : SameItems(Top(s), Top(t)) /\ Top(t).cursor = n - i}
           D == [i \in Nat |-> Risen(i)]
<1>1. n \in Nat /\ n \in Int
  OBVIOUS
<1>2. s \in D[0]
  BY <1>1 DEF SameItems
<1>3. ASSUME NEW i \in 1 .. n, NEW t \in D[i - 1] PROVE Up(t) \in D[i]
  <2>1. i \in Nat /\ i - 1 \in Nat /\ t \in Risen(i - 1)
    BY <1>1, <1>3
  <2>2. t \in States /\ SameItems(Top(s), Top(t)) /\ Top(t).cursor = n - (i - 1)
    BY <2>1
  <2>3. Top(Up(t)).cursor = n - i /\ SameItems(Top(t), Top(Up(t))) /\ Up(t) \in States
    BY <1>1, <2>2, UpMoves, UpSame
  <2>4. Up(t) \in Risen(i)
    BY <2>2, <2>3 DEF SameItems
  <2>5. QED
    BY <2>1, <2>4
<1>4. ToTop(s) = Times(n, Up, s)
  BY <1>1 DEF ToTop
<1>5. ToTop(s) \in D[IF n > 0 THEN n ELSE 0]
  <2> HIDE DEF D, n
  <2>1. \A i \in 1 .. n : \A t \in D[i - 1] : Up(t) \in D[i]
    BY <1>3
  <2>2. QED
    BY <1>1, <1>2, <1>4, <2>1, UpLoop
<1>6. ToTop(s) \in Risen(n)
  BY <1>1, <1>5
<1>7. QED
  BY <1>1, <1>6

\* Drawing leaves a cursor that is on an item, and does not lose the item.
LEMMA TraverseMoves ==
  ASSUME NEW s \in States, Top(s).item # 0, Top(s).max = Count(Top(s)),
         Top(s).cursor < Count(Top(s))
  PROVE  LET new == Top(Traverse(s))
         IN  /\ new.menu = Top(s).menu /\ new.open = Top(s).open /\ new.max = Top(s).max
             /\ new.item # 0 /\ new.cursor = Top(s).cursor
<1> DEFINE slot == Top(s)
           under == {i \in Drawn(slot) : Place(slot, i) = slot.cursor}
           seen == slot.cursor \in slot.top .. slot.bottom - 1 /\ under # {}
           new == Traversed(slot)
           u == OnTop(s, new)
<1>1. slot \in Slots /\ slot.menu \in DOMAIN Menus /\ slot.cursor \in Int /\ Count(slot) \in Nat
  BY TopType, CountType DEF Slots
<1>2. /\ new.max = slot.max
      /\ new.item = IF seen THEN CHOOSE i \in under : TRUE ELSE slot.item
      /\ new.cursor = IF slot.cursor >= Count(slot) THEN Count(slot) - 1 ELSE slot.cursor
      /\ new.menu = slot.menu /\ new.open = slot.open
  BY <1>1 DEF Traversed, Slots
<1>3. new.item # 0
  <2>1. CASE seen
    <3>1. new.item \in under
      BY <1>2, <2>1
    <3>2. new.item \in DOMAIN Items(slot)
      BY <3>1 DEF Drawn
    <3>3. QED
      BY <1>1, <3>2, ItemsType
  <2>2. CASE ~seen
    BY <1>2, <2>2
  <2>3. QED
    BY <2>1, <2>2
<1>4. new.cursor = slot.cursor
  BY <1>1, <1>2
<1>5. Traverse(s) \in {u, Told(u)}
  BY DEF Traverse
<1>6. new \in Slots /\ new.menu = Top(s).menu /\ new.off = Top(s).off
  BY <1>1, TraversedType
<1> HIDE DEF new
<1>7. u \in States /\ Top(u) = new
  BY <1>6, OnTopSame
<1> HIDE DEF u
<1>8. Top(Traverse(s)) = new
  BY <1>5, <1>7, ToldSame DEF Same, Top
<1>9. QED
  BY <1>2, <1>3, <1>4, <1>8

\* A search that starts where the drawing was right has gone i items on, round
\* the end to the top, as long as it is not done, and comes back to its start.
Sought(s, i) ==
  {r \in [s : States, done : BOOLEAN] :
     /\ Same(s, r.s)
     /\ ~r.done =>
          LET slot == Top(s)
              at == Top(r.s)
          IN  /\ i < slot.max /\ at.menu = slot.menu /\ at.open = slot.open /\ at.max = slot.max
              /\ at.item # 0
              /\ at.cursor = IF slot.cursor + i < slot.max THEN slot.cursor + i ELSE slot.cursor + i - slot.max}

LEMMA SearchSought ==
  ASSUME NEW s \in States, UpToDate(Top(s)), NEW letter, NEW i \in Nat, NEW r \in Sought(s, i)
  PROVE  Search(r, Top(s).cursor, letter) \in Sought(s, i + 1)
<1> DEFINE slot == Top(s)
           at == Top(r.s)
           start == slot.cursor
           t == IF at.cursor >= at.max - 1 THEN ToTop(r.s) ELSE Down(r.s)
           u == Traverse(t)
           found == Items(Top(u))[Top(u).item].letter = letter
<1>1. CASE r.done
  BY <1>1 DEF Search, Sought
<1>2. CASE ~r.done
  <2>1. /\ r.s \in States /\ Same(s, r.s) /\ i < slot.max /\ at.menu = slot.menu /\ at.open = slot.open
        /\ at.max = slot.max /\ at.item # 0
        /\ at.cursor = IF start + i < slot.max THEN start + i ELSE start + i - slot.max
    BY <1>2 DEF Sought
  <2>2. slot.max \in Nat /\ start \in 0 .. slot.max - 1 /\ slot.max = Count(slot)
    <3>1. slot \in Slots /\ slot.menu \in DOMAIN Menus
      BY TopType
    <3>2. QED
      BY <3>1, CountType, PlaceType DEF UpToDate, Matches
  <2>3. at.cursor \in Nat /\ at.max \in Int /\ at.cursor < slot.max
    BY <2>1, <2>2
  <2> DEFINE next == IF start + (i + 1) < slot.max THEN start + (i + 1) ELSE start + (i + 1) - slot.max
  <2>4. SameItems(at, Top(t)) /\ Top(t).cursor = next
    <3>1. CASE at.cursor >= at.max - 1
      <4>1. t = ToTop(r.s) /\ next = 0
        BY <2>1, <2>2, <2>3, <3>1
      <4>2. SameItems(at, Top(ToTop(r.s))) /\ Top(ToTop(r.s)).cursor = 0
        BY <2>1, <2>3, ToTopMoves
      <4> HIDE DEF next, t
      <4>3. QED
        BY <4>1, <4>2
    <3>2. CASE ~(at.cursor >= at.max - 1)
      <4>1. t = Down(r.s) /\ next = at.cursor + 1 /\ ~(at.cursor + 1 >= at.max)
        BY <2>1, <2>2, <2>3, <3>2
      <4>2. SameItems(at, Top(Down(r.s)))
            /\ Top(Down(r.s)).cursor = IF at.cursor + 1 >= at.max THEN at.max - 1 ELSE at.cursor + 1
        BY <2>1, DownMoves
      <4> HIDE DEF next, t
      <4>3. QED
        BY <4>1, <4>2
    <3>3. QED
      BY <3>1, <3>2
  <2>5. t \in States /\ Same(s, t)
    <3>1. ToTop(r.s) \in Views(r.s) /\ Down(r.s) \in Views(r.s)
      BY <2>1, ToTopView, StepViews
    <3>2. QED
      BY <2>1, <3>1, SameTransitive DEF Views
  <2>6. Search(r, start, letter) =
          CASE Top(t).cursor = start -> [s |-> t, done |-> TRUE]
            [] Top(t).cursor # start /\ Top(u).item = 0 -> [s |-> [u EXCEPT !.lost = TRUE], done |-> TRUE]
            [] OTHER -> [s |-> u, done |-> found]
    BY <1>2 DEF Search
  <2> HIDE DEF t
  <2>7. CASE Top(t).cursor = start
    <3>1. Search(r, start, letter) = [s |-> t, done |-> TRUE]
      BY <2>6, <2>7
    <3>2. [s |-> t, done |-> TRUE] \in Sought(s, i + 1)
      BY <2>5 DEF Sought
    <3>3. QED
      BY <3>1, <3>2
  <2>8. CASE Top(t).cursor # start
    <3>1. next # start /\ next < slot.max /\ i + 1 < slot.max
      BY <2>1, <2>2, <2>4, <2>8
    <3>2. Count(Top(t)) = slot.max /\ Top(t).max = slot.max /\ Top(t).item # 0
      <4>1. Top(t).menu = slot.menu /\ Top(t).open = slot.open /\ Top(t).max = slot.max /\ Top(t).item # 0
        BY <2>1, <2>4 DEF SameItems
      <4>2. Count(Top(t)) = Count(slot)
        BY <4>1, DrawnSame
      <4>3. QED
        BY <2>2, <4>1, <4>2
    <3> HIDE DEF next
    <3>3. /\ Top(u).menu = Top(t).menu /\ Top(u).open = Top(t).open /\ Top(u).max = Top(t).max
          /\ Top(u).item # 0 /\ Top(u).cursor = Top(t).cursor
      BY <2>4, <2>5, <3>1, <3>2, TraverseMoves
    <3>4. u \in States /\ Same(s, u)
      BY <2>5, TraverseSame, SameTransitive
    <3>5. found \in BOOLEAN
      BY Zenon
    <3> HIDE DEF u, found
    <3>6. Search(r, start, letter) = [s |-> u, done |-> found]
      BY <2>6, <2>8, <3>3
    <3>7. [s |-> u, done |-> found] \in Sought(s, i + 1)
      <4>1. Top(u).menu = slot.menu /\ Top(u).open = slot.open /\ Top(u).max = slot.max
            /\ Top(u).item # 0 /\ Top(u).cursor = next
        BY <2>1, <2>4, <3>2, <3>3 DEF SameItems
      <4>2. QED
        BY <3>1, <3>4, <3>5, <4>1 DEF Sought, next
    <3>8. QED
      BY <3>6, <3>7
  <2>9. QED
    BY <2>7, <2>8
<1>3. QED
  BY <1>1, <1>2

\* ui_find_first always comes to an end where the drawing was right.
LEMMA FindFirstSafe ==
  ASSUME NEW s \in Safe, UpToDate(Top(s)), NEW letter
  PROVE  FindFirst(s, letter) \in Safe
<1> DEFINE slot == Top(s)
           steps == Len(Items(slot)) + slot.max + 1
           start == slot.cursor
           first == [s |-> s, done |-> FALSE]
           D == [i \in Nat |-> Sought(s, i)]
           r == Searched(steps, start, letter, first)
<1>1. s \in States /\ slot \in Slots /\ slot.menu \in DOMAIN Menus
  BY TopType DEF Safe
<1>2. slot.max \in Nat /\ start \in 0 .. slot.max - 1 /\ slot.item # 0 /\ Len(Items(slot)) \in Nat
  <2>1. slot.item \in Drawn(slot) /\ Place(slot, slot.item) = start /\ slot.max = Count(slot)
    BY DEF UpToDate, Matches
  <2>2. slot.item \in DOMAIN Items(slot)
    BY <2>1 DEF Drawn
  <2>3. QED
    BY <1>1, <2>1, <2>2, CountType, PlaceType, ItemsType
<1>3. steps \in Int /\ steps \in Nat /\ steps > 0 /\ steps >= slot.max
  BY <1>2
<1>4. first \in D[0]
  <2>1. first \in Sought(s, 0)
    BY <1>1, <1>2, SameReflexive DEF Sought
  <2>2. QED
    BY <2>1
<1>5. ASSUME NEW i \in 1 .. steps, NEW t \in D[i - 1] PROVE Search(t, start, letter) \in D[i]
  <2>1. i \in Nat /\ i - 1 \in Nat /\ (i - 1) + 1 = i
    BY <1>3
  <2>2. t \in Sought(s, i - 1)
    BY <1>5, <2>1
  <2>3. Search(t, start, letter) \in Sought(s, i)
    BY <1>1, <2>1, <2>2, SearchSought
  <2>4. QED
    BY <2>1, <2>3
<1>6. r \in D[IF steps > 0 THEN steps ELSE 0]
  <2> HIDE DEF D, steps, first, start
  <2>1. \A i \in 1 .. steps : \A t \in D[i - 1] : Search(t, start, letter) \in D[i]
    BY <1>5
  <2>2. QED
    BY <1>3, <1>4, <2>1, SearchLoop
<1>7. r \in Sought(s, steps)
  <2> HIDE DEF r, steps
  <2>1. QED
    BY <1>3, <1>6
<1>8. FindFirst(s, letter) = IF r.done THEN r.s ELSE [s EXCEPT !.lost = TRUE]
  BY DEF FindFirst, Searched
<1> HIDE DEF r, steps
<1>9. r.done /\ r.s \in States /\ Same(s, r.s)
  BY <1>2, <1>3, <1>7 DEF Sought
<1>10. QED
  BY <1>8, <1>9, SameSafe

\* An item that was found where it was drawn is there.
LEMMA ItemFound ==
  ASSUME NEW s \in States, UpToDate(Top(s))
  PROVE  Top(s).item # 0
  BY TopType, ItemsType DEF UpToDate, Matches, Drawn

\* ui_check_key: only a key that finds the menu other than its last drawing did,
\* or one for an item that its handler frees, may use an item that is no more.
LEMMA HandleSafe ==
  ASSUME NEW s \in Safe, Fine(s), Awake(s), NEW key \in Keys, NEW t \in Handle(s, key)
  PROVE  t \in Safe \/ (t.lost /\ (~UpToDate(Top(s)) \/ FreesItsItem(s)))
<1>0. s \in States
  BY DEF Safe
<1>1. CASE key \in {"up", "down", "left", "right", "return", "escape", "exit"}
  <2>1. t \in Action(s, key)
    BY <1>1 DEF Handle
  <2>2. t \in Safe \/ (t.lost /\ (Top(s).item = 0 \/ FreesItsItem(s)))
    BY <1>1, <2>1, ActionSafe
  <2>3. UpToDate(Top(s)) => Top(s).item # 0
    BY <1>0, ItemFound
  <2>4. QED
    BY <2>2, <2>3
<1>2. CASE key \in {"top", "bottom", "pageup", "pagedown"}
  <2>1. PageRows \in Int
    BY MenuAssumption
  <2>2. ToTop(s) \in Views(s) /\ ToBottom(s) \in Views(s)
    BY <1>0, ToTopView, ToBottomView
  <2>3. Times(PageRows, Up, s) \in Views(s) /\ Times(PageRows, Down, s) \in Views(s)
    BY <1>0, <2>1, UpsView, DownsView
  <2>4. t \in {ToTop(s), ToBottom(s), Times(PageRows, Up, s), Times(PageRows, Down, s)}
    BY <1>2 DEF Handle
  <2>5. t \in Views(s)
    BY <2>2, <2>3, <2>4
  <2>6. QED
    BY <2>5, SameSafe DEF Views
<1>3. CASE key = "find"
  <2>1. t = TypeChar(s, "f")
    BY <1>3 DEF Handle
  <2>2. CASE UpToDate(Top(s))
    BY <1>0, <2>1, <2>2, FindFirstSafe, ItemFound DEF TypeChar
  <2>3. CASE ~UpToDate(Top(s))
    <3>1. t \in Views(s) \cup Lost(s)
      BY <1>0, <2>1, FindFirstView, LostOf DEF TypeChar
    <3>2. t \in Views(s) => t \in Safe
      BY SameSafe DEF Views
    <3>3. QED
      BY <2>3, <3>1, <3>2 DEF Lost
  <2>4. QED
    BY <2>2, <2>3
<1>4. CASE key = "released"
  BY <1>4 DEF Handle
<1>5. QED
  BY <1>1, <1>2, <1>3, <1>4 DEF Keys

(***************************************************************************)
(* The main loop                                                           *)
(***************************************************************************)
Arrows == {"up", "down", "left", "right"}

\* What of the invariant is about the stack alone; what the drawing leaves to
\* the first key of a round; and the invariant of a round.
Good(s) == s \in States /\ Fine(s) /\ ChoicesOk(s) /\ Seen(s) /\ (s.lost \/ s \in Safe)
AsDrawn(slot) == Shown(slot) \/ NewResult(slot)
IInv ==
  /\ Good(m)
  /\ phase = "copy" => ~m.lost
  /\ (phase = "copy" /\ m.ui) \/ (phase = "keys" /\ todo = MaxBatch) => AsDrawn(Top(m))
  /\ todo \in 0 .. MaxBatch
  /\ held \in Arrows \cup {"none"}

\* ui_init_menu
LEMMA InitFine ==
  ASSUME Init
  PROVE  IInv
<1> DEFINE none == {}
           no == FALSE
           zero == 0
           rows == Menus["root"].rows
           empty == [menu |-> "none", off |-> "none", open |-> none, item |-> zero, blind |-> no,
                     listener |-> "none", cursor |-> zero, top |-> zero, bottom |-> zero, max |-> zero]
           root == [empty EXCEPT !.menu = "root", !.bottom = rows]
           slots == [i \in 0 .. Roots - 1 |-> IF i > 0 THEN empty ELSE root]
           values == [c \in DOMAIN Lists |-> zero]
           files == [f \in FileLists |-> zero]
<1>1. /\ none \in SUBSET Nat /\ no \in BOOLEAN /\ zero \in Nat /\ zero = 0 /\ ~no
         /\ rows \in Nat /\ rows > 0
      /\ "root" \in DOMAIN Menus /\ Roots \in Nat /\ 0 \in 0 .. Roots - 1
  BY MenuAssumption DEF IsMenu
<1> HIDE DEF none, no, zero, rows
<1>2. m = [slot |-> slots, current |-> zero, ui |-> no, osd |-> no, entered |-> no,
           value |-> values, dirPos |-> files, raw |-> no, timing |-> no, lost |-> no, late |-> no]
  <2>1. NoSlot = empty
    BY DEF NoSlot, none, no, zero
  <2>2. [NoSlot EXCEPT !.menu = "root", !.bottom = Menus["root"].rows] = root
    BY <2>1 DEF rows
  <2> HIDE DEF empty, root
  <2>3. QED
    BY <2>1, <2>2 DEF Init, no, zero
<1>3. /\ empty \in Slots /\ root \in Slots /\ root.menu = "root" /\ root.off = "none"
      /\ root.cursor = 0 /\ root.top = 0 /\ root.bottom = rows
  <2>1. empty \in Slots /\ empty.item = 0 /\ empty.off = "none" /\ empty.cursor = 0 /\ empty.top = 0
    BY <1>1 DEF Slots
  <2> HIDE DEF empty
  <2> DEFINE name == "root"
             tall == [empty EXCEPT !.bottom = rows]
  <2>2. /\ tall \in Slots /\ tall.item = 0 /\ tall.off = "none" /\ rows \in Int
        /\ tall.cursor = 0 /\ tall.top = 0 /\ tall.bottom = rows
    BY <1>1, <2>1 DEF Slots, Items
  <2>3. root = [tall EXCEPT !.menu = name]
    OBVIOUS
  <2>4. name \in DOMAIN Menus
    BY <1>1
  <2> HIDE DEF tall, name, root
  <2>5. /\ root \in Slots /\ root.menu = name /\ root.off = "none"
        /\ root.cursor = 0 /\ root.top = 0 /\ root.bottom = rows
    BY <2>2, <2>3, <2>4 DEF Slots
  <2>6. QED
    BY <2>1, <2>5 DEF name
<1> HIDE DEF empty, root
<1>4. slots \in [0 .. Roots - 1 -> Slots] /\ slots[0] = root
  BY <1>1, <1>3
<1>5. values \in Values /\ files \in [FileLists -> Int]
      /\ \A c \in DOMAIN Lists : values[c] = 0
  BY <1>1, ListAssumption DEF Values
<1> HIDE DEF slots, values, files
<1>6. m.current = 0 /\ m.slot = slots /\ m.value = values /\ ~m.osd /\ ~m.raw /\ ~m.timing
      /\ ~m.lost
  BY <1>1, <1>2
<1>7. m \in States
  <2>1. m \in [slot : [0 .. Roots - 1 -> Slots], current : 0 .. Roots - 1, ui : BOOLEAN, osd : BOOLEAN,
               entered : BOOLEAN, value : Values, dirPos : [FileLists -> Int],
               raw : BOOLEAN, timing : BOOLEAN, lost : BOOLEAN, late : BOOLEAN]
    BY <1>1, <1>2, <1>4, <1>5
  <2>2. \A i \in 0 .. m.current : m.slot[i].menu \in DOMAIN Menus
    BY <1>1, <1>3, <1>4, <1>6
  <2>3. QED
    BY <2>1, <2>2 DEF States
<1>8. Fine(m)
  <2>1. \A off : ~On(m, off)
    BY <1>6 DEF On
  <2>2. QED
    BY <1>3, <1>4, <1>6, <2>1 DEF Fine, Stack, Rooted, OsdKept, EndsKept, EndsOnTop, ClosedEmpty
<1>9. ChoicesOk(m)
  BY <1>5, <1>6, ListAssumption DEF ChoicesOk, Enabled
<1>10. Seen(m)
  <2>1. Count(root) \in Nat \ {0}
    BY <1>1, <1>3, CountPositive
  <2>2. InView(root)
    BY <1>1, <1>3, <2>1 DEF InView, InWindow
  <2>3. QED
    BY <1>4, <1>6, <2>2 DEF Seen
<1>11. m \in Safe
  <2>1. 0 \in Levels["root"] /\ "root" # "osd"
    BY NestingAssumption
  <2>2. Nested(root, 0)
    BY <1>1, <1>3, <2>1, NestedNew
  <2>3. \A i \in 0 .. m.current : i = 0 /\ m.slot[i] = root
    BY <1>4, <1>6
  <2>4. QED
    BY <1>6, <1>7, <2>2, <2>3 DEF Safe
<1>12. phase = "copy" /\ todo = 0 /\ held = "none" /\ ~m.ui /\ MaxBatch \in Nat
  BY <1>1, <1>2, MenuAssumption DEF Init
<1>13. QED
  BY <1>6, <1>7, <1>8, <1>9, <1>10, <1>11, <1>12 DEF IInv, Good

\* A key that is noted leaves every menu in its slot.
LEMMA NotedSafe ==
  ASSUME NEW s \in Safe
  PROVE  /\ Noted(s) \in Safe /\ (UpToDate(Top(Noted(s))) <=> UpToDate(Top(s)))
         /\ FreesItsItem(Noted(s)) <=> FreesItsItem(s)
<1> DEFINE closed == s.late \/ ~s.ui
           late == [s EXCEPT !.late = closed]
           slot == [Top(late) EXCEPT !.blind = TRUE]
           t == OnTop(late, slot)
           right == UpToDate(Top(s))
<1>1. s \in States /\ closed \in BOOLEAN
  BY Zenon DEF Safe
<1>2. (right => Noted(s) = late) /\ (~right => Noted(s) = t)
  BY DEF Noted, OnTop, Top
<1> HIDE DEF closed, right
<1>3. late \in States /\ late.slot = s.slot /\ late.current = s.current /\ late.lost = s.lost
  BY <1>1 DEF States
<1> HIDE DEF late
<1>4. late \in Safe /\ Top(late) = Top(s)
  BY <1>1, <1>3, FlagsSafe DEF Top
<1>5. /\ slot \in Slots /\ slot.menu = Top(late).menu /\ slot.off = Top(late).off
      /\ slot.open = Top(s).open /\ slot.item = Top(s).item /\ slot.cursor = Top(s).cursor
      /\ slot.max = Top(s).max
  BY <1>3, <1>4, TopType DEF Slots, Items
<1> HIDE DEF slot
<1>6. t \in Safe /\ Top(t) = slot
  BY <1>3, <1>4, <1>5, OnTopSame, SameSafe
<1>7. UpToDate(slot) <=> UpToDate(Top(s))
  BY <1>4, <1>5, DrawnSame DEF UpToDate, Matches
<1>8. FreesItsItem(late) <=> FreesItsItem(s)
  BY <1>3, <1>4 DEF FreesItsItem
<1>9. FreesItsItem(t) <=> FreesItsItem(late)
  <2>1. Items(slot) = Items(Top(late)) /\ slot.item = Top(late).item /\ t.current = late.current
    BY <1>3, <1>4, <1>5, <1>6, OnTopSame DEF Items, Same
  <2>2. QED
    BY <1>6, <2>1 DEF FreesItsItem
<1>10. QED
  BY <1>2, <1>4, <1>6, <1>7, <1>8, <1>9

\* What a key does that is acted on.
LEMMA KeyGood ==
  ASSUME NEW s, Good(s), ~s.lost, NEW t, Acted(Noted(s), t),
         t \in Safe \/ t.lost
  PROVE  Good(t)
<1>1. s \in Safe /\ s \in States
  BY DEF Good
<1>2. Fine(Noted(s)) /\ Awake(Noted(s)) /\ Sharp(Noted(s)) /\ Noted(s).value = s.value
  BY <1>1, NotedFine DEF Good
<1>3. ChoicesOk(Noted(s))
  BY <1>2 DEF ChoicesOk, Good
<1>4. QED
  BY <1>1, <1>2, <1>3 DEF Acted, Good

\* ui_action for what a held arrow repeats: it calls no handler that frees its item.
LEMMA RepeatGood ==
  ASSUME NEW s, Good(s), ~s.lost, NEW action \in Arrows, NEW t \in Action(Noted(s), action)
  PROVE  Good(t) /\ (t.lost => ~UpToDate(Top(s)))
<1>1. s \in Safe /\ s \in States /\ action \in {"up", "down", "left", "right", "return", "escape", "exit"}
  BY DEF Good, Arrows
<1>2. Noted(s) \in Safe /\ Noted(s) \in States /\ Fine(Noted(s)) /\ Awake(Noted(s))
  BY <1>1, NotedSafe, NotedFine DEF Good
<1>3. Acted(Noted(s), t)
  BY <1>1, <1>2, ActionFine
<1>4. t \in Safe \/ (t.lost /\ Top(Noted(s)).item = 0)
  BY <1>1, <1>2, ActionSafe DEF Arrows
<1>5. t \in Safe \/ (t.lost /\ ~UpToDate(Top(s)))
  BY <1>1, <1>2, <1>4, ItemFound, NotedSafe
<1>6. t \in Safe => ~t.lost
  BY DEF Safe
<1>7. QED
  BY <1>3, <1>5, <1>6, KeyGood

\* ui_check_key for a key of a round's copy
LEMMA HandleGood ==
  ASSUME NEW s, Good(s), ~s.lost, NEW key \in Keys,
         NEW t \in Handle(IF key = "released" THEN s ELSE Noted(s), key)
  PROVE  Good(t) /\ (t.lost => ~UpToDate(Top(s)) \/ FreesItsItem(s))
<1>1. s \in Safe /\ s \in States
  BY DEF Good
<1>2. CASE key = "released"
  BY <1>2 DEF Handle
<1>3. CASE key # "released"
  <2>1. t \in Handle(Noted(s), key)
    BY <1>3
  <2>2. Noted(s) \in Safe /\ Noted(s) \in States /\ Fine(Noted(s)) /\ Awake(Noted(s))
    BY <1>1, NotedSafe, NotedFine DEF Good
  <2>3. Acted(Noted(s), t)
    BY <2>1, <2>2, HandleFine
  <2>4. t \in Safe \/ (t.lost /\ (~UpToDate(Top(Noted(s))) \/ FreesItsItem(Noted(s))))
    BY <2>1, <2>2, HandleSafe
  <2>5. t \in Safe \/ (t.lost /\ (~UpToDate(Top(s)) \/ FreesItsItem(s)))
    BY <1>1, <2>4, NotedSafe
  <2>6. t \in Safe => ~t.lost
    BY DEF Safe
  <2>7. QED
    BY <2>3, <2>5, <2>6, KeyGood
<1>4. QED
  BY <1>2, <1>3

\* What draws or handles the end of a test loses nothing.
LEMMA KeptGood ==
  ASSUME NEW s, Good(s), NEW t \in Safe, Kept(s, t), Fine(t)
  PROVE  Good(t)
  BY DEF Kept, ChoicesOk, Good

\* Every step of the main loop keeps the invariant, and what it loses it loses
\* by a key that finds its menu other than it was drawn, or whose handler frees
\* the item it reads.
Stale == ~UpToDate(Top(m)) /\ (todo < MaxBatch \/ Top(m).blind \/ NewResult(Top(m)))
Excused == phase = "keys" /\ (Stale \/ (phase' = "keys" /\ FreesItsItem(m)))
Round(s) ==
  /\ phase' = "copy" => ~s.lost
  /\ (phase' = "copy" /\ s.ui) \/ (phase' = "keys" /\ todo' = MaxBatch) => AsDrawn(Top(s))
  /\ todo' \in 0 .. MaxBatch /\ held' \in Arrows \cup {"none"}
LEMMA NextFine ==
  ASSUME IInv, [Next]_vars
  PROVE  IInv' /\ (~m.lost /\ m'.lost => Excused)
<1>0. /\ Good(m) /\ m \in States /\ todo \in 0 .. MaxBatch /\ MaxBatch \in Nat \ {0}
      /\ held \in Arrows \cup {"none"}
      /\ phase = "keys" /\ todo = MaxBatch => AsDrawn(Top(m))
  BY MenuAssumption DEF IInv, Good
<1>1. ASSUME Good(m'), Round(m') PROVE IInv'
  BY <1>1 DEF IInv, Good, Round
<1>2. ASSUME phase = "keys", ~UpToDate(Top(m)) PROVE Excused
  <2>1. CASE todo < MaxBatch
    BY <1>2, <2>1 DEF Excused, Stale
  <2>2. CASE ~(todo < MaxBatch)
    <3>1. AsDrawn(Top(m))
      BY <1>0, <1>2, <2>2
    <3>2. QED
      BY <1>2, <3>1 DEF Excused, Stale, AsDrawn, Shown
  <2>3. QED
    BY <2>1, <2>2
<1>3. CASE CopyKeys
  <2>1. m' = m /\ held' = held /\ ~m.lost /\ todo' = MaxBatch /\ phase = "copy"
        /\ phase' = IF m.ui THEN "keys" ELSE "quick"
    BY <1>3 DEF CopyKeys
  <2>2. Round(m)
    BY <1>0, <2>1 DEF Round, IInv
  <2>3. QED
    BY <1>0, <1>1, <2>1, <2>2
<1>4. CASE Key
  <2>1. PICK key \in Keys : /\ m' \in Handle(IF key = "released" THEN m ELSE Noted(m), key)
                            /\ held' = CASE key \in Arrows -> key
                                         [] key = "released" -> "none"
                                         [] OTHER -> held
    BY <1>4 DEF Key, Arrows
  <2>2. phase' = "keys" /\ phase = "keys" /\ todo > 0 /\ todo' = todo - 1 /\ ~m.lost
    BY <1>4 DEF Key
  <2>3. Good(m') /\ (m'.lost => ~UpToDate(Top(m)) \/ FreesItsItem(m))
    BY <1>0, <2>1, <2>2, HandleGood
  <2>4. held' \in Arrows \cup {"none"}
    BY <1>0, <2>1
  <2>5. Round(m')
    BY <1>0, <2>2, <2>4 DEF Round
  <2>6. m'.lost => Excused
    BY <1>2, <2>2, <2>3 DEF Excused
  <2>7. QED
    BY <1>1, <2>3, <2>5, <2>6
<1>5. CASE Repeat
  <2>1. phase' = "quick" /\ phase = "keys" /\ held' = held /\ todo' = todo /\ ~m.lost
    BY <1>5 DEF Repeat
  <2>2. Good(m') /\ (m'.lost => ~UpToDate(Top(m)))
    <3>1. CASE m' = m
      BY <1>0, <2>1, <3>1
    <3>2. CASE held # "none" /\ m' \in Action(Noted(m), held)
      <4>1. held \in Arrows
        BY <1>0, <3>2
      <4>2. QED
        BY <1>0, <2>1, <3>2, <4>1, RepeatGood
    <3>3. QED
      BY <1>5, <3>1, <3>2 DEF Repeat
  <2>3. Round(m')
    BY <1>0, <2>1 DEF Round
  <2>4. QED
    BY <1>1, <1>2, <2>1, <2>2, <2>3
<1>6. CASE ToggleOrQuick
  <2>1. m' = m \/ m' \in PopAllAndToggle(m) \/ m' \in ShowOsd(m, "osd")
    BY <1>6 DEF ToggleOrQuick
  <2>2. phase' = "draw" /\ held' = held /\ todo' = todo /\ ~m.lost
    BY <1>6 DEF ToggleOrQuick
  <2>3. m \in Safe /\ Fine(m)
    BY <1>0, <2>2 DEF Good
  <2>4. m' \in Safe
    BY <2>1, <2>3, PopAllSafe, ShowOsdSafe
  <2>5. Good(m')
    <3>1. CASE m' = m
      BY <1>0, <3>1
    <3>2. CASE m' # m
      BY <1>0, <2>1, <2>3, <2>4, <3>2, PopAllFine, ShowOsdFine, KeptGood
    <3>3. QED
      BY <3>1, <3>2
  <2>6. Round(m') /\ ~m'.lost
    BY <1>0, <2>2, <2>4 DEF Round, Safe
  <2>7. QED
    BY <1>1, <2>5, <2>6
<1>7. CASE DrawInTrap
  <2> DEFINE d == DrawnAll(m)
  <2>1. (m' = d \/ m' \in TimeIsUp(d)) /\ ~m.lost /\ held' = held /\ todo' = todo /\ phase' = "copy"
    BY <1>7 DEF DrawInTrap
  <2>2. d \in States /\ Same(m, d) /\ ~d.lost /\ Seen(d)
        /\ \A j \in 0 .. (m.current + 1) - 1 : j <= m.current => Shown(d.slot[j])
    BY <1>0, <2>1, DrawnAllShown DEF DrawnTo, Good
  <2> HIDE DEF d
  <2>3. \A j \in 0 .. d.current : Shown(d.slot[j])
    BY <1>0, <2>2, TopType DEF Same
  <2>4. Kept(m, d) /\ Fine(d) /\ Shown(Top(d))
    <3>1. d.current \in 0 .. d.current
      BY <2>2, TopType
    <3>2. Shown(Top(d))
      BY <2>3, <3>1 DEF Top
    <3>3. QED
      BY <1>0, <2>1, <2>2, <3>2, SameFine DEF Kept, Same, Good
  <2>5. d \in Safe
    BY <1>0, <2>1, <2>2, SameSafe DEF Good
  <2>6. m' \in Safe
    BY <2>1, <2>4, <2>5, TimeIsUpSafe
  <2>7. ~m'.lost
    BY <2>6 DEF Safe
  <2>8. Kept(m, m') /\ Fine(m') /\ AsDrawn(Top(m'))
    <3>1. CASE m' = d
      BY <2>4, <3>1 DEF AsDrawn
    <3>2. CASE m' \in TimeIsUp(d)
      BY <2>2, <2>3, <2>4, <2>7, <3>2, TimeIsUpFine, KeptTransitive DEF AsDrawn
    <3>3. QED
      BY <2>1, <3>1, <3>2
  <2>9. Good(m') /\ Round(m')
    BY <1>0, <2>1, <2>6, <2>7, <2>8, KeptGood DEF Round
  <2>10. QED
    BY <1>1, <2>7, <2>9
<1>8. CASE DrawAtSync
  <2> DEFINE d == Traverse(m)
             no == FALSE
             e == [d EXCEPT !.entered = no]
  <2>1. ~m.lost /\ (m' = IF m.ui THEN e ELSE m) /\ held' = held /\ todo' = todo /\ phase' = "copy"
    BY <1>8 DEF DrawAtSync
  <2>2. d \in States /\ Same(m, d) /\ Firm(d) /\ Shown(Top(d))
    BY <1>0, <2>1, TraverseSame, TraverseSeen DEF Good
  <2>3. no \in BOOLEAN
    OBVIOUS
  <2> HIDE DEF d, no
  <2>4. Kept(m, d) /\ Fine(d) /\ d \in Safe
    <3>1. Firm(d) => Seen(d)
      BY DEF Firm, Seen
    <3>2. QED
      BY <1>0, <2>1, <2>2, <3>1, SameFine, SameSafe DEF Kept, Same, Good
  <2>5. e \in States /\ Same(d, e) /\ e.slot = d.slot /\ e.current = d.current
        /\ e.value = d.value /\ e.lost = d.lost
    BY <2>2, <2>3 DEF States, Same
  <2> HIDE DEF e
  <2>6. Kept(d, e) /\ Fine(e) /\ Top(e) = Top(d) /\ e \in Safe
    BY <2>2, <2>4, <2>5, KeptOf, SameFine, FlagsSafe DEF Top
  <2>7. Good(e) /\ AsDrawn(Top(e)) /\ ~e.lost
    BY <1>0, <2>2, <2>4, <2>6, KeptTransitive, KeptGood DEF AsDrawn, Safe
  <2>8. Good(m') /\ Round(m') /\ ~m'.lost
    BY <1>0, <2>1, <2>7 DEF Round
  <2>9. QED
    BY <1>1, <2>8
<1>9. CASE UNCHANGED vars
  <2>1. m' = m /\ phase' = phase /\ todo' = todo /\ held' = held
    BY <1>9 DEF vars
  <2>2. Round(m)
    BY <1>0, <2>1 DEF Round, IInv
  <2>3. QED
    BY <1>0, <1>1, <2>1, <2>2
<1>10. QED
  BY <1>3, <1>4, <1>5, <1>6, <1>7, <1>8, <1>9 DEF Next

\* The invariant of the stack: its slots have their types, its flags go with
\* what is on it, and what it may not leave behind it does not.
THEOREM StackInvariant == Spec => []IInv
<1>1. Init => IInv
  BY InitFine
<1>2. IInv /\ [Next]_vars => IInv'
  BY NextFine
<1>3. QED
  BY <1>1, <1>2, PTL DEF Spec

\* OSD, raw monitor and time test are on exactly as long as the menu is on
\* the stack whose popping ends them (ui_pop_menu, on_popped_off).
THEOREM CallbacksAlwaysMatch == Spec => []CallbacksMatch
<1>1. IInv => CallbacksMatch
  <2> SUFFICES ASSUME m \in States, Stack(m) PROVE CallbacksMatch
    BY DEF IInv, Good, Fine, CallbacksMatch
  <2>1. \A off : On(m, off) <=> \E slot \in OnStack : slot.off = off
    BY DEF On, OnStack
  <2>2. m.timing /\ ~m.late => Top(m).off = "timer"
    BY DEF Stack, EndsKept, EndsOnTop, On, Ends, Top
  <2>3. QED
    BY <2>1, <2>2 DEF CallbacksMatch, Stack, OsdKept, EndsKept
<1>2. QED
  BY <1>1, StackInvariant, PTL

\* A menu that was closed in its own round has left nothing on the stack
\* (ui_toggle, ui_pop_all_and_toggle).
THEOREM ClosedAlwaysClean == Spec => []ClosedIsClean
<1>1. IInv => ClosedIsClean
  BY DEF IInv, Good, Fine, Stack, OsdKept, ClosedEmpty, ClosedIsClean
<1>2. QED
  BY <1>1, StackInvariant, PTL

\* A choice is always one that may be chosen, but that return may run on past
\* the last one where that may not (ui_action, case MULTIPLE_CHOICE).
THEOREM ChoicesAlwaysEnabled == Spec => []ChoicesAreEnabled
<1>1. IInv => ChoicesAreEnabled
  BY DEF IInv, Good, ChoicesOk, ChoicesAreEnabled, States, Values
<1>2. QED
  BY <1>1, StackInvariant, PTL

\* What is drawn has its cursor in the window on the item that return will
\* act on (ui_traverse, ui_action), unless a key was acted on meanwhile when
\* what its last drawing found was no longer so.
THEOREM CursorAlwaysInView == Spec => []CursorInView
<1>1. IInv => CursorInView
  BY DEF IInv, AsDrawn, Shown, InWindow, UpToDate, CursorInView, Drawing
<1>2. QED
  BY <1>1, StackInvariant, PTL

\* An item that is no more is used, a search ends nowhere or the stack is left
\* only by a key that finds its menu other than it was drawn, or by one for an
\* item whose handler reads it when it has popped, and so freed, its menu;
\* whatever handlers that nest as NestingAssumption says it opens and closes
\* (ui_action, ui_find_first, ui_push_menu, ui_pop_menu, select_file).
THEOREM LossesAlwaysExplained == Spec => LossesAreExplained
<1>1. IInv /\ [Next]_vars =>
        [~m.lost /\ m'.lost =>
           /\ phase = "keys"
           /\ \/ ~UpToDate(Top(m)) /\ (todo < MaxBatch \/ Top(m).blind \/ NewResult(Top(m)))
              \/ phase' = "keys" /\ FreesItsItem(m)]_vars
  BY NextFine DEF Excused, Stale
<1>2. QED
  BY <1>1, StackInvariant, PTL DEF Spec, LossesAreExplained
====
