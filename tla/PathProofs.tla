------------------------------ MODULE PathProofs ------------------------------
(***************************************************************************)
(* Lemmas about paths: normalising one does not change where it leads, and *)
(* leaves nothing to normalise.                                            *)
(***************************************************************************)
EXTENDS ConfigLoading, OperatorLemmas

-----------------------------------------------------------------------------
(* Walking and normalising, step by step.                                  *)

Down(d, p) == FoldLeft(Enter, d, p)
Pushed(absolute, p) == FoldLeft(LAMBDA done, part : Push(absolute, done, part), <<>>, p)

EnterStep(S) == [q \in Seq(S) \X S |-> Enter(q[1], q[2])]
PushStep(absolute, S) == [q \in Seq(S) \X S |-> Push(absolute, q[1], q[2])]

\* One step leads from sequences to sequences.
LEMMA StepsAreFunctions ==
    ASSUME NEW S, NEW absolute
    PROVE  /\ EnterStep(S) \in [Seq(S) \X S -> Seq(S)]
           /\ PushStep(absolute, S) \in [Seq(S) \X S -> Seq(S)]
           /\ \A d \in Seq(S), x \in S :
                 /\ EnterStep(S)[<<d, x>>] = Enter(d, x)
                 /\ PushStep(absolute, S)[<<d, x>>] = Push(absolute, d, x)
<1>1. ASSUME NEW d \in Seq(S), NEW x \in S
      PROVE  Enter(d, x) \in Seq(S) /\ Push(absolute, d, x) \in Seq(S)
  <2>1. Append(d, x) \in Seq(S) /\ (d # <<>> => Front(d) \in Seq(S))
    BY DEF Front
  <2>2. Enter(d, x) \in Seq(S)
    BY <2>1 DEF Enter
  <2>3. Leaves(d) => d # <<>>
    BY DEF Leaves
  <2>4. Push(absolute, d, x) \in Seq(S)
    BY <2>1, <2>3 DEF Push
  <2> QED
    BY <2>2, <2>4
<1>2. \A q \in Seq(S) \X S : /\ Enter(q[1], q[2]) \in Seq(S)
                             /\ Push(absolute, q[1], q[2]) \in Seq(S)
  BY <1>1
<1> QED
  BY <1>2 DEF EnterStep, PushStep

\* A step of normalising, as an atom.
LEMMA PushStepIs ==
    ASSUME NEW S, NEW absolute, NEW d \in Seq(S), NEW x \in S
    PROVE  PushStep(absolute, S)[<<d, x>>] = Push(absolute, d, x)
BY Zenon DEF PushStep

\* Down goes through the parts one after the other.
LEMMA DownFolds ==
    ASSUME NEW S, NEW d \in Seq(S), NEW p \in Seq(S)
    PROVE  \E f : /\ FoldResults(f, Len(p), p, Seq(S), d, EnterStep(S))
                  /\ Down(d, p) = f[1 .. Len(p)]
<1> DEFINE n == Len(p)
           X == Seq(S)
           iter == CHOOSE f : f = [s \in SUBSET (DOMAIN p) |->
                       IF s = {} THEN d ELSE Enter(f[s \ {Max(s)}], p[Max(s)])]
<1>1. n \in Nat /\ DOMAIN p = 1 .. n /\ d \in X /\ \A i \in 1 .. n : p[i] \in S
  OBVIOUS
<1>2. Down(d, p) = iter[DOMAIN p]
  BY DEF Down, FoldLeft, MapThenFoldSet
<1> HIDE DEF iter
<1>3. PICK g : FoldResults(g, n, p, X, d, EnterStep(S))
  <2>1. EnterStep(S) \in [X \X S -> X]
    BY StepsAreFunctions
  <2> HIDE DEF X
  <2> QED
    BY <1>1, <2>1, FoldExists
<1>4. ASSUME NEW f, FoldResults(f, n, p, X, d, EnterStep(S)), NEW s \in SUBSET (1 .. n)
      PROVE  f[s] = IF s = {} THEN d ELSE Enter(f[s \ {Max(s)}], p[Max(s)])
  <2>1. /\ f \in [SUBSET (1 .. n) -> X]
        /\ f[s] = IF s = {} THEN d ELSE EnterStep(S)[<<f[s \ {Max(s)}], p[Max(s)]>>]
    BY <1>4 DEF FoldResults
  <2>2. CASE s = {}
    BY <2>1, <2>2
  <2>3. CASE s # {}
    <3>1. Max(s) \in 1 .. n /\ s \ {Max(s)} \in SUBSET (1 .. n)
      BY <1>1, <2>3, Positions
    <3>2. f[s \ {Max(s)}] \in Seq(S) /\ p[Max(s)] \in S
      BY <1>1, <2>1, <3>1
    <3>3. EnterStep(S)[<<f[s \ {Max(s)}], p[Max(s)]>>] = Enter(f[s \ {Max(s)}], p[Max(s)])
      BY <3>2, StepsAreFunctions
    <3> QED
      BY <2>1, <2>3, <3>3
  <2> QED
    BY <2>2, <2>3
<1>5. g = [s \in SUBSET (1 .. n) |->
             IF s = {} THEN d ELSE Enter(g[s \ {Max(s)}], p[Max(s)])]
  <2>1. g \in [SUBSET (1 .. n) -> X]
    BY <1>3 DEF FoldResults
  <2> QED
    BY <1>3, <1>4, <2>1
<1>6. iter = [s \in SUBSET (1 .. n) |->
                 IF s = {} THEN d ELSE Enter(iter[s \ {Max(s)}], p[Max(s)])]
  BY <1>1, <1>5, Zenon DEF iter
<1>7. Down(d, p) = g[1 .. n]
  <2>1. iter[{}] = g[{}]
    BY <1>3, <1>4, <1>6
  <2>2. ASSUME NEW k \in 1 .. n, iter[1 .. k - 1] = g[1 .. k - 1]
        PROVE  iter[1 .. k] = g[1 .. k]
    <3> DEFINE s == 1 .. k
    <3>1. s \in SUBSET (1 .. n) /\ s # {} /\ Max(s) = k /\ s \ {k} = 1 .. k - 1
      BY <1>1, Positions
    <3> HIDE DEF s
    <3>2. iter[s] = Enter(iter[s \ {k}], p[k])
      BY <1>6, <3>1
    <3>3. g[s] = Enter(g[s \ {k}], p[k])
      BY <1>3, <1>4, <3>1
    <3>4. iter[s] = g[s]
      BY <2>2, <3>1, <3>2, <3>3, Zenon
    <3> QED
      BY <3>4 DEF s
  <2>3. iter[1 .. n] = g[1 .. n]
    BY <1>1, <2>1, <2>2, SameResults
  <2> QED
    BY <1>1, <1>2, <2>3
<1> QED
  BY <1>3, <1>7
\* So does normalising one after the other.
LEMMA PushedFolds ==
    ASSUME NEW absolute, NEW S, NEW p \in Seq(S)
    PROVE  \E f : /\ FoldResults(f, Len(p), p, Seq(S), <<>>, PushStep(absolute, S))
                  /\ Pushed(absolute, p) = f[1 .. Len(p)]
<1> DEFINE n == Len(p)
           X == Seq(S)
           iter == CHOOSE f : f = [s \in SUBSET (DOMAIN p) |->
                       IF s = {} THEN <<>> ELSE Push(absolute, f[s \ {Max(s)}], p[Max(s)])]
<1>1. n \in Nat /\ DOMAIN p = 1 .. n /\ <<>> \in X /\ \A i \in 1 .. n : p[i] \in S
  OBVIOUS
<1>2. Pushed(absolute, p) = iter[DOMAIN p]
  BY DEF Pushed, FoldLeft, MapThenFoldSet
<1> HIDE DEF iter
<1>3. PICK g : FoldResults(g, n, p, X, <<>>, PushStep(absolute, S))
  <2>1. PushStep(absolute, S) \in [X \X S -> X]
    BY StepsAreFunctions
  <2> HIDE DEF X
  <2> QED
    BY <1>1, <2>1, FoldExists
<1>4. ASSUME NEW f, FoldResults(f, n, p, X, <<>>, PushStep(absolute, S)), NEW s \in SUBSET (1 .. n)
      PROVE  f[s] = IF s = {} THEN <<>> ELSE Push(absolute, f[s \ {Max(s)}], p[Max(s)])
  <2>1. /\ f \in [SUBSET (1 .. n) -> X]
        /\ f[s] = IF s = {} THEN <<>> ELSE PushStep(absolute, S)[<<f[s \ {Max(s)}], p[Max(s)]>>]
    BY <1>4 DEF FoldResults
  <2>2. CASE s = {}
    BY <2>1, <2>2
  <2>3. CASE s # {}
    <3>1. Max(s) \in 1 .. n /\ s \ {Max(s)} \in SUBSET (1 .. n)
      BY <1>1, <2>3, Positions
    <3>2. f[s \ {Max(s)}] \in Seq(S) /\ p[Max(s)] \in S
      BY <1>1, <2>1, <3>1
    <3>3. PushStep(absolute, S)[<<f[s \ {Max(s)}], p[Max(s)]>>] = Push(absolute, f[s \ {Max(s)}], p[Max(s)])
      BY <3>2, PushStepIs
    <3> QED
      BY <2>1, <2>3, <3>3
  <2> QED
    BY <2>2, <2>3
<1>5. g = [s \in SUBSET (1 .. n) |->
             IF s = {} THEN <<>> ELSE Push(absolute, g[s \ {Max(s)}], p[Max(s)])]
  <2>1. g \in [SUBSET (1 .. n) -> X]
    BY <1>3 DEF FoldResults
  <2> QED
    BY <1>3, <1>4, <2>1
<1>6. iter = [s \in SUBSET (1 .. n) |->
                 IF s = {} THEN <<>> ELSE Push(absolute, iter[s \ {Max(s)}], p[Max(s)])]
  BY <1>1, <1>5, Zenon DEF iter
<1>7. Pushed(absolute, p) = g[1 .. n]
  <2>1. iter[{}] = g[{}]
    BY <1>3, <1>4, <1>6
  <2>2. ASSUME NEW k \in 1 .. n, iter[1 .. k - 1] = g[1 .. k - 1]
        PROVE  iter[1 .. k] = g[1 .. k]
    <3> DEFINE s == 1 .. k
    <3>1. s \in SUBSET (1 .. n) /\ s # {} /\ Max(s) = k /\ s \ {k} = 1 .. k - 1
      BY <1>1, Positions
    <3> HIDE DEF s
    <3>2. iter[s] = Push(absolute, iter[s \ {k}], p[k])
      BY <1>6, <3>1
    <3>3. g[s] = Push(absolute, g[s \ {k}], p[k])
      BY <1>3, <1>4, <3>1
    <3>4. iter[s] = g[s]
      BY <2>2, <3>1, <3>2, <3>3, Zenon
    <3> QED
      BY <3>4 DEF s
  <2>3. iter[1 .. n] = g[1 .. n]
    BY <1>1, <2>1, <2>2, SameResults
  <2> QED
    BY <1>1, <1>2, <2>3
<1> QED
  BY <1>3, <1>7

\* The same by the sequence: none is where the walk starts, one more is one step more.
LEMMA DownSteps ==
    ASSUME NEW S, NEW d \in Seq(S)
    PROVE  /\ Down(d, <<>>) = d
           /\ \A p \in Seq(S) : Down(d, p) \in Seq(S)
           /\ \A p \in Seq(S), x \in S : Down(d, Append(p, x)) = Enter(Down(d, p), x)
<1> DEFINE step == EnterStep(S)
           X == Seq(S)
<1>1. Down(d, <<>>) = d
  <2>1. PICK f : FoldResults(f, Len(<<>>), <<>>, X, d, step) /\ Down(d, <<>>) = f[1 .. Len(<<>>)]
    <3>1. <<>> \in Seq(S)
      OBVIOUS
    <3> QED
      BY <3>1, DownFolds
  <2>2. Len(<<>>) = 0 /\ 0 \in Nat /\ 1 .. 0 = {}
    OBVIOUS
  <2>3. StepByStep(f, Len(<<>>), <<>>, d, step)
    BY <2>1, <2>2, FoldSteps
  <2> QED
    BY <2>1, <2>2, <2>3 DEF StepByStep
<1>2. ASSUME NEW p \in Seq(S) PROVE Down(d, p) \in Seq(S)
  <2>1. PICK f : FoldResults(f, Len(p), p, X, d, step) /\ Down(d, p) = f[1 .. Len(p)]
    BY DownFolds
  <2>2. 1 .. Len(p) \in SUBSET (1 .. Len(p)) /\ f \in [SUBSET (1 .. Len(p)) -> X]
    BY <2>1 DEF FoldResults
  <2> QED
    BY <2>1, <2>2
<1>3. ASSUME NEW p \in Seq(S), NEW x \in S
      PROVE  Down(d, Append(p, x)) = Enter(Down(d, p), x)
  <2> DEFINE q == Append(p, x)
  <2>1. q \in Seq(S)
    OBVIOUS
  <2>2. q = Append(p, x)
    OBVIOUS
  <2> HIDE DEF q
  <2>3. PICK f : FoldResults(f, Len(p), p, X, d, step) /\ Down(d, p) = f[1 .. Len(p)]
    BY DownFolds
  <2>4. PICK g : FoldResults(g, Len(q), q, X, d, step) /\ Down(d, q) = g[1 .. Len(q)]
    BY <2>1, DownFolds
  <2> HIDE DEF X, step
  <2>5. g[1 .. Len(q)] = step[<<f[1 .. Len(p)], x>>]
    <3>1. FoldResults(f, Len(p), p, X, d, step)
      BY <2>3
    <3>2. FoldResults(g, Len(q), q, X, d, step)
      BY <2>4
    <3>3. OneMore(g, q, f, p, x, step)
      BY <2>2, <3>1, <3>2, FoldAppend
    <3> QED
      BY <3>3 DEF OneMore
  <2>6. Down(d, q) = step[<<Down(d, p), x>>]
    BY <2>3, <2>4, <2>5
  <2>7. step[<<Down(d, p), x>>] = Enter(Down(d, p), x)
    BY <1>2, StepsAreFunctions DEF step
  <2> QED
    BY <2>6, <2>7 DEF q
<1> QED
  BY <1>1, <1>2, <1>3


\* Normalising starts with nothing done, and one part more is one step more.
LEMMA PushedSteps ==
    ASSUME NEW S, NEW absolute, NEW p \in Seq(S)
    PROVE  /\ Pushed(absolute, <<>>) = <<>>
           /\ Pushed(absolute, p) \in Seq(S)
           /\ \A x \in S : Pushed(absolute, Append(p, x)) = Push(absolute, Pushed(absolute, p), x)
<1> DEFINE step == PushStep(absolute, S)
           X == Seq(S)
<1>1. Pushed(absolute, <<>>) = <<>>
  <2>1. PICK f : FoldResults(f, Len(<<>>), <<>>, X, <<>>, step) /\ Pushed(absolute, <<>>) = f[1 .. Len(<<>>)]
    <3>1. <<>> \in Seq(S)
      OBVIOUS
    <3> QED
      BY <3>1, PushedFolds
  <2>2. Len(<<>>) = 0 /\ 0 \in Nat /\ 1 .. 0 = {}
    OBVIOUS
  <2>3. StepByStep(f, Len(<<>>), <<>>, <<>>, step)
    BY <2>1, <2>2, FoldSteps
  <2> QED
    BY <2>1, <2>2, <2>3 DEF StepByStep
<1>2. Pushed(absolute, p) \in Seq(S)
  <2>1. PICK f : FoldResults(f, Len(p), p, X, <<>>, step) /\ Pushed(absolute, p) = f[1 .. Len(p)]
    BY PushedFolds
  <2>2. 1 .. Len(p) \in SUBSET (1 .. Len(p)) /\ f \in [SUBSET (1 .. Len(p)) -> X]
    BY <2>1 DEF FoldResults
  <2> QED
    BY <2>1, <2>2
<1>3. ASSUME NEW x \in S
      PROVE  Pushed(absolute, Append(p, x)) = Push(absolute, Pushed(absolute, p), x)
  <2> DEFINE q == Append(p, x)
  <2>1. q \in Seq(S)
    OBVIOUS
  <2>2. q = Append(p, x)
    OBVIOUS
  <2> HIDE DEF q
  <2>3. PICK f : FoldResults(f, Len(p), p, X, <<>>, step) /\ Pushed(absolute, p) = f[1 .. Len(p)]
    BY PushedFolds
  <2>4. PICK g : FoldResults(g, Len(q), q, X, <<>>, step) /\ Pushed(absolute, q) = g[1 .. Len(q)]
    BY <2>1, PushedFolds
  <2> HIDE DEF X, step
  <2>5. g[1 .. Len(q)] = step[<<f[1 .. Len(p)], x>>]
    <3>1. FoldResults(f, Len(p), p, X, <<>>, step)
      BY <2>3
    <3>2. FoldResults(g, Len(q), q, X, <<>>, step)
      BY <2>4
    <3>3. OneMore(g, q, f, p, x, step)
      BY <2>2, <3>1, <3>2, FoldAppend
    <3> QED
      BY <3>3 DEF OneMore
  <2>6. Pushed(absolute, q) = step[<<Pushed(absolute, p), x>>]
    BY <2>3, <2>4, <2>5
  <2>7. step[<<Pushed(absolute, p), x>>] = Push(absolute, Pushed(absolute, p), x)
    BY <1>2, PushStepIs, Zenon DEF step
  <2> QED
    BY <2>6, <2>7 DEF q
<1> QED
  BY <1>1, <1>2, <1>3
-----------------------------------------------------------------------------
(* Where a path leads.                                                     *)

\* A path behind another leads from where that one leads.
LEMMA DownAcross ==
    ASSUME NEW S, NEW d \in Seq(S), NEW p \in Seq(S), NEW q \in Seq(S)
    PROVE  Down(d, p \o q) = Down(Down(d, p), q)
<1> DEFINE e == Down(d, p)
           T == {r \in Seq(S) : Down(d, p \o r) = Down(e, r)}
<1>1. e \in Seq(S)
  BY DownSteps
<1> HIDE DEF e
<1>2. <<>> \in T
  <2>1. p \o <<>> = p /\ <<>> \in Seq(S)
    OBVIOUS
  <2>2. Down(e, <<>>) = e
    BY <1>1, DownSteps
  <2> QED
    BY <2>1, <2>2 DEF e
<1>3. ASSUME NEW r \in Seq(S), NEW x \in S, r \in T PROVE Append(r, x) \in T
  <2>1. p \o r \in Seq(S) /\ Append(r, x) \in Seq(S)
    OBVIOUS
  <2>2. p \o Append(r, x) = Append(p \o r, x)
    BY <2>1
  <2>3. Down(d, Append(p \o r, x)) = Enter(Down(d, p \o r), x)
    <3> DEFINE pr == p \o r
    <3>1. pr \in Seq(S)
      BY <2>1
    <3> HIDE DEF pr
    <3>2. Down(d, Append(pr, x)) = Enter(Down(d, pr), x)
      BY <3>1, DownSteps
    <3> QED
      BY <3>2 DEF pr
  <2>4. Down(e, Append(r, x)) = Enter(Down(e, r), x)
    BY <1>1, DownSteps
  <2>5. Down(d, p \o r) = Down(e, r)
    BY <1>3
  <2>6. Down(d, p \o Append(r, x)) = Down(e, Append(r, x))
    BY <2>2, <2>3, <2>4, <2>5, Zenon
  <2> QED
    BY <2>1, <2>6
<1>4. q \in T
  <2> HIDE DEF T
  <2> QED
    BY <1>2, <1>3, SeqInduction
<1> QED
  BY <1>4 DEF e

\* The parts of a normal path: no ".", and ".." only at the start of a relative one.
IsNormal(absolute, p) ==
    \A i \in 1 .. Len(p) :
        /\ p[i] # "."
        /\ p[i] = ".." => ~absolute /\ \A j \in 1 .. i - 1 : p[j] = ".."

\* The first parts of a normal path are one, and its last is one that a path keeps.
LEMMA NormalAppend ==
    ASSUME NEW S, NEW absolute, NEW p \in Seq(S), NEW x \in S
    PROVE  IsNormal(absolute, Append(p, x)) <=>
               /\ IsNormal(absolute, p) /\ x # "."
               /\ x = ".." => ~absolute /\ \A j \in 1 .. Len(p) : p[j] = ".."
<1> DEFINE n == Len(p)
           q == Append(p, x)
<1>1. n \in Nat /\ Len(q) = n + 1 /\ q[n + 1] = x /\ \A i \in 1 .. n : q[i] = p[i]
  OBVIOUS
<1> HIDE DEF n, q
<1>2. ASSUME IsNormal(absolute, q)
      PROVE  /\ IsNormal(absolute, p) /\ x # "."
             /\ x = ".." => ~absolute /\ \A j \in 1 .. n : p[j] = ".."
  <2>1. n + 1 \in 1 .. Len(q) /\ (n + 1) - 1 = n /\ \A i \in 1 .. n : i \in 1 .. Len(q)
    BY <1>1
  <2>2. x # "." /\ (x = ".." => ~absolute /\ \A j \in 1 .. n : q[j] = "..")
    BY <1>1, <1>2, <2>1 DEF IsNormal
  <2>3. ASSUME NEW i \in 1 .. n
        PROVE  /\ p[i] # "."
               /\ p[i] = ".." => ~absolute /\ \A j \in 1 .. i - 1 : p[j] = ".."
    <3>1. \A j \in 1 .. i - 1 : j \in 1 .. n
      BY <1>1
    <3>2. /\ q[i] # "."
          /\ q[i] = ".." => ~absolute /\ \A j \in 1 .. i - 1 : q[j] = ".."
      BY <1>2, <2>1 DEF IsNormal
    <3> QED
      BY <1>1, <3>1, <3>2
  <2> QED
    BY <1>1, <2>2, <2>3 DEF IsNormal, n
<1>3. ASSUME IsNormal(absolute, p), x # ".",
             x = ".." => ~absolute /\ \A j \in 1 .. n : p[j] = ".."
      PROVE  IsNormal(absolute, q)
  <2> SUFFICES ASSUME NEW i \in 1 .. n + 1
               PROVE  /\ q[i] # "."
                      /\ q[i] = ".." => ~absolute /\ \A j \in 1 .. i - 1 : q[j] = ".."
    BY <1>1 DEF IsNormal
  <2>1. CASE i = n + 1
    <3>1. i - 1 = n
      BY <1>1, <2>1
    <3> QED
      BY <1>1, <1>3, <2>1, <3>1
  <2>2. CASE i # n + 1
    <3>1. i \in 1 .. n /\ \A j \in 1 .. i - 1 : j \in 1 .. n
      BY <1>1, <2>2
    <3>2. /\ p[i] # "."
          /\ p[i] = ".." => ~absolute /\ \A j \in 1 .. i - 1 : p[j] = ".."
      BY <1>3, <3>1 DEF IsNormal, n
    <3> QED
      BY <1>1, <3>1, <3>2
  <2> QED
    BY <2>1, <2>2
<1> QED
  BY <1>2, <1>3 DEF n, q

\* A sequence that is not empty is what it was before its last element.
LEMMA FrontAndLast ==
    ASSUME NEW S, NEW p \in Seq(S), p # <<>>
    PROVE  Front(p) \in Seq(S) /\ Last(p) \in S /\ p = Append(Front(p), Last(p))
BY DEF Front, Last

\* An element put behind a sequence can be taken away again.
LEMMA FrontOfAppend ==
    ASSUME NEW S, NEW p \in Seq(S), NEW x \in S
    PROVE  Append(p, x) # <<>> /\ Front(Append(p, x)) = p
<1>1. Len(Append(p, x)) = Len(p) + 1 /\ Len(p) \in Nat
  OBVIOUS
<1>2. Append(p, x) # <<>>
  BY <1>1
<1>3. SubSeq(Append(p, x), 1, Len(p)) = p
  OBVIOUS
<1> QED
  BY <1>1, <1>2, <1>3 DEF Front

\* One step of normalising keeps the path normal, and leads on from where it led.
LEMMA PushLeads ==
    ASSUME NEW S, NEW absolute \in BOOLEAN, NEW d \in Seq(S), absolute => d = <<>>,
           NEW done \in Seq(S), IsNormal(absolute, done), NEW x \in S
    PROVE  /\ IsNormal(absolute, Push(absolute, done, x))
           /\ Down(d, Push(absolute, done, x)) = Enter(Down(d, done), x)
<1> DEFINE f == Front(done)
           y == Last(done)
<1>1. done # <<>> => f \in Seq(S) /\ y \in S /\ done = Append(f, y)
  BY FrontAndLast
<1> HIDE DEF f, y
<1>2. Down(d, Append(done, x)) = Enter(Down(d, done), x) /\ Down(d, <<>>) = d
  BY DownSteps
<1>3. CASE x = "."
  <2>1. Push(absolute, done, x) = done /\ \A e : Enter(e, x) = e
    BY <1>3 DEF Push, Enter
  <2> QED
    BY <2>1
<1>4. CASE x \notin {".", ".."}
  <2>1. Push(absolute, done, x) = Append(done, x)
    BY <1>4 DEF Push
  <2>2. IsNormal(absolute, Append(done, x))
    BY <1>4, NormalAppend
  <2> QED
    BY <1>2, <2>1, <2>2
<1>5. CASE x = ".." /\ Leaves(done)
  <2>1. done # <<>> /\ y # ".."
    BY <1>5 DEF Leaves, y
  <2>2. Push(absolute, done, x) = f
    BY <1>5 DEF Push, f
  <2>3. IsNormal(absolute, f) /\ y # "."
    <3>1. f \in Seq(S) /\ y \in S /\ IsNormal(absolute, Append(f, y))
      BY <1>1, <2>1
    <3> QED
      BY <3>1, NormalAppend
  <2>4. Down(d, f) \in Seq(S) /\ Down(d, done) = Enter(Down(d, f), y)
    <3>1. f \in Seq(S) /\ y \in S
      BY <1>1, <2>1
    <3>2. Down(d, f) \in Seq(S) /\ Down(d, Append(f, y)) = Enter(Down(d, f), y)
      BY <3>1, DownSteps
    <3> QED
      BY <1>1, <2>1, <3>2
  <2> DEFINE e == Down(d, f)
  <2> HIDE DEF e
  <2>5. Enter(e, y) = Append(e, y)
    <3>1. y \notin {".", ".."}
      BY <2>1, <2>3
    <3> QED
      BY <3>1 DEF Enter
  <2>6. e \in Seq(S) /\ y \in S
    BY <1>1, <2>1, <2>4 DEF e
  <2>7. Append(e, y) # <<>> /\ Front(Append(e, y)) = e
    BY <2>6, FrontOfAppend
  <2>8. Enter(Append(e, y), x) = e
    BY <1>5, <2>7 DEF Enter
  <2> QED
    BY <2>2, <2>3, <2>4, <2>5, <2>8 DEF e
<1>6. CASE x = ".." /\ ~Leaves(done)
  <2>1. done # <<>> => y = ".."
    BY <1>6 DEF Leaves, y
  <2>2. \A j \in 1 .. Len(done) : done[j] = ".."
    <3>1. CASE done = <<>>
      BY <3>1
    <3>2. CASE done # <<>>
      <4>1. \A j \in 1 .. Len(f) : f[j] = ".."
        <5>1. f \in Seq(S) /\ y \in S /\ IsNormal(absolute, Append(f, y)) /\ y = ".."
          BY <1>1, <2>1, <3>2
        <5> QED
          BY <5>1, NormalAppend
      <4>2. Len(f) \in Nat /\ Len(done) = Len(f) + 1 /\ done[Len(f) + 1] = y
        BY <1>1, <3>2
      <4>3. \A j \in 1 .. Len(f) : done[j] = f[j]
        BY <1>1, <3>2
      <4> QED
        BY <2>1, <3>2, <4>1, <4>2, <4>3
    <3> QED
      BY <3>1, <3>2
  <2>3. CASE absolute
    <3>1. done = <<>>
      BY <1>1, <2>1, <2>3, NormalAppend
    <3>2. Push(absolute, done, x) = done
      BY <1>6, <2>3 DEF Push
    <3>3. Enter(<<>>, x) = <<>>
      BY <1>6 DEF Enter
    <3> QED
      BY <1>2, <2>3, <3>1, <3>2, <3>3
  <2>4. CASE ~absolute
    <3>1. Push(absolute, done, x) = Append(done, x)
      BY <1>6, <2>4 DEF Push
    <3>2. IsNormal(absolute, Append(done, x))
      BY <1>6, <2>2, <2>4, NormalAppend
    <3> QED
      BY <1>2, <3>1, <3>2
  <2> QED
    BY <2>3, <2>4
<1> QED
  BY <1>3, <1>4, <1>5, <1>6
\* Normalising leads where the path leads, from every directory, or from the root for
\* an absolute path.
LEMMA PushedLeads ==
    ASSUME NEW S, NEW absolute \in BOOLEAN, NEW d \in Seq(S), absolute => d = <<>>,
           NEW p \in Seq(S)
    PROVE  /\ Pushed(absolute, p) \in Seq(S)
           /\ IsNormal(absolute, Pushed(absolute, p))
           /\ Down(d, Pushed(absolute, p)) = Down(d, p)
<1> DEFINE T == {r \in Seq(S) : /\ IsNormal(absolute, Pushed(absolute, r))
                                /\ Down(d, Pushed(absolute, r)) = Down(d, r)}
<1>1. <<>> \in T
  <2>1. Pushed(absolute, <<>>) = <<>> /\ <<>> \in Seq(S)
    <3>1. <<>> \in Seq(S)
      OBVIOUS
    <3> QED
      BY <3>1, PushedSteps
  <2>2. IsNormal(absolute, <<>>)
    BY DEF IsNormal
  <2> QED
    BY <2>1, <2>2
<1>2. ASSUME NEW r \in Seq(S), NEW x \in S, r \in T PROVE Append(r, x) \in T
  <2> DEFINE done == Pushed(absolute, r)
  <2>1. done \in Seq(S) /\ Pushed(absolute, Append(r, x)) = Push(absolute, done, x)
    BY PushedSteps
  <2>2. IsNormal(absolute, done) /\ Down(d, done) = Down(d, r)
    BY <1>2
  <2> HIDE DEF done
  <2>3. /\ IsNormal(absolute, Push(absolute, done, x))
        /\ Down(d, Push(absolute, done, x)) = Enter(Down(d, done), x)
    BY <2>1, <2>2, PushLeads
  <2>4. Down(d, Append(r, x)) = Enter(Down(d, r), x) /\ Append(r, x) \in Seq(S)
    BY DownSteps
  <2>5. Down(d, Pushed(absolute, Append(r, x))) = Down(d, Append(r, x))
    BY <2>1, <2>2, <2>3, <2>4, Zenon
  <2>6. IsNormal(absolute, Pushed(absolute, Append(r, x)))
    BY <2>1, <2>3, Zenon
  <2> QED
    BY <2>4, <2>5, <2>6
<1>3. p \in T
  <2> HIDE DEF T
  <2> QED
    BY <1>1, <1>2, SeqInduction
<1> QED
  BY <1>3, PushedSteps

\* A normal path stays as it is.
LEMMA NormalStays ==
    ASSUME NEW S, NEW absolute \in BOOLEAN, NEW p \in Seq(S), IsNormal(absolute, p)
    PROVE  Pushed(absolute, p) = p
<1> DEFINE T == {r \in Seq(S) : IsNormal(absolute, r) => Pushed(absolute, r) = r}
<1>1. <<>> \in T
  <2>1. Pushed(absolute, <<>>) = <<>> /\ <<>> \in Seq(S)
    <3>1. <<>> \in Seq(S)
      OBVIOUS
    <3> QED
      BY <3>1, PushedSteps
  <2> QED
    BY <2>1
<1>2. ASSUME NEW r \in Seq(S), NEW x \in S, r \in T PROVE Append(r, x) \in T
  <2> SUFFICES ASSUME IsNormal(absolute, Append(r, x))
               PROVE  Pushed(absolute, Append(r, x)) = Append(r, x)
    OBVIOUS
  <2>1. /\ IsNormal(absolute, r) /\ x # "."
        /\ x = ".." => ~absolute /\ \A j \in 1 .. Len(r) : r[j] = ".."
    BY NormalAppend
  <2>2. Pushed(absolute, r) = r
    BY <1>2, <2>1
  <2>3. Pushed(absolute, Append(r, x)) = Push(absolute, r, x)
    <3>1. Pushed(absolute, Append(r, x)) = Push(absolute, Pushed(absolute, r), x)
      BY PushedSteps
    <3> QED
      BY <2>2, <3>1, Zenon
  <2>4. CASE x # ".."
    BY <2>1, <2>3, <2>4 DEF Push
  <2>5. CASE x = ".."
    <3>1. ~Leaves(r)
      <4>1. CASE r = <<>>
        BY <4>1 DEF Leaves
      <4>2. CASE r # <<>>
        <5>1. Len(r) \in 1 .. Len(r)
          BY <4>2
        <5>2. r[Len(r)] = ".."
          BY <2>1, <2>5, <5>1
        <5> QED
          BY <5>2 DEF Leaves, Last
      <4> QED
        BY <4>1, <4>2
    <3> QED
      BY <2>1, <2>3, <2>5, <3>1 DEF Push
  <2> QED
    BY <2>4, <2>5
<1>3. p \in T
  <2> HIDE DEF T
  <2> QED
    BY <1>1, <1>2, SeqInduction
<1> QED
  BY <1>3
-----------------------------------------------------------------------------
(* Paths as records.                                                       *)

\* The parts of a path and a directory have a common set of elements.
LEMMA CommonParts ==
    ASSUME NEW p, NEW q, NEW d, IsPath(p), IsPath(q), IsSeq(d)
    PROVE  \E S : "." \in S /\ p.parts \in Seq(S) /\ q.parts \in Seq(S) /\ d \in Seq(S)
<1>1. p.parts \in Seq(ToSet(p.parts)) /\ q.parts \in Seq(ToSet(q.parts))
  BY DEF IsPath
<1>2. PICK D : d \in Seq(D)
  BY DEF IsSeq
<1> DEFINE S == ToSet(p.parts) \cup ToSet(q.parts) \cup D \cup {"."}
<1>3. "." \in S /\ ToSet(p.parts) \subseteq S /\ ToSet(q.parts) \subseteq S /\ D \subseteq S
  OBVIOUS
<1> HIDE DEF S
<1> QED
  BY <1>1, <1>2, <1>3

\* A sequence of parts is a path, absolute or not.
LEMMA PartsMakeAPath ==
    ASSUME NEW absolute \in BOOLEAN, NEW S, NEW parts \in Seq(S),
           NEW p, p = [absolute |-> absolute, parts |-> parts]
    PROVE  IsPath(p) /\ p.absolute = absolute /\ p.parts = parts
<1>1. parts \in Seq(ToSet(parts))
  <2>1. \A i \in 1 .. Len(parts) : parts[i] \in ToSet(parts)
    BY DEF ToSet
  <2> QED
    BY <2>1
<1> QED
  BY <1>1 DEF IsPath

\* A path is the record of its two parts.
LEMMA PathShape ==
    ASSUME NEW p, IsPath(p)
    PROVE  /\ p.absolute \in BOOLEAN
           /\ p = [absolute |-> p.absolute, parts |-> p.parts]
           /\ \A t : [p EXCEPT !.parts = t] = [absolute |-> p.absolute, parts |-> t]
BY DEF IsPath

\* Walking is going down from where the path starts.
LEMMA WalkIsDown ==
    ASSUME NEW d, NEW p
    PROVE  /\ Walk(d, p) = Down(Start(d, p), p.parts)
           /\ p.absolute => Start(d, p) = <<>>
           /\ ~p.absolute => Start(d, p) = d
BY DEF Walk, Down, Start

\* The parts of the normalised path are those that normalising ends with.
LEMMA NormalPartsArePushed ==
    ASSUME NEW p
    PROVE  NormalParts(p) = Pushed(p.absolute, p.parts)
BY DEF NormalParts, Pushed

\* A normalised path is a path, leads where the path leads, is not empty, and stays as it
\* is when it is normalised again.
LEMMA NormalLeads ==
    ASSUME NEW S, "." \in S, NEW d \in Seq(S), NEW p, IsPath(p), p.parts \in Seq(S),
           NEW n, n = LexicallyNormal(p)
    PROVE  /\ IsPath(n) /\ n # EmptyPath /\ LexicallyNormal(n) = n
           /\ Walk(d, n) = Walk(d, p)
<1> DEFINE a == p.absolute
           t == Pushed(a, p.parts)
           s == Start(d, p)
<1>1. a \in BOOLEAN /\ (a => s = <<>>) /\ (~a => s = d) /\ <<>> \in Seq(S)
  BY PathShape, WalkIsDown
<1>2. s \in Seq(S)
  BY <1>1
<1>3. n = IF t = <<>> /\ ~a THEN Rel(<<".">>) ELSE [absolute |-> a, parts |-> t]
  <2>1. NormalParts(p) = t
    BY NormalPartsArePushed
  <2> QED
    BY <2>1, PathShape DEF LexicallyNormal
<1>4. Walk(d, p) = Down(s, p.parts)
  BY WalkIsDown
<1> HIDE DEF a, s
<1>5. t \in Seq(S) /\ IsNormal(a, t) /\ Down(s, t) = Down(s, p.parts)
  BY <1>1, <1>2, PushedLeads
<1> HIDE DEF t
<1>6. Pushed(a, t) = t
  BY <1>1, <1>5, NormalStays
<1>7. CASE t = <<>> /\ ~a
  <2> DEFINE dot == <<".">>
  <2>1. dot \in Seq(S) /\ dot = Append(<<>>, ".") /\ dot # <<>>
    OBVIOUS
  <2> HIDE DEF dot
  <2>2. n = [absolute |-> FALSE, parts |-> dot]
    BY <1>3, <1>7 DEF Rel, dot
  <2>3. IsPath(n) /\ n.absolute = FALSE /\ n.parts = dot
    BY <2>1, <2>2, PartsMakeAPath
  <2>4. n # EmptyPath
    <3>1. EmptyPath.parts = <<>>
      BY DEF EmptyPath, Rel
    <3> QED
      BY <2>1, <2>3, <3>1
  <2>5. Pushed(a, dot) = <<>>
    <3>1. Pushed(a, <<>>) = <<>>
      BY <1>1, PushedSteps
    <3>2. Pushed(a, Append(<<>>, ".")) = Push(a, Pushed(a, <<>>), ".")
      <4> DEFINE none == <<>>
      <4>1. none \in Seq(S) /\ "." \in S
        BY <1>1
      <4> HIDE DEF none
      <4>2. Pushed(a, Append(none, ".")) = Push(a, Pushed(a, none), ".")
        BY <4>1, PushedSteps
      <4> QED
        BY <4>2 DEF none
    <3>3. Push(a, <<>>, ".") = <<>>
      BY DEF Push
    <3> QED
      BY <2>1, <3>1, <3>2, <3>3
  <2>6. LexicallyNormal(n) = n
    <3>1. NormalParts(n) = <<>>
      <4>1. n.absolute = a
        BY <1>1, <1>7, <2>3
      <4> QED
        BY <2>3, <2>5, <4>1, NormalPartsArePushed, Zenon
    <3> QED
      BY <2>2, <2>3, <3>1 DEF LexicallyNormal, Rel, dot
  <2>7. Walk(d, n) = Down(d, dot)
    BY <2>3, WalkIsDown
  <2>8. Down(d, dot) = d /\ Down(d, <<>>) = d
    <3>1. Down(d, <<>>) = d
      BY DownSteps
    <3>4. Down(d, Append(<<>>, ".")) = Enter(Down(d, <<>>), ".")
      <4> DEFINE none == <<>>
      <4>1. none \in Seq(S) /\ "." \in S
        BY <1>1
      <4> HIDE DEF none
      <4>2. Down(d, Append(none, ".")) = Enter(Down(d, none), ".")
        BY <4>1, DownSteps
      <4> QED
        BY <4>2 DEF none
    <3>2. Enter(d, ".") = d
      BY DEF Enter
    <3> QED
      BY <2>1, <3>1, <3>2, <3>4
  <2> QED
    BY <1>1, <1>4, <1>5, <1>7, <2>3, <2>4, <2>6, <2>7, <2>8
<1>8. CASE ~(t = <<>> /\ ~a)
  <2>1. n = [absolute |-> a, parts |-> t]
    BY <1>3, <1>8
  <2>2. IsPath(n) /\ n.absolute = a /\ n.parts = t
    BY <1>1, <1>5, <2>1, PartsMakeAPath
  <2>3. n # EmptyPath
    BY <1>8, <2>2 DEF EmptyPath, Rel
  <2>4. LexicallyNormal(n) = n
    <3>1. NormalParts(n) = t
      BY <1>6, <2>2, NormalPartsArePushed, Zenon
    <3> QED
      BY <1>8, <2>1, <2>2, <3>1, PathShape DEF LexicallyNormal
  <2>5. Start(d, n) = s
    BY <2>2 DEF Start, s, a
  <2>6. Walk(d, n) = Down(s, t)
    BY <2>2, <2>5, WalkIsDown
  <2> QED
    BY <1>4, <1>5, <2>2, <2>3, <2>4, <2>6
<1> QED
  BY <1>7, <1>8

\* The same from base_dir: the resolved path leads to where the path leads from there.
LEMMA ResolvedLeads ==
    ASSUME NEW p, IsPath(p), p # EmptyPath, NEW b, IsPath(b), NEW d, IsSeq(d),
           NEW n, n = ResolvePathFromBase(p, b)
    PROVE  /\ IsPath(n) /\ n # EmptyPath /\ LexicallyNormal(n) = n
           /\ Walk(d, n) = Walk(Walk(d, b), p)
<1>1. PICK S : "." \in S /\ p.parts \in Seq(S) /\ b.parts \in Seq(S) /\ d \in Seq(S)
  BY CommonParts
<1>2. Start(d, b) \in Seq(S)
  BY <1>1 DEF Start
<1> DEFINE e == Walk(d, b)
<1>3. e = Down(Start(d, b), b.parts)
  BY WalkIsDown
<1>4. CASE p.absolute
  <2>1. n = LexicallyNormal(p)
    BY <1>4 DEF ResolvePathFromBase
  <2>2. /\ IsPath(n) /\ n # EmptyPath /\ LexicallyNormal(n) = n
        /\ Walk(d, n) = Walk(d, p)
    BY <1>1, <2>1, NormalLeads
  <2>3. Walk(d, p) = Walk(e, p)
    BY <1>4, WalkIsDown
  <2> QED
    BY <2>2, <2>3
<1>5. CASE ~p.absolute
  <2> DEFINE q == b.parts \o p.parts
             bp == [absolute |-> b.absolute, parts |-> q]
  <2>1. q \in Seq(S) /\ b.absolute \in BOOLEAN
    BY <1>1, PathShape
  <2>2. n = LexicallyNormal(bp)
    BY <1>5, PathShape DEF ResolvePathFromBase
  <2>3. Down(Start(d, b), q) = Down(Down(Start(d, b), b.parts), p.parts)
    BY <1>1, <1>2, DownAcross
  <2> HIDE DEF q
  <2>4. IsPath(bp) /\ bp.absolute = b.absolute /\ bp.parts = q
    BY <2>1, PartsMakeAPath
  <2> HIDE DEF bp, e
  <2>5. /\ IsPath(n) /\ n # EmptyPath /\ LexicallyNormal(n) = n
        /\ Walk(d, n) = Walk(d, bp)
    BY <1>1, <2>1, <2>2, <2>4, NormalLeads
  <2>6. Start(d, bp) = Start(d, b)
    BY <2>4 DEF Start
  <2>7. Walk(d, bp) = Down(Start(d, b), q)
    BY <2>4, <2>6, WalkIsDown
  <2>8. Walk(e, p) = Down(e, p.parts)
    BY <1>5, WalkIsDown
  <2> QED
    BY <1>3, <2>3, <2>5, <2>7, <2>8 DEF e
<1> QED
  BY <1>4, <1>5
=============================================================================
