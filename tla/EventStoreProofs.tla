-------------------------- MODULE EventStoreProofs --------------------------
(***************************************************************************)
(* Proofs about EventStore for any number of writers, events and faults.   *)
(*                                                                         *)
(* The state of an account is a fold over its events.  What a fold of one  *)
(* event more computes is proved first, by induction over finite sets      *)
(* given as well-founded orderings; the operators folded are then          *)
(* functions.  The inductive invariant relates the aggregate of a writer   *)
(* to the prefix of the table that it was loaded from.                     *)
(***************************************************************************)
EXTENDS EventStore, FiniteSetTheorems, SequenceTheorems, WellFoundedInduction, TLAPS

-----------------------------------------------------------------------------
(* Induction *)

\* Every inhabited set of naturals has a least member.
LEMMA LeastNatural ==
  ASSUME NEW S \in SUBSET Nat, S # {}
  PROVE  \E n \in S : \A m \in S : n <= m
<1> DEFINE T == {1..n : n \in S}
<1>1. T \subseteq FiniteSubsetsOf(Nat)
  BY FS_Interval DEF FiniteSubsetsOf
<1>2. IsWellFoundedOn(StrictSubsetOrdering(Nat), FiniteSubsetsOf(Nat))
  BY FS_StrictSubsetOrderingWellFounded
<1>3. T # {}
  OBVIOUS
<1>4. PICK U \in T : \A V \in T : ~ (<<V, U>> \in StrictSubsetOrdering(Nat))
  <2> HIDE DEF T
  <2> QED BY <1>1, <1>2, <1>3, WFMin
<1>5. PICK n \in S : U = 1..n
  OBVIOUS
<1>6. \A m \in S : ~(m < n)
  <2> SUFFICES ASSUME NEW m \in S, m < n PROVE FALSE
    OBVIOUS
  <2>1. 1..m \in T /\ 1..m \subseteq 1..n /\ n \in 1..n /\ n \notin 1..m
    OBVIOUS
  <2>2. <<1..m, 1..n>> \in StrictSubsetOrdering(Nat)
    BY <2>1 DEF StrictSubsetOrdering
  <2> QED BY <1>4, <1>5, <2>1, <2>2
<1> QED BY <1>6

\* Induction over the naturals, for a set instead of a predicate.
LEMMA NaturalSetInduction ==
  ASSUME NEW S \in SUBSET Nat, 0 \in S, \A n \in S : n + 1 \in S
  PROVE  S = Nat
<1> SUFFICES ASSUME Nat \ S # {} PROVE FALSE
  OBVIOUS
<1>1. PICK n \in Nat \ S : \A m \in Nat \ S : n <= m
  BY LeastNatural
<1>2. n - 1 \in S
  BY <1>1
<1> QED BY <1>1, <1>2

\* Induction over the subsets of a finite set: a family that holds every subset
\* whose strict subsets it holds, holds them all.
LEMMA SubsetInduction ==
  ASSUME NEW S, IsFiniteSet(S), NEW F \in SUBSET SUBSET S,
         \A T \in SUBSET S : (\A U \in SUBSET T : U # T => U \in F) => T \in F
  PROVE  F = SUBSET S
<1> DEFINE Rest == (SUBSET S) \ F
<1> SUFFICES ASSUME Rest # {} PROVE FALSE
  OBVIOUS
<1>1. Rest \subseteq FiniteSubsetsOf(S)
  BY FS_Subset DEF FiniteSubsetsOf
<1>2. IsWellFoundedOn(StrictSubsetOrdering(S), FiniteSubsetsOf(S))
  BY FS_StrictSubsetOrderingWellFounded
<1>3. PICK T \in Rest : \A U \in Rest : ~ (<<U, T>> \in StrictSubsetOrdering(S))
  <2> HIDE DEF Rest
  <2> QED BY <1>1, <1>2, WFMin
<1>4. \A U \in SUBSET T : U # T => U \in F
  <2> SUFFICES ASSUME NEW U \in SUBSET T, U # T, U \notin F PROVE FALSE
    OBVIOUS
  <2>1. U \in Rest /\ <<U, T>> \in StrictSubsetOrdering(S)
    BY DEF StrictSubsetOrdering
  <2> QED BY <1>3, <2>1
<1> QED BY <1>3, <1>4

-----------------------------------------------------------------------------
(* Folds *)

\* g folds the subsets of S onto base, the member that `first` names first:
\* MapThenFoldSet, with functions for its operators.
IsFold(g, S, first, base, op) ==
  \A T \in SUBSET S :
    g[T] = IF T = {} THEN base ELSE op[first[T]][g[T \ {first[T]}]]

\* first names a member of every subset that has one.
NamesMember(first, S) == \A T \in SUBSET S : T # {} => first[T] \in T

\* There is such a function when every op keeps to the values V.
LEMMA FoldExists ==
  ASSUME NEW S, IsFiniteSet(S), NEW V, NEW base \in V,
         NEW op \in [S -> [V -> V]],
         NEW first, NamesMember(first, S)
  PROVE  \E g \in [SUBSET S -> V] : IsFold(g, S, first, base, op)
<1> DEFINE Body(g, T) == IF T = {} THEN base ELSE op[first[T]][g[T \ {first[T]}]]
           Level == {n \in Nat : \E g \in [SUBSET S -> V] :
                       \A T \in SUBSET S : Cardinality(T) <= n => g[T] = Body(g, T)}
<1>1. \A T \in SUBSET S : IsFiniteSet(T) /\ Cardinality(T) \in Nat /\ Cardinality(T) <= Cardinality(S)
  BY FS_Subset, FS_CardinalityType
<1>2. \A T \in SUBSET S : T # {} => Cardinality(T \ {first[T]}) = Cardinality(T) - 1
  BY <1>1, FS_RemoveElement DEF NamesMember
<1>3. 0 \in Level
  <2>1. \A T \in SUBSET S : Cardinality(T) <= 0 => T = {}
    BY <1>1, FS_EmptySet
  <2>2. [T \in SUBSET S |-> base] \in [SUBSET S -> V]
    OBVIOUS
  <2> QED BY <2>1, <2>2
<1>4. ASSUME NEW n \in Level PROVE n + 1 \in Level
  <2>1. PICK g \in [SUBSET S -> V] :
          \A T \in SUBSET S : Cardinality(T) <= n => g[T] = Body(g, T)
    BY DEF Level
  <2> DEFINE h == [T \in SUBSET S |-> Body(g, T)]
  <2>2. \A T \in SUBSET S : Cardinality(T) <= n => h[T] = g[T]
    BY <2>1
  <2>3. h \in [SUBSET S -> V]
    BY DEF NamesMember
  <2>4. ASSUME NEW T \in SUBSET S, Cardinality(T) <= n + 1 PROVE h[T] = Body(h, T)
    <3>1. CASE T = {}
      BY <3>1
    <3>2. CASE T # {}
      <4>1. T \ {first[T]} \in SUBSET S /\ Cardinality(T \ {first[T]}) <= n
        BY <1>1, <1>2, <2>4, <3>2
      <4>2. h[T \ {first[T]}] = g[T \ {first[T]}]
        BY <2>2, <4>1
      <4> QED BY <3>2, <4>2
    <3> QED BY <3>1, <3>2
  <2>5. n + 1 \in Nat
    BY DEF Level
  <2> HIDE DEF h, Body
  <2> QED BY <2>3, <2>4, <2>5
<1>5. Level = Nat
  <2>1. Level \in SUBSET Nat
    OBVIOUS
  <2> HIDE DEF Level
  <2> QED BY <1>3, <1>4, <2>1, NaturalSetInduction
<1>6. Cardinality(S) \in Level
  BY <1>1, <1>5
<1> QED BY <1>1, <1>6 DEF IsFold

\* The fold of a set depends on its members alone.
LEMMA FoldsAgree ==
  ASSUME NEW S, IsFiniteSet(S), NEW base,
         NEW R1, S \subseteq R1, NEW g1, NEW first1, NEW op1, IsFold(g1, R1, first1, base, op1),
         NEW R2, S \subseteq R2, NEW g2, NEW first2, NEW op2, IsFold(g2, R2, first2, base, op2),
         \A T \in SUBSET S : T # {} => first1[T] \in T /\ first1[T] = first2[T],
         \A x \in S : op1[x] = op2[x]
  PROVE  g1[S] = g2[S]
<1> DEFINE Same == {T \in SUBSET S : g1[T] = g2[T]}
<1>1. ASSUME NEW T \in SUBSET S, \A U \in SUBSET T : U # T => U \in Same
      PROVE  T \in Same
  <2>1. T \in SUBSET R1 /\ T \in SUBSET R2
    OBVIOUS
  <2>2. CASE T = {}
    BY <2>1, <2>2 DEF IsFold
  <2>3. CASE T # {}
    <3>1. g1[T \ {first1[T]}] = g2[T \ {first1[T]}]
      BY <1>1, <2>3
    <3>2. /\ g1[T] = op1[first1[T]][g1[T \ {first1[T]}]]
          /\ g2[T] = op2[first2[T]][g2[T \ {first2[T]}]]
      BY <2>1, <2>3 DEF IsFold
    <3> QED BY <2>3, <3>1, <3>2
  <2> QED BY <2>2, <2>3
<1>2. Same = SUBSET S
  <2>1. Same \in SUBSET SUBSET S
    OBVIOUS
  <2> HIDE DEF Same
  <2> QED BY <1>1, <2>1, SubsetInduction
<1> QED BY <1>2

\* The places of a sequence are finitely many.
LEMMA PlacesFinite == ASSUME NEW n \in Nat PROVE IsFiniteSet(1..n)
<1>1. 1 \in Int /\ n \in Int
  OBVIOUS
<1> QED BY ONLY <1>1, FS_Interval

\* A finite set of naturals has a greatest member.
LEMMA MaxOfPlaces ==
  ASSUME NEW n \in Nat, NEW T \in SUBSET (1..n), T # {}
  PROVE  Max(T) \in T /\ \A i \in T : i <= Max(T)
<1> DEFINE D == {n - i : i \in T}
<1>1. PICK d \in D : \A c \in D : d <= c
  <2>1. \A i \in 1..n : n - i \in Nat
    OBVIOUS
  <2>2. D \in SUBSET Nat /\ D # {}
    BY <2>1
  <2> HIDE DEF D
  <2> QED BY <2>2, LeastNatural
<1>2. PICK m \in T : d = n - m
  OBVIOUS
<1>3. \A i \in T : n - m <= n - i
  BY <1>1, <1>2
<1>4. \A i \in T : m >= i
  BY <1>3
<1> QED BY <1>4 DEF Max

\* The greatest place of a set of places.
Greatest(S) == [T \in SUBSET S |-> Max(T)]

\* A fold over 1..n + 1 from the greatest place on makes one step more than
\* the same fold over 1..n.
LEMMA FoldOneMore ==
  ASSUME NEW n \in Nat, NEW base,
         NEW g, NEW op, IsFold(g, 1..n, Greatest(1..n), base, op),
         NEW h, NEW po, IsFold(h, 1..(n + 1), Greatest(1..(n + 1)), base, po),
         \A i \in 1..n : op[i] = po[i]
  PROVE  h[1..(n + 1)] = po[n + 1][g[1..n]]
<1> DEFINE S == 1..n
           R == 1..(n + 1)
<1>1. Max(R) = n + 1
  <2>1. n + 1 \in Nat /\ R # {} /\ n + 1 \in R /\ \A i \in R : i <= n + 1 /\ i \in Nat
    OBVIOUS
  <2>2. Max(R) \in R /\ \A i \in R : i <= Max(R)
    BY <2>1, MaxOfPlaces
  <2> QED BY <2>1, <2>2
<1>2. S \subseteq R /\ R \ {n + 1} = S /\ R # {}
  OBVIOUS
<1>3. IsFiniteSet(S)
  BY PlacesFinite
<1>4. \A T \in SUBSET S : T # {} => Greatest(S)[T] \in T /\ Greatest(S)[T] = Greatest(R)[T]
  BY <1>2, MaxOfPlaces DEF Greatest
<1> HIDE DEF S, R
<1>5. g[S] = h[S]
  <2>1. /\ IsFold(g, S, Greatest(S), base, op) /\ S \subseteq S
        /\ IsFold(h, R, Greatest(R), base, po)
        /\ \A i \in S : op[i] = po[i]
    BY DEF S, R
  <2> QED BY <1>2, <1>3, <1>4, <2>1, FoldsAgree
<1>6. h[R] = po[Greatest(R)[R]][h[R \ {Greatest(R)[R]}]]
  BY <1>2 DEF IsFold, R
<1>7. Greatest(R)[R] = n + 1
  BY <1>1 DEF Greatest
<1> QED BY <1>2, <1>5, <1>6, <1>7 DEF S, R

\* There is a fold of any number of steps on the values V.
LEMMA FoldOfPlaces ==
  ASSUME NEW n \in Nat, NEW V, NEW base \in V, NEW op \in [1..n -> [V -> V]]
  PROVE  \E g \in [SUBSET (1..n) -> V] : IsFold(g, 1..n, Greatest(1..n), base, op)
<1> DEFINE S == 1..n
<1>1. IsFiniteSet(S)
  BY PlacesFinite
<1>2. \A T \in SUBSET S : T # {} => Greatest(S)[T] \in T
  BY MaxOfPlaces DEF Greatest
<1>3. op \in [S -> [V -> V]]
  OBVIOUS
<1> HIDE DEF S
<1>4. NamesMember(Greatest(S), S)
  BY <1>2 DEF NamesMember
<1>5. \E g \in [SUBSET S -> V] : IsFold(g, S, Greatest(S), base, op)
  BY <1>1, <1>3, <1>4, FoldExists
<1> QED BY <1>5 DEF S

\* Where two functions are the same for a set without its greatest member, they
\* are the same for the set.
StepsAgree(g, h, n) ==
  /\ g[{}] = h[{}]
  /\ \A T \in SUBSET (1..n) : T # {} /\ g[T \ {Max(T)}] = h[T \ {Max(T)}] => g[T] = h[T]

\* Then they are the same.
LEMMA PlacesAgree ==
  ASSUME NEW n \in Nat, NEW g, NEW h, StepsAgree(g, h, n)
  PROVE  \A T \in SUBSET (1..n) : g[T] = h[T]
<1> DEFINE S == 1..n
           Same == {T \in SUBSET S : g[T] = h[T]}
<1>1. IsFiniteSet(S)
  BY PlacesFinite
<1>2. ASSUME NEW T \in SUBSET S, \A U \in SUBSET T : U # T => U \in Same
      PROVE  T \in Same
  <2>1. T # {} => Max(T) \in T
    BY MaxOfPlaces
  <2> QED BY <1>2, <2>1 DEF StepsAgree
<1>3. Same \in SUBSET SUBSET S
  OBVIOUS
<1>4. Same = SUBSET S
  <2> HIDE DEF Same, S
  <2> QED BY <1>1, <1>2, <1>3, SubsetInduction
<1> QED BY <1>4

-----------------------------------------------------------------------------
(* Replaying events *)

\* An event leads from a state to a state.
LEMMA WhenType ==
  ASSUME NEW s \in State, NEW e \in Event
  PROVE  When(s, e) \in State
BY DEF When, State, Event, Types

\* `when`, as a function for each event of q.
Whens(q) == [i \in 1..Len(q) |-> [s \in State |-> When(s, q[i])]]

\* loadFromHistory is a fold.
LEMMA ApplyFolds ==
  ASSUME NEW s \in State, NEW q \in Seq(Event)
  PROVE  \E g \in [SUBSET (1..Len(q)) -> State] :
           /\ IsFold(g, 1..Len(q), Greatest(1..Len(q)), s, Whens(q))
           /\ Apply(s, q) = g[1..Len(q)]
<1> DEFINE S == 1..Len(q)
           Body(g) == [T \in SUBSET S |-> IF T = {} THEN s ELSE When(g[T \ {Max(T)}], q[Max(T)])]
           iter == CHOOSE g : g = Body(g)
<1>1. Len(q) \in Nat /\ DOMAIN q = S /\ \A i \in S : q[i] \in Event
  OBVIOUS
<1>2. Whens(q) \in [S -> [State -> State]]
  BY <1>1, WhenType DEF Whens
<1>3. PICK g \in [SUBSET S -> State] : IsFold(g, S, Greatest(S), s, Whens(q))
  BY <1>1, <1>2, FoldOfPlaces
<1>4. \A T \in SUBSET S : T # {} => Max(T) \in T
  BY <1>1, MaxOfPlaces
<1>5. g = Body(g)
  <2>1. ASSUME NEW T \in SUBSET S
        PROVE  g[T] = IF T = {} THEN s ELSE When(g[T \ {Max(T)}], q[Max(T)])
    <3>1. CASE T = {}
      BY <1>3, <3>1 DEF IsFold
    <3>2. CASE T # {}
      <4>1. g[T] = Whens(q)[Max(T)][g[T \ {Max(T)}]]
        BY <1>3, <3>2 DEF IsFold, Greatest
      <4>2. Max(T) \in S /\ g[T \ {Max(T)}] \in State
        BY <1>4, <3>2
      <4> QED BY <3>2, <4>1, <4>2 DEF Whens
    <3> QED BY <3>1, <3>2
  <2> QED BY <2>1
<1>6. iter = Body(iter)
  <2> HIDE DEF Body
  <2> QED BY <1>5
<1>7. iter[S] = g[S]
  <2> HIDE DEF iter
  <2>1. g[{}] = iter[{}]
    BY <1>5, <1>6
  <2>2. \A T \in SUBSET S : T # {} /\ g[T \ {Max(T)}] = iter[T \ {Max(T)}] => g[T] = iter[T]
    BY <1>5, <1>6
  <2>3. StepsAgree(g, iter, Len(q))
    BY <2>1, <2>2 DEF StepsAgree
  <2> QED BY <1>1, <2>3, PlacesAgree
<1>8. Apply(s, q) = iter[S]
  BY <1>1 DEF Apply, FoldLeft, MapThenFoldSet
<1> QED BY <1>3, <1>7, <1>8

\* No event leaves the state.
LEMMA ApplyNone ==
  ASSUME NEW s \in State
  PROVE  Apply(s, <<>>) = s
<1>1. <<>> \in Seq(Event) /\ 1..Len(<<>>) = {}
  OBVIOUS
<1>2. PICK g : /\ IsFold(g, 1..Len(<<>>), Greatest(1..Len(<<>>)), s, Whens(<<>>))
               /\ Apply(s, <<>>) = g[1..Len(<<>>)]
  BY <1>1, ApplyFolds
<1> QED BY <1>1, <1>2 DEF IsFold

\* Events lead from a state to a state.
LEMMA ApplyType ==
  ASSUME NEW s \in State, NEW q \in Seq(Event)
  PROVE  Apply(s, q) \in State
<1>1. PICK g \in [SUBSET (1..Len(q)) -> State] : Apply(s, q) = g[1..Len(q)]
  BY ApplyFolds
<1> QED BY <1>1

\* One event more is applied to the state after the others.
LEMMA ApplyAppend ==
  ASSUME NEW s \in State, NEW q \in Seq(Event), NEW e \in Event
  PROVE  Apply(s, Append(q, e)) = When(Apply(s, q), e)
<1> DEFINE r == Append(q, e)
           n == Len(q)
<1>1. /\ r \in Seq(Event) /\ n \in Nat /\ Len(r) = n + 1 /\ r[n + 1] = e
      /\ \A i \in 1..n : r[i] = q[i]
  OBVIOUS
<1> HIDE DEF r, n
<1>2. PICK g \in [SUBSET (1..n) -> State] :
        IsFold(g, 1..n, Greatest(1..n), s, Whens(q)) /\ Apply(s, q) = g[1..n]
  BY ApplyFolds DEF n
<1>3. PICK h : IsFold(h, 1..(n + 1), Greatest(1..(n + 1)), s, Whens(r)) /\ Apply(s, r) = h[1..(n + 1)]
  BY <1>1, ApplyFolds
<1>4. \A i \in 1..n : Whens(q)[i] = Whens(r)[i]
  <2>1. \A i \in 1..n : i \in 1..Len(q) /\ i \in 1..Len(r)
    BY <1>1 DEF n
  <2> QED BY <1>1, <2>1 DEF Whens
<1>5. h[1..(n + 1)] = Whens(r)[n + 1][g[1..n]]
  <2>1. n \in Nat
    BY <1>1
  <2> QED BY ONLY <1>2, <1>3, <1>4, <2>1, FoldOneMore
<1>6. Whens(r)[n + 1][g[1..n]] = When(g[1..n], e)
  <2>1. n + 1 \in 1..Len(r) /\ g[1..n] \in State
    BY <1>1, <1>2
  <2> QED BY <1>1, <2>1 DEF Whens
<1> QED BY <1>2, <1>3, <1>5, <1>6 DEF r

-----------------------------------------------------------------------------
(* The sum of the amounts *)

\* An event leads from a sum to a sum.
LEMMA BookedType ==
  ASSUME NEW b \in Int, NEW e \in Event
  PROVE  Booked(b, e) \in Int
BY DEF Booked, Event

\* An event that follows a state adds to the sum what it adds to the balance.
LEMMA BookedAgrees ==
  ASSUME NEW s \in State, NEW e \in Event, Follows(e, s)
  PROVE  Booked(s.balance, e) = When(s, e).balance
<1>1. s.balance \in Nat /\ e.amount \in Nat /\ e.balance \in Nat /\ e.type \in Types
  BY DEF State, Event
<1>2. CASE e.type = "deposited"
  BY <1>1, <1>2 DEF Booked, When, Follows, State
<1>3. CASE e.type = "withdrawn"
  BY <1>1, <1>3 DEF Booked, When, Follows, State
<1>4. CASE e.type \in {"created", "frozen", "unfrozen"}
  BY <1>1, <1>4 DEF Booked, When, State
<1> QED BY <1>1, <1>2, <1>3, <1>4 DEF Types

\* getHistory's additions, as a function for each event of q.
Bookings(q) == [i \in 1..Len(q) |-> [b \in Int |-> Booked(b, q[i])]]

\* The sum of getHistory is a fold.
LEMMA BalanceFolds ==
  ASSUME NEW q \in Seq(Event)
  PROVE  \E g \in [SUBSET (1..Len(q)) -> Int] :
           /\ IsFold(g, 1..Len(q), Greatest(1..Len(q)), 0, Bookings(q))
           /\ FoldLeft(Booked, 0, q) = g[1..Len(q)]
<1> DEFINE S == 1..Len(q)
           Body(g) == [T \in SUBSET S |-> IF T = {} THEN 0 ELSE Booked(g[T \ {Max(T)}], q[Max(T)])]
           iter == CHOOSE g : g = Body(g)
<1>1. 0 \in Int /\ Len(q) \in Nat /\ DOMAIN q = S /\ \A i \in S : q[i] \in Event
  OBVIOUS
<1>2. Bookings(q) \in [S -> [Int -> Int]]
  BY <1>1, BookedType DEF Bookings
<1>3. PICK g \in [SUBSET S -> Int] : IsFold(g, S, Greatest(S), 0, Bookings(q))
  BY <1>1, <1>2, FoldOfPlaces
<1>4. \A T \in SUBSET S : T # {} => Max(T) \in T
  BY <1>1, MaxOfPlaces
<1>5. g = Body(g)
  <2>1. ASSUME NEW T \in SUBSET S
        PROVE  g[T] = IF T = {} THEN 0 ELSE Booked(g[T \ {Max(T)}], q[Max(T)])
    <3>1. CASE T = {}
      BY <1>3, <3>1 DEF IsFold
    <3>2. CASE T # {}
      <4>1. g[T] = Bookings(q)[Max(T)][g[T \ {Max(T)}]]
        BY <1>3, <3>2 DEF IsFold, Greatest
      <4>2. Max(T) \in S /\ g[T \ {Max(T)}] \in Int
        BY <1>4, <3>2
      <4> QED BY <3>2, <4>1, <4>2 DEF Bookings
    <3> QED BY <3>1, <3>2
  <2> QED BY <2>1
<1>6. iter = Body(iter)
  <2> HIDE DEF Body
  <2> QED BY <1>5
<1>7. iter[S] = g[S]
  <2> HIDE DEF iter
  <2>1. g[{}] = iter[{}]
    BY <1>5, <1>6
  <2>2. \A T \in SUBSET S : T # {} /\ g[T \ {Max(T)}] = iter[T \ {Max(T)}] => g[T] = iter[T]
    BY <1>5, <1>6
  <2>3. StepsAgree(g, iter, Len(q))
    BY <2>1, <2>2 DEF StepsAgree
  <2> QED BY <1>1, <2>3, PlacesAgree
<1>8. FoldLeft(Booked, 0, q) = iter[S]
  BY <1>1 DEF FoldLeft, MapThenFoldSet
<1> QED BY <1>3, <1>7, <1>8

\* No event adds up to nothing.
LEMMA BalanceNone == FoldLeft(Booked, 0, <<>>) = 0
<1>1. <<>> \in Seq(Event) /\ 1..Len(<<>>) = {}
  OBVIOUS
<1>2. PICK g : /\ IsFold(g, 1..Len(<<>>), Greatest(1..Len(<<>>)), 0, Bookings(<<>>))
               /\ FoldLeft(Booked, 0, <<>>) = g[1..Len(<<>>)]
  BY <1>1, BalanceFolds
<1> QED BY <1>1, <1>2 DEF IsFold

\* One event more is added to the sum of the others.
LEMMA BalanceAppend ==
  ASSUME NEW q \in Seq(Event), NEW e \in Event
  PROVE  FoldLeft(Booked, 0, Append(q, e)) = Booked(FoldLeft(Booked, 0, q), e)
<1> DEFINE r == Append(q, e)
           n == Len(q)
<1>1. /\ r \in Seq(Event) /\ n \in Nat /\ Len(r) = n + 1 /\ r[n + 1] = e
      /\ \A i \in 1..n : r[i] = q[i]
  OBVIOUS
<1> HIDE DEF r, n
<1>2. PICK g \in [SUBSET (1..n) -> Int] :
        IsFold(g, 1..n, Greatest(1..n), 0, Bookings(q)) /\ FoldLeft(Booked, 0, q) = g[1..n]
  BY BalanceFolds DEF n
<1>3. PICK h : /\ IsFold(h, 1..(n + 1), Greatest(1..(n + 1)), 0, Bookings(r))
               /\ FoldLeft(Booked, 0, r) = h[1..(n + 1)]
  BY <1>1, BalanceFolds
<1>4. \A i \in 1..n : Bookings(q)[i] = Bookings(r)[i]
  <2>1. \A i \in 1..n : i \in 1..Len(q) /\ i \in 1..Len(r)
    BY <1>1 DEF n
  <2> QED BY <1>1, <2>1 DEF Bookings
<1>5. h[1..(n + 1)] = Bookings(r)[n + 1][g[1..n]]
  <2>1. n \in Nat
    BY <1>1
  <2> QED BY ONLY <1>2, <1>3, <1>4, <2>1, FoldOneMore
<1>6. Bookings(r)[n + 1][g[1..n]] = Booked(g[1..n], e)
  <2>1. n + 1 \in 1..Len(r) /\ g[1..n] \in Int
    BY <1>1, <1>2
  <2> QED BY <1>1, <2>1 DEF Bookings
<1> QED BY <1>2, <1>3, <1>5, <1>6 DEF r

-----------------------------------------------------------------------------
(* Parts of the table *)

\* A part of a sequence of events is one.
LEMMA PartType ==
  ASSUME NEW q \in Seq(Event), NEW m \in Nat, NEW n \in Nat, m <= n, n <= Len(q)
  PROVE  /\ SubSeq(q, m + 1, n) \in Seq(Event)
         /\ Len(SubSeq(q, m + 1, n)) = n - m
         /\ \A i \in 1..(n - m) : SubSeq(q, m + 1, n)[i] = q[m + i]
<1>1. m + 1 \in Int /\ n \in Int /\ \A i \in (m + 1)..n : q[i] \in Event
  OBVIOUS
<1>2. /\ SubSeq(q, m + 1, n) \in Seq(Event)
      /\ Len(SubSeq(q, m + 1, n)) = IF m + 1 <= n THEN n - (m + 1) + 1 ELSE 0
      /\ \A i \in 1..(n - (m + 1) + 1) : SubSeq(q, m + 1, n)[i] = q[m + 1 + i - 1]
  BY ONLY <1>1, SubSeqProperties
<1>3. n - (m + 1) + 1 = n - m /\ \A i \in 1..(n - m) : m + 1 + i - 1 = m + i
  OBVIOUS
<1> QED BY <1>2, <1>3

\* It grows by the next event.
LEMMA PartGrows ==
  ASSUME NEW q \in Seq(Event), NEW m \in Nat, NEW n \in Nat, m <= n, n < Len(q)
  PROVE  SubSeq(q, m + 1, n + 1) = Append(SubSeq(q, m + 1, n), q[n + 1])
<1> DEFINE s == SubSeq(q, m + 1, n + 1)
           t == SubSeq(q, m + 1, n)
<1>1. s \in Seq(Event) /\ Len(s) = n + 1 - m /\ \A i \in 1..(n + 1 - m) : s[i] = q[m + i]
  BY PartType
<1>2. t \in Seq(Event) /\ Len(t) = n - m /\ \A i \in 1..(n - m) : t[i] = q[m + i]
  BY PartType
<1>3. q[n + 1] \in Event
  OBVIOUS
<1> HIDE DEF s, t
<1>4. /\ Append(t, q[n + 1]) \in Seq(Event)
      /\ Len(Append(t, q[n + 1])) = Len(t) + 1
      /\ \A i \in 1..Len(t) : Append(t, q[n + 1])[i] = t[i]
      /\ Append(t, q[n + 1])[Len(t) + 1] = q[n + 1]
  BY <1>2, <1>3, AppendProperties
<1>5. \A i \in 1..Len(s) : s[i] = Append(t, q[n + 1])[i]
  <2> TAKE i \in 1..Len(s)
  <2>1. CASE i <= n - m
    BY <1>1, <1>2, <1>4, <2>1
  <2>2. CASE i = n - m + 1
    <3>1. m + i = n + 1 /\ i = Len(t) + 1
      BY <1>2, <2>2
    <3> QED BY <1>1, <1>4, <3>1
  <2>3. i <= n - m \/ i = n - m + 1
    BY <1>1
  <2> QED BY <2>1, <2>2, <2>3
<1>6. Len(s) = Len(Append(t, q[n + 1]))
  BY <1>1, <1>2, <1>4
<1> QED BY <1>1, <1>4, <1>5, <1>6, SeqEqual DEF s, t

\* An event that is added to the table changes no part of it.
LEMMA PartStays ==
  ASSUME NEW q \in Seq(Event), NEW e \in Event, NEW m \in Nat, NEW n \in Nat, m <= n, n <= Len(q)
  PROVE  SubSeq(Append(q, e), m + 1, n) = SubSeq(q, m + 1, n)
<1> DEFINE r == Append(q, e)
           s == SubSeq(r, m + 1, n)
           t == SubSeq(q, m + 1, n)
<1>1. r \in Seq(Event) /\ Len(r) = Len(q) + 1 /\ \A i \in 1..Len(q) : r[i] = q[i]
  BY AppendProperties
<1> HIDE DEF r
<1>2. s \in Seq(Event) /\ Len(s) = n - m /\ \A i \in 1..(n - m) : s[i] = r[m + i]
  BY <1>1, PartType
<1>3. t \in Seq(Event) /\ Len(t) = n - m /\ \A i \in 1..(n - m) : t[i] = q[m + i]
  BY PartType
<1>4. \A i \in 1..(n - m) : m + i \in 1..Len(q)
  OBVIOUS
<1> HIDE DEF s, t
<1>5. Len(s) = Len(t) /\ \A i \in 1..Len(s) : s[i] = t[i]
  BY <1>1, <1>2, <1>3, <1>4
<1>6. s = t
  BY <1>2, <1>3, <1>5, SeqEqual
<1> QED BY <1>6 DEF r, s, t

\* The first events, and all of them.
LEMMA PartsAtTheEnds ==
  ASSUME NEW q \in Seq(Event)
  PROVE  /\ \A m \in Nat : SubSeq(q, m + 1, m) = <<>>
         /\ SubSeq(q, 1, Len(q)) = q
<1>1. \A m \in Nat : SubSeq(q, m + 1, m) = <<>>
  <2> TAKE m \in Nat
  <2>1. m + 1 \in Int /\ m \in Int /\ m < m + 1
    OBVIOUS
  <2> QED BY ONLY <2>1, SubSeqEmpty
<1> QED BY <1>1, SubSeqFull

-----------------------------------------------------------------------------
(* Replays *)

\* The first n events lead to a state; none, to the first; one more, to the
\* next.
LEMMA ReplayFacts ==
  ASSUME log \in Seq(Event)
  PROVE  /\ Replay(0) = InitialState
         /\ \A n \in 0..Len(log) : Replay(n) \in State
         /\ \A n \in 0..(Len(log) - 1) : Replay(n + 1) = When(Replay(n), log[n + 1])
<1>1. InitialState \in State
  BY DEF InitialState, State
<1>2. Replay(0) = InitialState
  <2>1. SubSeq(log, 0 + 1, 0) = <<>>
    BY PartsAtTheEnds
  <2>2. SubSeq(log, 1, 0) = <<>>
    BY <2>1
  <2> QED BY <1>1, <2>2, ApplyNone DEF Replay
<1>3. \A n \in 0..Len(log) : SubSeq(log, 1, n) \in Seq(Event)
  <2> TAKE n \in 0..Len(log)
  <2>1. SubSeq(log, 0 + 1, n) \in Seq(Event)
    BY PartType
  <2> QED BY <2>1
<1>4. \A n \in 0..Len(log) : Replay(n) \in State
  BY <1>1, <1>3, ApplyType DEF Replay
<1>5. \A n \in 0..(Len(log) - 1) : Replay(n + 1) = When(Replay(n), log[n + 1])
  <2> TAKE n \in 0..(Len(log) - 1)
  <2>1. SubSeq(log, 1, n + 1) = Append(SubSeq(log, 1, n), log[n + 1])
    <3>1. SubSeq(log, 0 + 1, n + 1) = Append(SubSeq(log, 0 + 1, n), log[n + 1])
      BY PartGrows
    <3>2. 0 + 1 = 1
      OBVIOUS
    <3> QED BY <3>1, <3>2, Zenon
  <2>2. SubSeq(log, 1, n) \in Seq(Event) /\ log[n + 1] \in Event
    BY <1>3
  <2>3. Apply(InitialState, Append(SubSeq(log, 1, n), log[n + 1]))
          = When(Apply(InitialState, SubSeq(log, 1, n)), log[n + 1])
    BY <1>1, <2>2, ApplyAppend
  <2> QED BY <2>1, <2>3 DEF Replay
<1> QED BY <1>2, <1>4, <1>5

\* The events after a version lead from the state at that version to the
\* state at the head.
LEMMA ReplayGoesOn ==
  ASSUME log \in Seq(Event), NEW from \in 0..Len(log)
  PROVE  Apply(Replay(from), EventsAfter(from)) = Replay(Len(log))
<1> DEFINE Good == {k \in Nat : from + k <= Len(log) =>
                      Apply(Replay(from), SubSeq(log, from + 1, from + k)) = Replay(from + k)}
<1>1. 0 \in Good
  <2>1. SubSeq(log, from + 1, from) = <<>> /\ from + 0 = from
    BY PartsAtTheEnds
  <2>2. Replay(from) \in State
    BY ReplayFacts
  <2> QED BY <2>1, <2>2, ApplyNone
<1>2. ASSUME NEW k \in Good PROVE k + 1 \in Good
  <2> SUFFICES ASSUME from + (k + 1) <= Len(log)
               PROVE  Apply(Replay(from), SubSeq(log, from + 1, from + (k + 1))) = Replay(from + (k + 1))
    OBVIOUS
  <2> DEFINE n == from + k
  <2>1. /\ n \in 0..(Len(log) - 1) /\ n \in Nat /\ from \in Nat /\ from <= n /\ n < Len(log)
        /\ from + (k + 1) = n + 1 /\ log[n + 1] \in Event
    OBVIOUS
  <2>2. Apply(Replay(from), SubSeq(log, from + 1, n)) = Replay(n)
    BY <2>1
  <2> HIDE DEF n
  <2>3. SubSeq(log, from + 1, n + 1) = Append(SubSeq(log, from + 1, n), log[n + 1])
    BY <2>1, PartGrows
  <2>4. SubSeq(log, from + 1, n) \in Seq(Event) /\ Replay(from) \in State
    BY <2>1, PartType, ReplayFacts
  <2>5. Apply(Replay(from), SubSeq(log, from + 1, n + 1)) = When(Replay(n), log[n + 1])
    BY <2>1, <2>2, <2>3, <2>4, ApplyAppend
  <2>6. Replay(n + 1) = When(Replay(n), log[n + 1])
    BY <2>1, ReplayFacts
  <2> QED BY <2>1, <2>5, <2>6
<1>3. Good = Nat
  <2>1. Good \in SUBSET Nat
    OBVIOUS
  <2> HIDE DEF Good
  <2> QED BY <1>1, <1>2, <2>1, NaturalSetInduction
<1>4. PICK k \in Nat : from + k = Len(log)
  <2>1. Len(log) - from \in Nat /\ from + (Len(log) - from) = Len(log)
    OBVIOUS
  <2> QED BY <2>1
<1>5. k \in Good
  <2> HIDE DEF Good
  <2> QED BY <1>3
<1>6. Apply(Replay(from), SubSeq(log, from + 1, from + k)) = Replay(from + k)
  <2>1. from + k <= Len(log)
    BY <1>4
  <2> QED BY <1>5, <2>1
<1> QED BY <1>4, <1>6 DEF EventsAfter

-----------------------------------------------------------------------------
(* The inductive invariant *)

MemoryOK ==
  /\ pc \in [Writer -> PcStates]
  /\ state \in [Writer -> State]
  /\ version \in [Writer -> Nat]
  /\ pending \in [Writer -> Seq(Event)]
  /\ saved \in [Writer -> Nat]
  /\ seen \in [Writer -> Nat]

TablesOK ==
  /\ log \in Seq(Event)
  /\ snapshots \subseteq [version : Nat \ {0}, state : State]
  /\ faults \in 0..MaxFaults

\* The version that the uncommitted events of a writer are based on.
Base(w) == version[w] - Len(pending[w])

\* The aggregate is the state after n events with the uncommitted ones on top,
\* each of which follows what is before it.
Stands(w, n) ==
  /\ n \in 0..Len(log)
  /\ state[w] = Apply(Replay(n), pending[w])
  /\ \A i \in 1..Len(pending[w]) :
       Follows(pending[w][i], Apply(Replay(n), SubSeq(pending[w], 1, i - 1)))

\* What a writer counts agrees, and it has events while it saves them.
Counted(w) ==
  /\ Len(pending[w]) <= version[w]
  /\ seen[w] <= Len(log)
  /\ pc[w] = "insert" => seen[w] = Expected(w)
  /\ pc[w] \in {"append", "insert"} => saved[w] < Len(pending[w])
  /\ pc[w] \in {"away", "events", "snapshot"} => pending[w] = <<>>
  /\ pc[w] = "snapshot" => version[w] # 0

\* Between the two statements of a load the state is that of the snapshot.
Loading(w) ==
  pc[w] = "events" =>
    /\ version[w] = 0
    /\ saved[w] \in 0..Len(log)
    /\ state[w] = Replay(saved[w])
    /\ saved[w] # 0 => \E s \in snapshots : s.version = saved[w]

\* A loaded aggregate stands on the version it is based on; or it was loaded
\* from a snapshot with no later events, counts from zero, and stores nothing.
Loaded(w) ==
  pc[w] \notin {"away", "events"} =>
    \/ Stands(w, Base(w))
    \/ /\ Base(w) = 0
       /\ pc[w] \in {"ready", "append"}
       /\ pc[w] = "append" => saved[w] = 0
       /\ \E s \in snapshots : Stands(w, s.version)

\* While a writer saves, what it has stored is in the table behind its base.
StoredSoFar(w) ==
  pc[w] \in {"append", "insert"} =>
    /\ Base(w) + saved[w] <= Len(log)
    /\ Replay(Base(w) + saved[w]) = Apply(Replay(Base(w)), SubSeq(pending[w], 1, saved[w]))

WriterOK(w) == Counted(w) /\ Loading(w) /\ Loaded(w) /\ StoredSoFar(w)

SnapshotsOK == \A s \in snapshots : s.version <= Len(log) /\ s.state = Replay(s.version)

BalancesOK == \A n \in 0..Len(log) : HistoryBalance(n) = Replay(n).balance

IInv ==
  /\ MemoryOK /\ TablesOK
  /\ \A w \in Writer : WriterOK(w)
  /\ SnapshotsOK /\ BalancesOK

\* What a step of one writer leaves alone.
OthersStay(w) ==
  \A v \in Writer \ {w} :
    /\ pc'[v] = pc[v] /\ state'[v] = state[v] /\ version'[v] = version[v]
    /\ pending'[v] = pending[v] /\ saved'[v] = saved[v] /\ seen'[v] = seen[v]

TablesGrow ==
  /\ log' = log \/ \E e \in Event : log' = Append(log, e)
  /\ snapshots \subseteq snapshots'

\* As the table only grows, no replay of a version it has ever changes.
LEMMA ReplaysStay ==
  ASSUME log \in Seq(Event), TablesGrow
  PROVE  /\ log' \in Seq(Event)
         /\ Len(log) <= Len(log')
         /\ \A n \in 0..Len(log) : n \in 0..Len(log') /\ Replay(n)' = Replay(n)
<1>1. CASE log' = log
  BY <1>1 DEF Replay
<1>2. ASSUME NEW e \in Event, log' = Append(log, e)
      PROVE  /\ log' \in Seq(Event)
             /\ Len(log) <= Len(log')
             /\ \A n \in 0..Len(log) : n \in 0..Len(log') /\ Replay(n)' = Replay(n)
  <2>1. log' \in Seq(Event) /\ Len(log') = Len(log) + 1
    BY <1>2, AppendProperties
  <2>2. ASSUME NEW n \in 0..Len(log) PROVE Replay(n)' = Replay(n)
    <3>1. SubSeq(Append(log, e), 0 + 1, n) = SubSeq(log, 0 + 1, n)
      BY PartStays
    <3>2. SubSeq(log', 1, n) = SubSeq(log, 1, n)
      BY <1>2, <3>1
    <3> QED BY <3>2 DEF Replay
  <2> QED BY <2>1, <2>2
<1> QED BY <1>1, <1>2 DEF TablesGrow

\* What is said of a writer stays true while others make the tables grow.
LEMMA WriterStays ==
  ASSUME TablesOK, MemoryOK, TablesGrow, SnapshotsOK, NEW v \in Writer, WriterOK(v),
         pc'[v] = pc[v], state'[v] = state[v], version'[v] = version[v],
         pending'[v] = pending[v], saved'[v] = saved[v], seen'[v] = seen[v]
  PROVE  WriterOK(v)'
<1>1. /\ log \in Seq(Event) /\ log' \in Seq(Event) /\ Len(log) <= Len(log')
      /\ Len(log) \in Nat /\ Len(log') \in Nat
      /\ \A n \in 0..Len(log) : n \in 0..Len(log') /\ Replay(n)' = Replay(n)
      /\ snapshots \subseteq snapshots'
  BY ReplaysStay DEF TablesOK, TablesGrow
<1>2. /\ version[v] \in Nat /\ seen[v] \in Nat /\ saved[v] \in Nat
      /\ pending[v] \in Seq(Event) /\ Len(pending[v]) \in Nat
  BY DEF MemoryOK
<1>3. Counted(v)'
  BY <1>1, <1>2 DEF WriterOK, Counted, Expected
<1>4. Loading(v)'
  BY <1>1, <1>2 DEF WriterOK, Loading
<1>5. ASSUME NEW n, Stands(v, n) PROVE Stands(v, n)'
  BY <1>1, <1>5 DEF Stands
<1>6. Base(v)' = Base(v)
  BY DEF Base
<1>7. Loaded(v)'
  <2> SUFFICES ASSUME pc[v] \notin {"away", "events"} PROVE Loaded(v)'
    BY DEF Loaded
  <2>1. CASE Stands(v, Base(v))
    <3>1. PICK n : n = Base(v)
      OBVIOUS
    <3>2. Stands(v, n)' /\ Base(v)' = n
      BY <1>5, <1>6, <2>1, <3>1
    <3> QED BY <3>2 DEF Loaded, Stands
  <2>2. CASE /\ Base(v) = 0 /\ pc[v] \in {"ready", "append"} /\ (pc[v] = "append" => saved[v] = 0)
             /\ \E s \in snapshots : Stands(v, s.version)
    <3>1. PICK s \in snapshots : Stands(v, s.version)
      BY <2>2
    <3>2. Stands(v, s.version)' /\ s \in snapshots'
      BY <1>1, <1>5, <3>1
    <3> QED BY <1>6, <2>2, <3>2 DEF Loaded
  <2> QED BY <2>1, <2>2 DEF WriterOK, Loaded
<1>8. StoredSoFar(v)'
  <2>1. PICK b : b = Base(v)
    OBVIOUS
  <2> SUFFICES ASSUME pc[v] \in {"append", "insert"}
               PROVE  /\ b + saved[v] <= Len(log')
                      /\ Replay(b + saved[v])' = Apply(Replay(b)', SubSeq(pending[v], 1, saved[v]))
    BY <1>6, <2>1 DEF StoredSoFar
  <2>2. b \in Nat /\ b + saved[v] <= Len(log)
    BY <1>2, <2>1 DEF Base, WriterOK, Counted, StoredSoFar
  <2>3. b \in 0..Len(log) /\ b + saved[v] \in 0..Len(log)
    BY <1>1, <1>2, <2>2
  <2>4. Replay(b + saved[v]) = Apply(Replay(b), SubSeq(pending[v], 1, saved[v]))
    BY <2>1 DEF WriterOK, StoredSoFar
  <2> QED BY <1>1, <2>2, <2>3, <2>4
<1> QED BY <1>3, <1>4, <1>7, <1>8 DEF WriterOK

\* The latest snapshot holds a replay.
LEMMA LatestOK ==
  ASSUME TablesOK, SnapshotsOK, snapshots # {}
  PROVE  /\ Latest \in snapshots
         /\ Latest.version \in 1..Len(log)
         /\ Latest.state = Replay(Latest.version)
<1> DEFINE T == {s.version : s \in snapshots}
<1>1. Len(log) \in Nat /\ \A s \in snapshots : s.version \in 1..Len(log)
  BY DEF TablesOK, SnapshotsOK
<1>2. T \in SUBSET (1..Len(log)) /\ T # {}
  BY <1>1
<1>3. Max(T) \in T /\ \A i \in T : i <= Max(T)
  <2> HIDE DEF T
  <2> QED BY <1>1, <1>2, MaxOfPlaces
<1>4. PICK s \in snapshots : s.version = Max(T)
  BY <1>3
<1>5. \A t \in snapshots : t.version <= s.version
  BY <1>3, <1>4
<1>6. Latest \in snapshots
  BY <1>5 DEF Latest
<1> QED BY <1>1, <1>6 DEF SnapshotsOK

-----------------------------------------------------------------------------
(* Every step keeps the invariant *)

\* It holds at first.
LEMMA InitOK == Init => IInv
<1> SUFFICES ASSUME Init PROVE IInv
  OBVIOUS
<1>1. InitialState \in State /\ InitialState.balance = 0
  BY DEF InitialState, State
<1>2. log = <<>> /\ log \in Seq(Event) /\ Len(log) = 0 /\ snapshots = {}
  BY DEF Init
<1>3. MemoryOK
  BY <1>1 DEF Init, MemoryOK, PcStates
<1>4. TablesOK
  BY <1>2, EventStoreAssumption DEF Init, TablesOK
<1>5. ASSUME NEW w \in Writer PROVE WriterOK(w)
  BY <1>2 DEF Init, WriterOK, Counted, Loading, Loaded, StoredSoFar, Expected
<1>6. SnapshotsOK
  BY <1>2 DEF SnapshotsOK
<1>7. BalancesOK
  <2>1. SubSeq(log, 1, 0) = <<>>
    <3>1. SubSeq(log, 0 + 1, 0) = <<>>
      BY <1>2, PartsAtTheEnds
    <3> QED BY <3>1
  <2>2. HistoryBalance(0) = 0
    BY <2>1, BalanceNone DEF HistoryBalance
  <2>3. Replay(0).balance = 0
    BY <1>1, <1>2, ReplayFacts
  <2>4. \A n \in 0..Len(log) : n = 0
    BY <1>2
  <2> QED BY <2>2, <2>3, <2>4 DEF BalancesOK
<1> QED BY <1>3, <1>4, <1>5, <1>6, <1>7 DEF IInv

\* A step of one writer that makes the tables grow keeps what is said of the
\* others.
LEMMA StepOf ==
  ASSUME IInv, NEW w \in Writer, TablesGrow, OthersStay(w),
         MemoryOK', TablesOK', WriterOK(w)', SnapshotsOK', BalancesOK'
  PROVE  IInv'
<1>1. ASSUME NEW v \in Writer, v # w PROVE WriterOK(v)'
  <2>1. /\ pc'[v] = pc[v] /\ state'[v] = state[v] /\ version'[v] = version[v]
        /\ pending'[v] = pending[v] /\ saved'[v] = saved[v] /\ seen'[v] = seen[v]
    BY <1>1 DEF OthersStay
  <2>2. TablesOK /\ MemoryOK /\ SnapshotsOK /\ WriterOK(v)
    BY DEF IInv
  <2> QED BY <2>1, <2>2, WriterStays
<1> QED BY <1>1 DEF IInv

\* So does one that leaves the tables alone.
LEMMA StepInMemory ==
  ASSUME IInv, NEW w \in Writer, UNCHANGED tables, faults' \in 0..MaxFaults,
         OthersStay(w), MemoryOK', WriterOK(w)'
  PROVE  IInv'
<1>1. log' = log /\ snapshots' = snapshots
  BY DEF tables
<1>2. TablesGrow
  BY <1>1 DEF TablesGrow
<1>3. TablesOK'
  BY <1>1 DEF IInv, TablesOK
<1>4. SnapshotsOK' /\ BalancesOK'
  BY <1>1 DEF IInv, SnapshotsOK, BalancesOK, HistoryBalance, Replay
<1> QED BY <1>2, <1>3, <1>4, StepOf

\* What the invariant says of the writer that takes a step.
LEMMA OneWriter ==
  ASSUME IInv, NEW w \in Writer
  PROVE  /\ log \in Seq(Event) /\ Len(log) \in Nat
         /\ pc[w] \in PcStates /\ state[w] \in State /\ version[w] \in Nat
         /\ pending[w] \in Seq(Event) /\ Len(pending[w]) \in Nat
         /\ saved[w] \in Nat /\ seen[w] \in Nat
         /\ WriterOK(w) /\ Base(w) \in Nat
BY DEF IInv, TablesOK, MemoryOK, WriterOK, Counted, Base

\* A load that reads a snapshot starts from the state at its version.
LEMMA LoadSnapshotOK ==
  ASSUME IInv, NEW w \in Writer, LoadSnapshot(w)
  PROVE  IInv'
<1>1. pc[w] = "away" /\ pending[w] = <<>>
  BY OneWriter DEF LoadSnapshot, WriterOK, Counted
<1>2. /\ (IF snapshots = {} THEN InitialState ELSE Latest.state) \in State
      /\ SnapshotVersion \in 0..Len(log)
      /\ (IF snapshots = {} THEN InitialState ELSE Latest.state) = Replay(SnapshotVersion)
      /\ SnapshotVersion # 0 => \E s \in snapshots : s.version = SnapshotVersion
  <2>1. CASE snapshots = {}
    BY <2>1, OneWriter, ReplayFacts DEF SnapshotVersion, InitialState, State
  <2>2. CASE snapshots # {}
    <3>1. /\ Latest \in snapshots /\ Latest.version \in 1..Len(log)
          /\ Latest.state = Replay(Latest.version)
      BY <2>2, LatestOK DEF IInv
    <3>2. Latest.state \in State
      BY <3>1, OneWriter, ReplayFacts
    <3> QED BY <2>2, <3>1, <3>2, OneWriter DEF SnapshotVersion
  <2> QED BY <2>1, <2>2
<1>3. PICK from, s0 : /\ from = SnapshotVersion
                      /\ s0 = IF snapshots = {} THEN InitialState ELSE Latest.state
  OBVIOUS
<1>4. /\ pc' = [pc EXCEPT ![w] = "events"] /\ state' = [state EXCEPT ![w] = s0]
      /\ version' = [version EXCEPT ![w] = 0] /\ saved' = [saved EXCEPT ![w] = from]
      /\ UNCHANGED <<log, snapshots, pending, seen, faults>>
  BY <1>3 DEF LoadSnapshot, Goto, tables
<1>5. s0 \in State /\ from \in 0..Len(log) /\ from \in Nat /\ s0 = Replay(from)
  BY <1>2, <1>3, OneWriter
<1>6. MemoryOK'
  BY <1>4, <1>5 DEF IInv, MemoryOK, PcStates
<1>7. /\ pc'[w] = "events" /\ state'[w] = s0 /\ version'[w] = 0 /\ saved'[w] = from
      /\ pending'[w] = <<>> /\ seen'[w] = seen[w]
  BY <1>1, <1>4 DEF IInv, MemoryOK
<1>8. Replay(from)' = Replay(from)
  BY <1>4 DEF Replay
<1>9. Counted(w)' /\ Loaded(w)' /\ StoredSoFar(w)'
  BY <1>4, <1>7, OneWriter DEF WriterOK, Counted, Loaded, StoredSoFar
<1>10. Loading(w)'
  <2>1. from # 0 => \E s \in snapshots : s.version = from
    BY <1>2, <1>3
  <2> QED BY <1>4, <1>5, <1>7, <1>8, <2>1 DEF Loading
<1>11. OthersStay(w)
  BY <1>4 DEF IInv, MemoryOK, OthersStay
<1> QED BY <1>4, <1>6, <1>9, <1>10, <1>11, StepInMemory DEF WriterOK, IInv, TablesOK, tables

\* The rest of a load: the aggregate stands on the head of the table, or on a
\* snapshot that nothing follows, or there is none yet.
LEMMA LoadEventsOK ==
  ASSUME IInv, NEW w \in Writer, LoadEvents(w)
  PROVE  IInv'
<1> DEFINE created == [type |-> "created", amount |-> 0, balance |-> 0]
<1>1. /\ pc[w] = "events" /\ pending[w] = <<>> /\ version[w] = 0
      /\ saved[w] \in 0..Len(log) /\ state[w] = Replay(saved[w])
      /\ saved[w] # 0 => \E s \in snapshots : s.version = saved[w]
  BY OneWriter DEF LoadEvents, WriterOK, Counted, Loading
<1>2. PICK from : from = saved[w]
  OBVIOUS
<1>3. PICK events : events = EventsAfter(from)
  OBVIOUS
<1>4. /\ events \in Seq(Event) /\ Len(events) = Len(log) - from
      /\ from \in Nat /\ from \in 0..Len(log) /\ Len(log) \in Nat
      /\ Apply(state[w], events) = Replay(Len(log))
  <2>1. from \in Nat /\ Len(log) \in Nat /\ from <= Len(log) /\ from \in 0..Len(log) /\ log \in Seq(Event)
    BY <1>1, <1>2, OneWriter
  <2> QED BY <1>1, <1>2, <1>3, <2>1, PartType, ReplayGoesOn DEF EventsAfter
<1>5. PICK s0, v0, p0 :
        /\ s0 = Replay(Len(log))
        /\ v0 = IF events = <<>> /\ from = 0 THEN 1 ELSE IF events = <<>> THEN 0 ELSE Len(log)
        /\ p0 = IF events = <<>> /\ from = 0 THEN <<created>> ELSE <<>>
  OBVIOUS
<1>6. /\ pc' = [pc EXCEPT ![w] = "ready"] /\ state' = [state EXCEPT ![w] = s0]
      /\ version' = [version EXCEPT ![w] = v0] /\ pending' = [pending EXCEPT ![w] = p0]
      /\ saved' = [saved EXCEPT ![w] = 0]
      /\ UNCHANGED <<log, snapshots, seen, faults>>
  BY <1>1, <1>2, <1>3, <1>4, <1>5 DEF LoadEvents, Goto, tables, IInv, MemoryOK
<1>7. created \in Event
  BY DEF Event, Types
<1>8. s0 \in State /\ v0 \in Nat /\ p0 \in Seq(Event)
  <2>1. s0 \in State
    BY <1>4, <1>5, OneWriter, ReplayFacts
  <2>2. v0 \in Nat
    BY <1>4, <1>5
  <2>3. p0 \in Seq(Event)
    <3> HIDE DEF created
    <3> QED BY <1>5, <1>7
  <2> QED BY <2>1, <2>2, <2>3
<1>9. MemoryOK'
  BY <1>6, <1>8 DEF IInv, MemoryOK, PcStates
<1>10. /\ pc'[w] = "ready" /\ state'[w] = s0 /\ version'[w] = v0 /\ saved'[w] = 0
       /\ pending'[w] = p0 /\ seen'[w] = seen[w]
  BY <1>6 DEF IInv, MemoryOK
<1>11. \A n : Replay(n)' = Replay(n)
  BY <1>6 DEF Replay
<1>12. Counted(w)'
  <2>1. Len(p0) <= v0
    <3> HIDE DEF created
    <3> QED BY <1>4, <1>5
  <2> QED BY <1>6, <1>10, <2>1, OneWriter DEF WriterOK, Counted
<1>13. Loaded(w)'
  <2>1. CASE events = <<>> /\ from = 0
    <3>1. s0 = InitialState /\ v0 = 1 /\ p0 = <<created>> /\ Len(log) = 0
      BY <1>4, <1>5, <2>1, OneWriter, ReplayFacts
    <3>2. s0 = Apply(Replay(0), p0) /\ Follows(created, Apply(Replay(0), SubSeq(p0, 1, 0)))
      <4>1. InitialState \in State /\ Replay(0) = InitialState
        BY OneWriter, ReplayFacts DEF InitialState, State
      <4>2. Apply(InitialState, <<>>) = InitialState
        BY <4>1, ApplyNone
      <4>3. <<created>> = Append(<<>>, created) /\ <<>> \in Seq(Event)
        OBVIOUS
      <4>4. Apply(InitialState, <<created>>) = When(InitialState, created)
        <5> HIDE DEF created
        <5> QED BY <1>7, <4>1, <4>2, <4>3, ApplyAppend
      <4>5. When(InitialState, created) = InitialState
        BY DEF When
      <4>6. SubSeq(p0, 0 + 1, 0) = <<>>
        BY <1>8, PartsAtTheEnds
      <4>7. SubSeq(p0, 1, 0) = <<>>
        BY <4>6
      <4>8. Follows(created, InitialState)
        BY DEF Follows
      <4> HIDE DEF created
      <4> QED BY <3>1, <4>1, <4>2, <4>4, <4>5, <4>7, <4>8
    <3>3. Base(w)' = 0
      <4> HIDE DEF created
      <4> QED BY <1>10, <3>1 DEF Base
    <3>4. Stands(w, 0)'
      <4> HIDE DEF created
      <4>1. Len(p0) = 1 /\ p0[1] = created /\ 0 \in 0..Len(log') /\ \A i \in 1..1 : i = 1 /\ i - 1 = 0
        BY <1>6, <3>1
      <4> QED BY <1>10, <1>11, <3>2, <4>1 DEF Stands
    <3> QED BY <3>3, <3>4 DEF Loaded, Stands
  <2>2. CASE from # 0 \/ events # <<>>
    <3>1. p0 = <<>>
      BY <1>5, <2>2
    <3>2. Stands(w, Len(log))'
      <4>1. Apply(s0, <<>>) = s0 /\ Len(log) \in 0..Len(log') /\ Len(<<>>) = 0
        BY <1>4, <1>6, <1>8, ApplyNone
      <4> QED BY <1>5, <1>6, <1>10, <1>11, <3>1, <4>1 DEF Stands
    <3>3. CASE events = <<>>
      <4>1. v0 = 0 /\ from # 0 /\ from = Len(log)
        BY <1>4, <1>5, <2>2, <3>3
      <4>2. PICK s \in snapshots : s.version = Len(log)
        BY <1>1, <1>2, <4>1
      <4>3. Base(w)' = 0 /\ Stands(w, s.version)' /\ s \in snapshots'
        BY <1>6, <1>10, <3>1, <3>2, <4>1, <4>2 DEF Base, Stands
      <4> QED BY <1>10, <4>3 DEF Loaded
    <3>4. CASE events # <<>>
      <4>1. Base(w)' = Len(log)
        BY <1>4, <1>5, <1>10, <3>1, <3>4 DEF Base
      <4> QED BY <3>2, <4>1, <1>6 DEF Loaded, Stands
    <3> QED BY <3>3, <3>4
  <2> QED BY <2>1, <2>2
<1>14. Loading(w)' /\ StoredSoFar(w)'
  BY <1>10 DEF Loading, StoredSoFar
<1>15. OthersStay(w)
  BY <1>6 DEF IInv, MemoryOK, OthersStay
<1>16. faults' \in 0..MaxFaults /\ UNCHANGED tables
  BY <1>6 DEF IInv, TablesOK, tables
<1> QED BY <1>9, <1>12, <1>13, <1>14, <1>15, <1>16, StepInMemory DEF WriterOK

\* An event that follows the state of an aggregate is raised on top of it.
LEMMA RaiseOK ==
  ASSUME IInv, NEW w \in Writer, NEW e \in Event, Follows(e, state[w]), pc[w] = "ready",
         state' = [state EXCEPT ![w] = When(@, e)],
         pending' = [pending EXCEPT ![w] = Append(@, e)],
         version' = [version EXCEPT ![w] = @ + 1],
         UNCHANGED <<tables, pc, save, faults>>
  PROVE  IInv'
<1>1. PICK p, s0 : p = pending[w] /\ s0 = state[w]
  OBVIOUS
<1>2. p \in Seq(Event) /\ Len(p) \in Nat /\ s0 \in State /\ version[w] \in Nat
  BY <1>1, OneWriter
<1>3. /\ Append(p, e) \in Seq(Event) /\ Len(Append(p, e)) = Len(p) + 1
      /\ Append(p, e)[Len(p) + 1] = e /\ \A i \in 1..Len(p) : Append(p, e)[i] = p[i]
  BY <1>2, AppendProperties
<1>4. When(s0, e) \in State
  BY <1>2, WhenType
<1>5. UNCHANGED <<log, snapshots, pc, saved, seen, faults>>
  BY DEF tables, save
<1>6. MemoryOK'
  BY <1>1, <1>3, <1>4, <1>5 DEF IInv, MemoryOK
<1>7. /\ state'[w] = When(s0, e) /\ pending'[w] = Append(p, e) /\ version'[w] = version[w] + 1
  BY <1>1 DEF IInv, MemoryOK
<1>8. \A n : Replay(n)' = Replay(n)
  BY <1>5 DEF Replay
<1>9. Base(w)' = Base(w)
  BY <1>1, <1>2, <1>3, <1>7 DEF Base
<1>10. Counted(w)'
  BY <1>1, <1>2, <1>3, <1>5, <1>7, OneWriter DEF WriterOK, Counted
<1>11. ASSUME NEW n, Stands(w, n) PROVE Stands(w, n)'
  <2>1. /\ n \in 0..Len(log) /\ s0 = Apply(Replay(n), p) /\ Replay(n) \in State
        /\ \A i \in 1..Len(p) : Follows(p[i], Apply(Replay(n), SubSeq(p, 1, i - 1)))
    BY <1>1, <1>11, OneWriter, ReplayFacts DEF Stands
  <2>2. When(s0, e) = Apply(Replay(n), Append(p, e))
    BY <1>2, <2>1, ApplyAppend
  <2>3. ASSUME NEW i \in 1..(Len(p) + 1)
        PROVE  SubSeq(Append(p, e), 1, i - 1) = SubSeq(p, 1, i - 1)
    <3>1. i - 1 \in Nat /\ 0 <= i - 1 /\ i - 1 <= Len(p) /\ 0 + 1 = 1
      BY <1>2
    <3>2. SubSeq(Append(p, e), 0 + 1, i - 1) = SubSeq(p, 0 + 1, i - 1)
      BY <1>2, <3>1, PartStays
    <3> QED BY <3>1, <3>2, Zenon
  <2>4. ASSUME NEW i \in 1..(Len(p) + 1)
        PROVE  Follows(Append(p, e)[i], Apply(Replay(n), SubSeq(Append(p, e), 1, i - 1)))
    <3>1. CASE i \in 1..Len(p)
      <4>1. Follows(p[i], Apply(Replay(n), SubSeq(p, 1, i - 1)))
        BY <2>1, <3>1
      <4>2. Append(p, e)[i] = p[i] /\ SubSeq(Append(p, e), 1, i - 1) = SubSeq(p, 1, i - 1)
        BY <1>3, <2>3, <3>1
      <4> QED BY <4>1, <4>2
    <3>2. CASE i = Len(p) + 1
      <4>1. i - 1 = Len(p) /\ SubSeq(p, 1, Len(p)) = p
        BY <1>2, <3>2, PartsAtTheEnds
      <4>2. Append(p, e)[i] = e /\ SubSeq(Append(p, e), 1, i - 1) = p
        BY <1>3, <2>3, <3>2, <4>1
      <4> QED BY <1>1, <2>1, <4>2
    <3> QED BY <1>2, <3>1, <3>2
  <2> QED BY <1>3, <1>5, <1>7, <1>8, <2>1, <2>2, <2>4 DEF Stands
<1>12. Loaded(w)'
  <2>1. CASE Stands(w, Base(w))
    <3>1. PICK n : n = Base(w)
      OBVIOUS
    <3>2. Stands(w, n)' /\ Base(w)' = n
      BY <1>9, <1>11, <2>1, <3>1
    <3> QED BY <3>2 DEF Loaded, Stands
  <2>2. CASE Base(w) = 0 /\ \E s \in snapshots : Stands(w, s.version)
    <3>1. PICK s \in snapshots : Stands(w, s.version)
      BY <2>2
    <3>2. Stands(w, s.version)' /\ s \in snapshots'
      BY <1>5, <1>11, <3>1
    <3> QED BY <1>5, <1>9, <2>2, <3>2 DEF Loaded
  <2> QED BY <2>1, <2>2, OneWriter DEF WriterOK, Loaded
<1>13. Loading(w)' /\ StoredSoFar(w)'
  BY <1>5 DEF Loading, StoredSoFar
<1>14. OthersStay(w)
  BY <1>5 DEF IInv, MemoryOK, OthersStay
<1>15. faults' \in 0..MaxFaults
  BY <1>5 DEF IInv, TablesOK
<1> QED BY <1>6, <1>10, <1>12, <1>13, <1>14, <1>15, StepInMemory DEF WriterOK

\* Every command raises an event that follows the state it was decided on.
LEMMA CommandOK ==
  ASSUME IInv, NEW w \in Writer, Command(w)
  PROVE  IInv'
<1>1. /\ state[w].balance \in Nat /\ state[w].status \in {"active", "frozen"}
  BY OneWriter DEF State
<1>2. ASSUME NEW t \in Types, NEW a \in Nat, NEW b \in Nat, Raise(w, t, a, b),
             Follows([type |-> t, amount |-> a, balance |-> b], state[w])
      PROVE  IInv'
  <2>1. PICK e : e = [type |-> t, amount |-> a, balance |-> b]
    OBVIOUS
  <2>2. e \in Event
    BY <2>1 DEF Event
  <2>3. /\ pc[w] = "ready"
        /\ state' = [state EXCEPT ![w] = When(@, e)]
        /\ pending' = [pending EXCEPT ![w] = Append(@, e)]
        /\ version' = [version EXCEPT ![w] = @ + 1]
        /\ UNCHANGED <<tables, pc, save, faults>>
    BY <1>2, <2>1 DEF Raise
  <2>4. Follows(e, state[w])
    BY <1>2, <2>1
  <2> QED BY <2>2, <2>3, <2>4, RaiseOK
<1>3. ASSUME NEW n \in Amount, Deposit(w, n) PROVE IInv'
  <2>1. n \in Nat /\ "deposited" \in Types
    BY EventStoreAssumption DEF Types
  <2>2. PICK b : b = state[w].balance + n
    OBVIOUS
  <2>3. Raise(w, "deposited", n, b) /\ state[w].status = "active" /\ b \in Nat
    BY <1>1, <1>3, <2>1, <2>2 DEF Deposit
  <2>4. Follows([type |-> "deposited", amount |-> n, balance |-> b], state[w])
    BY <1>1, <2>1, <2>2, <2>3 DEF Follows
  <2> QED BY <1>2, <2>1, <2>3, <2>4
<1>4. ASSUME NEW n \in Amount, Withdraw(w, n) PROVE IInv'
  <2>1. n \in Nat /\ "withdrawn" \in Types
    BY EventStoreAssumption DEF Types
  <2>2. PICK b : b = state[w].balance - n
    OBVIOUS
  <2>3. Raise(w, "withdrawn", n, b) /\ state[w].status = "active" /\ b \in Nat
    BY <1>1, <1>4, <2>1, <2>2 DEF Withdraw
  <2>4. Follows([type |-> "withdrawn", amount |-> n, balance |-> b], state[w])
    BY <1>1, <2>1, <2>2, <2>3 DEF Follows
  <2> QED BY <1>2, <2>1, <2>3, <2>4
<1>5. CASE Freeze(w)
  <2>1. "frozen" \in Types
    BY DEF Types
  <2> QED BY <1>1, <1>2, <1>5, <2>1 DEF Freeze, Follows
<1>6. CASE Unfreeze(w)
  <2>1. "unfrozen" \in Types
    BY DEF Types
  <2> QED BY <1>1, <1>2, <1>6, <2>1 DEF Unfreeze, Follows
<1> QED BY <1>3, <1>4, <1>5, <1>6 DEF Command

\* An aggregate that stays as it is remains loaded, when its writer goes back to
\* the caller or starts to save.
LEMMA LoadedStays ==
  ASSUME IInv, NEW w \in Writer, UNCHANGED <<log, state, version, pending>>,
         snapshots \subseteq snapshots', pc[w] \notin {"away", "events"},
         pc'[w] = "ready" \/ (pc'[w] = "append" /\ saved'[w] = 0)
  PROVE  Loaded(w)'
<1>1. ASSUME NEW n, Stands(w, n) PROVE Stands(w, n)'
  BY <1>1 DEF Stands, Replay
<1>2. Base(w)' = Base(w)
  BY DEF Base
<1>3. CASE Stands(w, Base(w))
  <2>1. PICK n : n = Base(w)
    OBVIOUS
  <2>2. Stands(w, n)' /\ Base(w)' = n
    BY <1>1, <1>2, <1>3, <2>1
  <2> QED BY <2>2 DEF Loaded, Stands
<1>4. CASE Base(w) = 0 /\ \E s \in snapshots : Stands(w, s.version)
  <2>1. PICK s \in snapshots : Stands(w, s.version)
    BY <1>4
  <2>2. Stands(w, s.version)' /\ s \in snapshots'
    BY <1>1, <2>1
  <2> QED BY <1>2, <1>4, <2>2 DEF Loaded
<1> QED BY <1>3, <1>4, OneWriter DEF WriterOK, Loaded

\* A save starts with nothing stored.
LEMMA SaveOK ==
  ASSUME IInv, NEW w \in Writer, Save(w)
  PROVE  IInv'
<1>1. /\ pc[w] = "ready" /\ pending[w] # <<>>
      /\ pc' = [pc EXCEPT ![w] = "append"] /\ saved' = [saved EXCEPT ![w] = 0]
      /\ UNCHANGED <<log, snapshots, state, version, pending, seen, faults>>
  BY DEF Save, Goto, tables, aggregate
<1>2. MemoryOK'
  BY <1>1 DEF IInv, MemoryOK, PcStates
<1>3. pc'[w] = "append" /\ saved'[w] = 0
  BY <1>1 DEF IInv, MemoryOK
<1>4. Counted(w)' /\ Loading(w)'
  <2>1. 0 < Len(pending[w])
    BY <1>1, OneWriter
  <2> QED BY <1>1, <1>3, <2>1, OneWriter DEF WriterOK, Counted, Loading
<1>5. Loaded(w)'
  BY <1>1, <1>3, LoadedStays
<1>6. StoredSoFar(w)'
  <2>1. PICK b : b = Base(w)
    OBVIOUS
  <2>2. b \in Nat /\ b \in 0..Len(log)
    BY <1>1, <2>1, OneWriter DEF WriterOK, Loaded, Stands
  <2>3. SubSeq(pending[w], 1, 0) = <<>>
    <3>1. SubSeq(pending[w], 0 + 1, 0) = <<>>
      BY OneWriter, PartsAtTheEnds
    <3> QED BY <3>1
  <2>4. Apply(Replay(b), <<>>) = Replay(b)
    BY <2>2, OneWriter, ReplayFacts, ApplyNone
  <2>5. Base(w)' = b /\ \A n : Replay(n)' = Replay(n)
    BY <1>1, <2>1 DEF Base, Replay
  <2>6. /\ b + 0 <= Len(log)
        /\ Replay(b + 0)' = Apply(Replay(b)', SubSeq(pending[w], 1, 0))
    <3>1. b + 0 = b /\ b <= Len(log)
      BY <2>2, OneWriter
    <3> QED BY <2>3, <2>4, <2>5, <3>1
  <2> QED BY <1>1, <1>3, <2>5, <2>6 DEF StoredSoFar
<1>7. OthersStay(w) /\ faults' \in 0..MaxFaults /\ UNCHANGED tables
  BY <1>1 DEF IInv, MemoryOK, TablesOK, OthersStay, tables
<1> QED BY <1>2, <1>4, <1>5, <1>6, <1>7, StepInMemory DEF WriterOK

\* Of the writers whose version is the one in the table, none was loaded from a
\* snapshot that nothing follows.
LEMMA ReadVersionOK ==
  ASSUME IInv, NEW w \in Writer, ReadVersion(w)
  PROVE  IInv'
<1>1. PICK label : label = IF Conflict(w) THEN "ready" ELSE "insert"
  OBVIOUS
<1>2. /\ pc[w] = "append"
      /\ pc' = [pc EXCEPT ![w] = label] /\ seen' = [seen EXCEPT ![w] = Len(log)]
      /\ UNCHANGED <<log, snapshots, state, version, pending, saved, faults>>
  BY <1>1 DEF ReadVersion, Goto, tables, aggregate
<1>3. MemoryOK'
  BY <1>1, <1>2, OneWriter DEF IInv, MemoryOK, PcStates
<1>4. pc'[w] = label /\ seen'[w] = Len(log) /\ label \in {"ready", "insert"}
  BY <1>1, <1>2 DEF IInv, MemoryOK
<1>5. Expected(w) = Base(w) + saved[w]
  BY OneWriter DEF Expected, Base
<1>6. Counted(w)' /\ Loading(w)'
  <2>1. label = "insert" => Expected(w) = Len(log)
    BY <1>1 DEF Conflict
  <2>2. Expected(w)' = Expected(w)
    BY <1>2 DEF Expected
  <2> QED BY <1>2, <1>4, <2>1, <2>2, OneWriter DEF WriterOK, Counted, Loading
<1>7. Loaded(w)'
  <2>1. CASE label = "ready"
    BY <1>2, <1>4, <2>1, LoadedStays
  <2>2. CASE label = "insert"
    <3>1. Base(w) + saved[w] = Len(log)
      BY <1>1, <1>5, <2>2 DEF Conflict
    <3>2. Stands(w, Base(w))
      <4> SUFFICES ASSUME Base(w) = 0, saved[w] = 0, NEW s \in snapshots PROVE FALSE
        BY <1>2, OneWriter DEF WriterOK, Loaded
      <4>1. s.version \in Nat \ {0} /\ s.version <= Len(log)
        BY DEF IInv, TablesOK, SnapshotsOK
      <4> QED BY <3>1, <4>1
    <3>3. PICK n : n = Base(w)
      OBVIOUS
    <3>4. Stands(w, n)' /\ Base(w)' = n
      BY <1>2, <3>2, <3>3 DEF Stands, Base, Replay
    <3> QED BY <3>4 DEF Loaded, Stands
  <2> QED BY <1>4, <2>1, <2>2
<1>8. StoredSoFar(w)'
  <2>1. PICK b : b = Base(w)
    OBVIOUS
  <2>2. Base(w)' = b /\ \A n : Replay(n)' = Replay(n)
    BY <1>2, <2>1 DEF Base, Replay
  <2>3. /\ b + saved[w] <= Len(log)
        /\ Replay(b + saved[w]) = Apply(Replay(b), SubSeq(pending[w], 1, saved[w]))
    BY <1>2, <2>1, OneWriter DEF WriterOK, StoredSoFar
  <2> QED BY <1>2, <2>2, <2>3 DEF StoredSoFar
<1>9. OthersStay(w) /\ faults' \in 0..MaxFaults /\ UNCHANGED tables
  BY <1>2 DEF IInv, MemoryOK, TablesOK, OthersStay, tables
<1> QED BY <1>3, <1>6, <1>7, <1>8, <1>9, StepInMemory DEF WriterOK

\* A snapshot is taken of an aggregate whose events are all in the table.
LEMMA SaveSnapshotOK ==
  ASSUME IInv, NEW w \in Writer, SaveSnapshot(w)
  PROVE  IInv'
<1>1. PICK s0 : s0 = SnapshotOf(w)
  OBVIOUS
<1>2. /\ pc[w] = "snapshot" /\ pc' = [pc EXCEPT ![w] = "ready"]
      /\ snapshots' = snapshots \cup {s0}
      /\ UNCHANGED <<log, state, version, pending, saved, seen, faults>>
  BY <1>1 DEF SaveSnapshot, Goto, aggregate, save
<1>3. /\ s0.version \in Nat \ {0} /\ s0.version <= Len(log) /\ s0.state = Replay(s0.version)
      /\ s0 \in [version : Nat \ {0}, state : State]
  <2>1. s0.version = version[w] /\ s0.state = state[w]
    BY <1>1 DEF SnapshotOf
  <2>2. pending[w] = <<>> /\ version[w] # 0 /\ Base(w) = version[w]
    BY <1>2, OneWriter DEF WriterOK, Counted, Base
  <2>3. Stands(w, version[w])
    BY <1>2, <2>2, OneWriter DEF WriterOK, Loaded
  <2>4. version[w] \in 0..Len(log) /\ state[w] = Apply(Replay(version[w]), <<>>)
    BY <2>2, <2>3 DEF Stands
  <2>5. state[w] = Replay(version[w])
    BY <2>4, OneWriter, ReplayFacts, ApplyNone
  <2> QED BY <1>1, <2>1, <2>2, <2>4, <2>5, OneWriter DEF SnapshotOf
<1>4. MemoryOK'
  BY <1>2 DEF IInv, MemoryOK, PcStates
<1>5. pc'[w] = "ready"
  BY <1>2 DEF IInv, MemoryOK
<1>6. Counted(w)' /\ Loading(w)' /\ StoredSoFar(w)'
  BY <1>2, <1>5, OneWriter DEF WriterOK, Counted, Loading, StoredSoFar
<1>7. Loaded(w)'
  BY <1>2, <1>5, LoadedStays
<1>8. TablesOK' /\ TablesGrow /\ SnapshotsOK'
  BY <1>2, <1>3 DEF IInv, TablesOK, TablesGrow, SnapshotsOK, Replay
<1>9. BalancesOK'
  BY <1>2 DEF IInv, BalancesOK, HistoryBalance, Replay
<1>10. OthersStay(w)
  BY <1>2 DEF IInv, MemoryOK, OthersStay
<1> QED BY <1>4, <1>6, <1>7, <1>8, <1>9, <1>10, StepOf DEF WriterOK

\* A failed statement leaves the aggregate with the caller.
LEMMA StatementFailsOK ==
  ASSUME IInv, NEW w \in Writer, StatementFails(w)
  PROVE  IInv'
<1>1. PICK label : label = IF pc[w] = "events" THEN "away" ELSE "ready"
  OBVIOUS
<1>2. /\ pc[w] \in {"events", "append", "insert", "snapshot"}
      /\ pc' = [pc EXCEPT ![w] = label] /\ faults < MaxFaults /\ faults' = faults + 1
      /\ UNCHANGED <<log, snapshots, state, version, pending, saved, seen>>
  BY <1>1 DEF StatementFails, Fault, Goto, tables, aggregate, save
<1>3. MemoryOK'
  BY <1>1, <1>2 DEF IInv, MemoryOK, PcStates
<1>4. pc'[w] = label /\ label \in {"away", "ready"}
  BY <1>1, <1>2 DEF IInv, MemoryOK
<1>5. Counted(w)' /\ Loading(w)' /\ StoredSoFar(w)'
  BY <1>1, <1>2, <1>4, OneWriter DEF WriterOK, Counted, Loading, StoredSoFar
<1>6. Loaded(w)'
  <2>1. CASE label = "away"
    BY <1>4, <2>1 DEF Loaded
  <2>2. CASE label = "ready"
    BY <1>1, <1>2, <1>4, <2>2, LoadedStays
  <2> QED BY <1>4, <2>1, <2>2
<1>7. faults' \in 0..MaxFaults
  BY <1>2, EventStoreAssumption DEF IInv, TablesOK
<1>8. OthersStay(w) /\ UNCHANGED tables
  BY <1>2 DEF IInv, MemoryOK, OthersStay, tables
<1> QED BY <1>3, <1>5, <1>6, <1>7, <1>8, StepInMemory DEF WriterOK

\* A caller without its aggregate has no events.
LEMMA LeavesOK ==
  ASSUME IInv, NEW w \in Writer, Forget(w) \/ Crash(w)
  PROVE  IInv'
<1>1. /\ pc' = [pc EXCEPT ![w] = "away"] /\ pending' = [pending EXCEPT ![w] = <<>>]
      /\ UNCHANGED <<log, snapshots, state, version, saved, seen>>
  BY DEF Forget, Crash, Goto, tables, save
<1>2. faults' \in 0..MaxFaults
  BY EventStoreAssumption DEF Forget, Crash, Fault, IInv, TablesOK
<1>3. MemoryOK'
  BY <1>1 DEF IInv, MemoryOK, PcStates
<1>4. pc'[w] = "away" /\ pending'[w] = <<>>
  BY <1>1 DEF IInv, MemoryOK
<1>5. WriterOK(w)'
  BY <1>1, <1>4, OneWriter DEF WriterOK, Counted, Loading, Loaded, StoredSoFar
<1>6. OthersStay(w) /\ UNCHANGED tables
  BY <1>1 DEF IInv, MemoryOK, OthersStay, tables
<1> QED BY <1>2, <1>3, <1>5, <1>6, StepInMemory

\* The event that an INSERT succeeds with follows all that is in the table, and
\* what its writer has stored is then one event more.
LEMMA NextEvent ==
  ASSUME IInv, NEW w \in Writer, pc[w] = "insert", seen[w] = Len(log),
         NEW e, e = pending[w][saved[w] + 1], NEW b, b = Base(w)
  PROVE  /\ e \in Event /\ Follows(e, Replay(Len(log)))
         /\ b \in 0..Len(log) /\ b + saved[w] = Len(log) /\ Stands(w, b)
         /\ When(Replay(Len(log)), e) = Apply(Replay(b), SubSeq(pending[w], 1, saved[w] + 1))
<1>1. PICK p, k : p = pending[w] /\ k = saved[w]
  OBVIOUS
<1>2. /\ p \in Seq(Event) /\ Len(p) \in Nat /\ k \in Nat /\ k < Len(p) /\ e = p[k + 1]
      /\ k + 1 \in 1..Len(p)
  BY <1>1, OneWriter DEF WriterOK, Counted
<1>3. b \in Nat /\ b + k = Len(log)
  BY <1>1, OneWriter DEF WriterOK, Counted, Expected, Base
<1>4. b \in 0..Len(log) /\ Replay(b) \in State
  BY <1>2, <1>3, OneWriter, ReplayFacts
<1>5. Stands(w, b)
  BY OneWriter DEF WriterOK, Loaded
<1>6. Replay(Len(log)) = Apply(Replay(b), SubSeq(p, 1, k))
  BY <1>1, <1>3, OneWriter DEF WriterOK, StoredSoFar
<1>7. Follows(e, Apply(Replay(b), SubSeq(p, 1, k)))
  <2>1. k + 1 - 1 = k
    BY <1>2
  <2>2. Follows(p[k + 1], Apply(Replay(b), SubSeq(p, 1, k + 1 - 1)))
    BY <1>1, <1>2, <1>5 DEF Stands
  <2> QED BY <1>2, <2>1, <2>2
<1>8. SubSeq(p, 1, k + 1) = Append(SubSeq(p, 1, k), e) /\ SubSeq(p, 1, k) \in Seq(Event)
  <2>1. /\ SubSeq(p, 0 + 1, k + 1) = Append(SubSeq(p, 0 + 1, k), p[k + 1])
        /\ SubSeq(p, 0 + 1, k) \in Seq(Event)
    BY <1>2, PartGrows, PartType
  <2>2. 0 + 1 = 1
    OBVIOUS
  <2> QED BY <1>2, <2>1, <2>2, Zenon
<1>9. e \in Event
  BY <1>2
<1>10. Apply(Replay(b), SubSeq(p, 1, k + 1)) = When(Replay(Len(log)), e)
  BY <1>4, <1>6, <1>8, <1>9, ApplyAppend
<1> QED BY <1>1, <1>3, <1>4, <1>5, <1>6, <1>7, <1>9, <1>10

\* What is derived from the table keeps agreeing with it when it grows by an
\* event that follows it.
LEMMA TableGrows ==
  ASSUME IInv, NEW e \in Event, log' = Append(log, e), UNCHANGED <<snapshots, faults>>,
         NEW n, n = Len(log), Follows(e, Replay(n))
  PROVE  /\ TablesOK' /\ TablesGrow /\ SnapshotsOK' /\ BalancesOK'
         /\ Len(log') = n + 1
         /\ \A m \in 0..n : Replay(m)' = Replay(m)
         /\ Replay(n + 1)' = When(Replay(n), e)
<1>1. log \in Seq(Event) /\ n \in Nat /\ n \in 0..n
  BY DEF IInv, TablesOK
<1>2. log' \in Seq(Event) /\ Len(log') = n + 1 /\ log'[n + 1] = e /\ n + 1 \in Nat
  BY <1>1, AppendProperties
<1>3. TablesGrow
  BY DEF TablesGrow
<1>4. \A m \in 0..n : m \in 0..(n + 1) /\ Replay(m)' = Replay(m)
  BY <1>1, <1>2, <1>3, ReplaysStay
<1>5. Replay(n + 1)' = When(Replay(n), e)
  <2>1. \A m \in 0..n : SubSeq(log', 1, m + 1) = Append(SubSeq(log', 1, m), log'[m + 1])
    <3> TAKE m \in 0..n
    <3>1. m \in Nat /\ 0 <= m /\ m < Len(log') /\ 0 + 1 = 1
      BY <1>1, <1>2
    <3>2. SubSeq(log', 0 + 1, m + 1) = Append(SubSeq(log', 0 + 1, m), log'[m + 1])
      BY <1>2, <3>1, PartGrows
    <3> QED BY <3>1, <3>2, Zenon
  <2>2. SubSeq(log', 1, n + 1) = Append(SubSeq(log', 1, n), e)
    BY <1>1, <1>2, <2>1
  <2>3. SubSeq(log', 1, n) \in Seq(Event)
    <3>1. SubSeq(log', 0 + 1, n) \in Seq(Event)
      BY <1>1, <1>2, PartType
    <3> QED BY <3>1
  <2>4. InitialState \in State
    BY DEF InitialState, State
  <2>5. Apply(InitialState, SubSeq(log', 1, n + 1)) = When(Apply(InitialState, SubSeq(log', 1, n)), e)
    BY <2>2, <2>3, <2>4, ApplyAppend
  <2>6. Replay(n + 1)' = When(Replay(n)', e)
    BY <2>5 DEF Replay
  <2> QED BY <1>1, <1>4, <2>6
<1>6. TablesOK' /\ SnapshotsOK'
  <2>1. TablesOK'
    BY <1>2 DEF IInv, TablesOK
  <2>2. ASSUME NEW s \in snapshots
        PROVE  s.version <= Len(log') /\ s.state = Replay(s.version)'
    <3>1. s.version \in 0..n /\ s.state = Replay(s.version)
      BY <1>1 DEF IInv, TablesOK, SnapshotsOK
    <3> QED BY <1>1, <1>2, <1>4, <3>1
  <2> QED BY <2>1, <2>2 DEF SnapshotsOK
<1>7. ASSUME NEW m \in 0..n PROVE HistoryBalance(m)' = Replay(m)'.balance
  <2>1. SubSeq(log', 1, m) = SubSeq(log, 1, m)
    <3>1. m \in Nat /\ 0 <= m /\ m <= Len(log) /\ 0 + 1 = 1
      BY <1>1
    <3>2. SubSeq(Append(log, e), 0 + 1, m) = SubSeq(log, 0 + 1, m)
      BY <1>1, <3>1, PartStays
    <3> QED BY <3>1, <3>2, Zenon
  <2>2. HistoryBalance(m)' = HistoryBalance(m)
    BY <2>1 DEF HistoryBalance
  <2> QED BY <1>4, <2>2 DEF IInv, BalancesOK
<1>8. HistoryBalance(n + 1)' = Replay(n + 1)'.balance
  <2>1. SubSeq(log', 1, n + 1) = log' /\ SubSeq(log, 1, n) = log
    BY <1>1, <1>2, PartsAtTheEnds
  <2>2. FoldLeft(Booked, 0, log') = Booked(FoldLeft(Booked, 0, log), e)
    BY <1>1, BalanceAppend
  <2>3. HistoryBalance(n + 1)' = Booked(HistoryBalance(n), e)
    BY <2>1, <2>2 DEF HistoryBalance
  <2>4. HistoryBalance(n) = Replay(n).balance /\ Replay(n) \in State
    BY <1>1, ReplayFacts DEF IInv, BalancesOK
  <2>5. Booked(Replay(n).balance, e) = When(Replay(n), e).balance
    BY <2>4, BookedAgrees
  <2> QED BY <1>5, <2>3, <2>4, <2>5
<1>9. BalancesOK'
  <2>1. \A m \in 0..(n + 1) : m \in 0..n \/ m = n + 1
    BY <1>1
  <2> QED BY <1>2, <1>7, <1>8, <2>1 DEF BalancesOK
<1> QED BY <1>2, <1>3, <1>4, <1>5, <1>6, <1>9

\* An INSERT stores the event, or finds its version taken.
LEMMA InsertOK ==
  ASSUME IInv, NEW w \in Writer, Insert(w)
  PROVE  IInv'
<1>1. pc[w] = "insert" /\ UNCHANGED <<snapshots, state, version, seen, faults>>
  BY DEF Insert
<1>2. CASE seen[w] < Len(log) /\ Goto(w, "ready") /\ UNCHANGED <<log, pending, saved>>
  <2>1. pc' = [pc EXCEPT ![w] = "ready"]
    BY <1>2 DEF Goto
  <2>2. MemoryOK' /\ pc'[w] = "ready"
    BY <1>1, <1>2, <2>1 DEF IInv, MemoryOK, PcStates
  <2>3. Counted(w)' /\ Loading(w)' /\ StoredSoFar(w)'
    BY <1>1, <1>2, <2>2, OneWriter DEF WriterOK, Counted, Loading, StoredSoFar
  <2>4. Loaded(w)'
    BY <1>1, <1>2, <2>2, LoadedStays
  <2>5. OthersStay(w) /\ faults' \in 0..MaxFaults /\ UNCHANGED tables
    BY <1>1, <1>2, <2>1 DEF IInv, MemoryOK, TablesOK, OthersStay, tables
  <2> QED BY <2>2, <2>3, <2>4, <2>5, StepInMemory DEF WriterOK
<1>3. CASE seen[w] = Len(log) /\ log' = Append(log, pending[w][saved[w] + 1]) /\ Stored(w)
  <2>1. PICK p, k, e, b, n : /\ p = pending[w] /\ k = saved[w] /\ e = pending[w][saved[w] + 1]
                             /\ b = Base(w) /\ n = Len(log)
    OBVIOUS
  <2>2. /\ e \in Event /\ Follows(e, Replay(n)) /\ b \in 0..n /\ b + k = n /\ Stands(w, b)
        /\ When(Replay(n), e) = Apply(Replay(b), SubSeq(p, 1, k + 1))
    BY <1>1, <1>3, <2>1, NextEvent
  <2>3. /\ p \in Seq(Event) /\ Len(p) \in Nat /\ k \in Nat /\ n \in Nat /\ k < Len(p)
        /\ b = version[w] - Len(p) /\ version[w] \in Nat /\ Len(p) <= version[w] /\ seen[w] \in Nat
    BY <1>1, <2>1, OneWriter DEF WriterOK, Counted, Base
  <2>4. log' = Append(log, e)
    BY <1>3, <2>1
  <2>5. /\ TablesOK' /\ TablesGrow /\ SnapshotsOK' /\ BalancesOK'
        /\ Len(log') = n + 1
        /\ \A m \in 0..n : Replay(m)' = Replay(m)
        /\ Replay(n + 1)' = When(Replay(n), e)
    BY <1>1, <2>1, <2>2, <2>4, TableGrows
  <2>6. CASE k + 1 < Len(p)
    <3>1. /\ pc' = [pc EXCEPT ![w] = "append"] /\ saved' = [saved EXCEPT ![w] = k + 1]
          /\ pending' = pending
      BY <1>3, <2>1, <2>6 DEF Stored, Goto, IInv, MemoryOK
    <3>2. MemoryOK'
      BY <1>1, <2>3, <3>1 DEF IInv, MemoryOK, PcStates
    <3>3. pc'[w] = "append" /\ saved'[w] = k + 1 /\ pending'[w] = p
      BY <2>1, <3>1 DEF IInv, MemoryOK
    <3>4. Base(w)' = b
      BY <1>1, <2>1, <3>1 DEF Base
    <3>5. Counted(w)' /\ Loading(w)'
      BY <1>1, <1>3, <2>1, <2>3, <2>5, <2>6, <3>3 DEF Counted, Loading
    <3>6. Loaded(w)'
      <4>1. Stands(w, b)'
        BY <1>1, <2>2, <2>3, <2>5, <3>1 DEF Stands
      <4> QED BY <3>4, <4>1 DEF Loaded, Stands
    <3>7. StoredSoFar(w)'
      <4>1. b + (k + 1) = n + 1 /\ b \in 0..n
        <5>1. b \in Int /\ k \in Int /\ b + k = n /\ b \in 0..n
          BY <2>2, <2>3
        <5> QED BY ONLY <5>1
      <4>2. Replay(b + (k + 1))' = Apply(Replay(b)', SubSeq(p, 1, k + 1))
        BY <2>2, <2>5, <4>1
      <4>3. b + (k + 1) <= Len(log')
        BY <2>3, <2>5, <4>1
      <4> QED BY <3>3, <3>4, <4>2, <4>3 DEF StoredSoFar
    <3>8. OthersStay(w)
      BY <1>1, <3>1 DEF IInv, MemoryOK, OthersStay
    <3> QED BY <2>5, <3>2, <3>5, <3>6, <3>7, <3>8, StepOf DEF WriterOK
  <2>7. CASE k + 1 = Len(p)
    <3>1. PICK label : label = IF version[w] % SnapshotEvery = 0 THEN "snapshot" ELSE "ready"
      OBVIOUS
    <3>2. /\ pc' = [pc EXCEPT ![w] = label] /\ saved' = [saved EXCEPT ![w] = 0]
          /\ pending' = [pending EXCEPT ![w] = <<>>]
      BY <1>3, <2>1, <2>3, <2>7, <3>1 DEF Stored, Goto
    <3>3. label \in {"snapshot", "ready"}
      BY <3>1
    <3>4. MemoryOK'
      BY <1>1, <3>2, <3>3 DEF IInv, MemoryOK, PcStates
    <3>5. pc'[w] = label /\ saved'[w] = 0 /\ pending'[w] = <<>>
      BY <3>2 DEF IInv, MemoryOK
    <3>6. version[w] = n + 1 /\ Base(w)' = n + 1
      BY <1>1, <2>2, <2>3, <2>7, <3>5 DEF Base
    <3>7. Counted(w)' /\ Loading(w)' /\ StoredSoFar(w)'
      BY <1>1, <1>3, <2>1, <2>3, <2>5, <3>3, <3>5, <3>6 DEF Counted, Loading, StoredSoFar
    <3>8. Loaded(w)'
      <4>1. SubSeq(p, 1, k + 1) = p
        BY <2>3, <2>7, PartsAtTheEnds
      <4>2. state[w] = Replay(n + 1)'
        BY <2>1, <2>2, <2>5, <4>1 DEF Stands
      <4>3. Replay(n + 1)' \in State
        BY <4>2, OneWriter
      <4>4. Apply(Replay(n + 1)', <<>>) = Replay(n + 1)'
        BY <4>3, ApplyNone
      <4>5. n + 1 \in 0..Len(log')
        BY <2>3, <2>5
      <4>6. Stands(w, n + 1)'
        BY <1>1, <3>5, <4>2, <4>4, <4>5 DEF Stands
      <4> QED BY <3>6, <4>6 DEF Loaded, Stands
    <3>9. OthersStay(w)
      BY <1>1, <3>2 DEF IInv, MemoryOK, OthersStay
    <3> QED BY <2>5, <3>4, <3>7, <3>8, <3>9, StepOf DEF WriterOK
  <2> QED BY <2>3, <2>6, <2>7
<1> QED BY <1>2, <1>3 DEF Insert

\* The invariant is inductive.
LEMMA InvariantKept == IInv /\ [Next]_vars => IInv'
<1> SUFFICES ASSUME IInv, [Next]_vars PROVE IInv'
  OBVIOUS
<1>1. CASE Next
  <2>1. PICK w \in Writer : Step(w)
    BY <1>1 DEF Next
  <2>2. CASE LoadSnapshot(w)
    BY <2>2, LoadSnapshotOK
  <2>3. CASE LoadEvents(w)
    BY <2>3, LoadEventsOK
  <2>4. CASE Command(w)
    BY <2>4, CommandOK
  <2>5. CASE Save(w)
    BY <2>5, SaveOK
  <2>6. CASE ReadVersion(w)
    BY <2>6, ReadVersionOK
  <2>7. CASE Insert(w)
    BY <2>7, InsertOK
  <2>8. CASE SaveSnapshot(w)
    BY <2>8, SaveSnapshotOK
  <2>9. CASE StatementFails(w)
    BY <2>9, StatementFailsOK
  <2>10. CASE Forget(w) \/ Crash(w)
    BY <2>10, LeavesOK
  <2> QED BY <2>1, <2>2, <2>3, <2>4, <2>5, <2>6, <2>7, <2>8, <2>9, <2>10 DEF Step
<1>2. CASE UNCHANGED vars
  BY <1>2 DEF vars, tables, aggregate, save, IInv, MemoryOK, TablesOK, WriterOK, Counted,
              Expected, Loading, Loaded, Stands, Base, StoredSoFar, SnapshotsOK, BalancesOK,
              HistoryBalance, Replay
<1> QED BY <1>1, <1>2

\* The invariant holds in every state.
LEMMA Invariant == Spec => []IInv
BY InitOK, InvariantKept, PTL DEF Spec

-----------------------------------------------------------------------------
(* The properties *)

\* Every variable stays in its range, the version of an aggregate covers its
\* uncommitted events, and a writer about to insert expects what it has read.
THEOREM TypeCorrect == Spec => []TypeOK
<1>1. IInv => TypeOK
  BY DEF IInv, MemoryOK, TablesOK, WriterOK, Counted, TypeOK
<1> QED BY <1>1, Invariant, PTL

\* No lost update: however many writers race, fail half-way and retry, the
\* event store grows one event at a time, and the command behind each event
\* would have been accepted on the state after all the events before it.
THEOREM EachEventFollows == Spec => EventsFollow
<1> DEFINE Good == LET e == log'[Len(log')]
                   IN  log' = Append(log, e) /\ Follows(e, Replay(Len(log)))
<1>1. ASSUME IInv, Next, log' # log PROVE Good
  <2>1. PICK w \in Writer : Step(w)
    BY <1>1 DEF Next
  <2>2. Insert(w)
    BY <1>1, <2>1 DEF Step, LoadSnapshot, LoadEvents, Command, Deposit, Withdraw, Freeze, Unfreeze,
                      Raise, Save, ReadVersion, SaveSnapshot, StatementFails, Forget, Crash, tables
  <2>3. pc[w] = "insert" /\ seen[w] = Len(log) /\ log' = Append(log, pending[w][saved[w] + 1])
    BY <1>1, <2>2 DEF Insert
  <2>4. PICK e : e = pending[w][saved[w] + 1]
    OBVIOUS
  <2>5. e \in Event /\ Follows(e, Replay(Len(log)))
    BY <1>1, <2>3, <2>4, NextEvent
  <2>6. log' = Append(log, e) /\ log'[Len(log')] = e
    BY <1>1, <2>3, <2>4, <2>5, OneWriter, AppendProperties
  <2> QED BY <2>5, <2>6
<1>2. IInv /\ [Next]_vars => [log' # log => Good]_vars
  <2> HIDE DEF Good
  <2> QED BY <1>1
<1> QED BY <1>2, Invariant, PTL DEF Spec, EventsFollow

\* Every snapshot holds the state after the events up to its version, and the
\* balance that getHistory adds up is the balance of the account at every
\* version.
THEOREM DerivedTrue == Spec => []DerivedAgrees
<1>1. IInv => DerivedAgrees
  BY DEF IInv, SnapshotsOK, BalancesOK, DerivedAgrees
<1> QED BY <1>1, Invariant, PTL

\* Whatever a writer holds in memory is a replay of the first events with its
\* own on top, and its version says how many, unless it was loaded from a
\* snapshot that nothing follows.
THEOREM LoadedTrue == Spec => []LoadedIsReplay
<1>1. ASSUME IInv PROVE LoadedIsReplay
  <2> SUFFICES ASSUME NEW w \in Writer, pc[w] \notin {"away", "events"}
               PROVE  \E n \in 0..Len(log) :
                        /\ state[w] = Apply(Replay(n), pending[w])
                        /\ \/ version[w] = n + Len(pending[w])
                           \/ /\ version[w] = Len(pending[w])
                              /\ \E s \in snapshots : s.version = n
    BY DEF LoadedIsReplay
  <2>1. CASE Stands(w, Base(w))
    <3>1. version[w] = Base(w) + Len(pending[w])
      BY <1>1, OneWriter DEF Base
    <3> QED BY <2>1, <3>1 DEF Stands
  <2>2. CASE Base(w) = 0 /\ \E s \in snapshots : Stands(w, s.version)
    <3>1. PICK s \in snapshots : Stands(w, s.version)
      BY <2>2
    <3>2. version[w] = Len(pending[w])
      BY <1>1, <2>2, OneWriter DEF Base
    <3> QED BY <3>1, <3>2 DEF Stands
  <2> QED BY <1>1, <2>1, <2>2, OneWriter DEF WriterOK, Loaded
<1> QED BY <1>1, Invariant, PTL
=============================================================================
