---------------------------- MODULE LedgerProofs ----------------------------
(***************************************************************************)
(* Proofs about CustomerLedger for any number of accounts, transactions,   *)
(* partitions, copies and faults.  The inductive invariant says what the   *)
(* open transaction of the handler has done to the committed balances.     *)
(***************************************************************************)
EXTENDS CustomerLedger, SequenceTheorems, FiniteSetTheorems, TLAPS

\* The event in the handler is on the topic and was not processed before.
HandlingOK ==
  current # NoPartition =>
    /\ current \in Partition
    /\ HasNext(current)
    /\ Handled \notin processed

\* The rows the transaction inserts tell how it changes each account.
PostedOK ==
  \A a \in Account :
    \/ posted[a] = <<>> /\ work[a] = balance[a]
    \/ /\ Len(posted[a]) = 1
       /\ posted[a][1].previous.cents = balance[a]
       /\ posted[a][1].new = work[a]

\* Before the commit the transaction has made the whole step or passed over
\* an uncovered withdrawal; before the credit it has made the debit, if any.
WorkOK ==
  /\ stage \in {"idle", "debit"} => work = balance /\ posted = Nothing
  /\ stage = "debit" => Asked.type # "deposit"
  /\ stage = "credit" =>
       /\ Asked.type # "withdrawal"
       /\ posted[Asked.target] = <<>>
       /\ Settled!Covered(Asked)
       /\ work = [a \in Account |->
                    IF Asked.type = "transfer" /\ a = Asked.source
                    THEN balance[a] - Asked.amount ELSE balance[a]]
  /\ stage = "commit" =>
       \/ Settled!Covered(Asked) /\ work = Settled!After(Asked)
       \/ Asked.type = "withdrawal" /\ ~Settled!Covered(Asked) /\ work = balance

IInv == TypeOK /\ HandlingOK /\ PostedOK /\ WorkOK /\ UpdatesChain

-----------------------------------------------------------------------------
(* The event in the handler *)

\* What the handler reads from its event has the shape of an order.
LEMMA HandledIsAnEvent ==
  ASSUME TypeOK, HandlingOK, current # NoPartition
  PROVE  /\ Handled \in Event
         /\ Asked = order[Handled[1]]
         /\ Asked \in Order
         /\ Asked.type \in Types
         /\ Asked.source \in Account
         /\ Asked.target \in Account
         /\ Asked.amount \in Nat \ {0}
         /\ Asked.type = "transfer" => Asked.source # Asked.target
<1>1. position[current] + 1 \in 1..Len(log[current]) /\ log[current] \in Seq(Event)
  BY DEF TypeOK, HandlingOK, HasNext
<1>2. Handled \in Event
  BY <1>1 DEF Handled, NextEvent
<1>3. Asked = order[Handled[1]]
  BY DEF Asked, Handled, Terms
<1>4. Handled[1] \in Txn
  BY <1>2 DEF Event
<1>5. Asked \in Order
  BY <1>3, <1>4 DEF TypeOK
<1>6. Asked \in Orders
  BY <1>5, LedgerAssumption
<1> QED BY <1>2, <1>3, <1>5, <1>6, LedgerAssumption DEF Orders

\* The same holds of any next event of a partition.
LEMMA NextIsAnEvent ==
  ASSUME TypeOK, NEW p \in Partition, HasNext(p)
  PROVE  /\ NextEvent(p) \in Event
         /\ Terms(p).type \in Types
         /\ Terms(p).target \in Account
<1>1. position[p] + 1 \in 1..Len(log[p]) /\ log[p] \in Seq(Event)
  BY DEF TypeOK, HasNext
<1>2. NextEvent(p) \in Event
  BY <1>1 DEF NextEvent
<1>3. NextEvent(p)[1] \in Txn
  BY <1>2 DEF Event
<1>4. Terms(p) \in Orders
  BY <1>3, LedgerAssumption DEF Terms, TypeOK
<1> QED BY <1>2, <1>4 DEF Orders

\* With no transaction open there is nothing to say about it.
LEMMA InvariantAtRest ==
  ASSUME current' = NoPartition, stage' = "idle", work' = balance', posted' = Nothing
  PROVE  HandlingOK' /\ PostedOK' /\ WorkOK'
<1>1. \A a \in Account : posted'[a] = <<>> /\ work'[a] = balance'[a]
  BY DEF Nothing
<1> QED BY <1>1 DEF HandlingOK, PostedOK, WorkOK, Nothing

\* An UPDATE of an account the transaction has not touched posts its row.
LEMMA UpdatePosts ==
  ASSUME TypeOK, PostedOK, HandlingOK, current # NoPartition,
         NEW x \in Account, NEW new \in Nat, NEW previous \in [cents : Nat, exact : BOOLEAN],
         posted[x] = <<>>, previous.cents = work[x],
         Update(x, new, previous), UNCHANGED balance
  PROVE  /\ work' \in [Account -> Nat]
         /\ posted' \in [Account -> Seq(Row)]
         /\ PostedOK'
<1> DEFINE row == [previous |-> previous, new |-> new, of |-> Handled]
<1>1. row \in Row
  BY HandledIsAnEvent DEF Row
<1>2. /\ <<row>> \in Seq(Row)
      /\ Len(<<row>>) = 1
      /\ <<row>>[1].previous = previous
      /\ <<row>>[1].new = new
  BY <1>1
<1> HIDE DEF row
<1>3. posted' = [posted EXCEPT ![x] = <<row>>] /\ work' = [work EXCEPT ![x] = new]
  BY DEF Update, row
<1>4. work' \in [Account -> Nat] /\ posted' \in [Account -> Seq(Row)]
  BY <1>2, <1>3 DEF TypeOK
<1>5. ASSUME NEW y \in Account
      PROVE  \/ posted'[y] = <<>> /\ work'[y] = balance'[y]
             \/ /\ Len(posted'[y]) = 1
                /\ posted'[y][1].previous.cents = balance'[y]
                /\ posted'[y][1].new = work'[y]
  <2>0. posted \in [Account -> Seq(Row)] /\ work \in [Account -> Nat]
    BY DEF TypeOK
  <2>1. CASE y = x
    <3>1. posted'[y] = <<row>> /\ work'[y] = new
      BY <1>3, <2>0, <2>1
    <3>2. balance[x] = previous.cents
      BY <1>2 DEF PostedOK
    <3> QED BY <1>2, <2>1, <3>1, <3>2
  <2>2. CASE y # x
    BY <1>3, <2>0, <2>2 DEF PostedOK
  <2> QED BY <2>1, <2>2
<1> QED BY <1>4, <1>5 DEF PostedOK

-----------------------------------------------------------------------------
(* The commit *)

\* Appending a sequence of one row.
LEMMA ConcatOne ==
  ASSUME NEW S, NEW s \in Seq(S), NEW t \in Seq(S), Len(t) = 1
  PROVE  /\ s \o t \in Seq(S)
         /\ Len(s \o t) = Len(s) + 1
         /\ \A i \in 1..Len(s) : (s \o t)[i] = s[i]
         /\ (s \o t)[Len(s) + 1] = t[1]
<1> DEFINE w == s \o t
<1>1. Len(s) \in Nat
  BY LenProperties
<1>2. /\ w \in Seq(S)
      /\ Len(w) = Len(s) + Len(t)
      /\ \A i \in 1..(Len(s) + Len(t)) :
           w[i] = IF i <= Len(s) THEN s[i] ELSE t[i - Len(s)]
  BY ConcatProperties, Zenon
<1> HIDE DEF w
<1>3. (Len(s) + 1) - Len(s) = 1 /\ ~(Len(s) + 1 <= Len(s))
  BY <1>1
<1>4. \A i \in 1..Len(s) : w[i] = s[i]
  BY <1>1, <1>2
<1>5. w[Len(s) + 1] = t[1]
  <2>1. Len(s) + 1 \in 1..(Len(s) + Len(t))
    BY <1>1
  <2>2. w[Len(s) + 1] = t[(Len(s) + 1) - Len(s)]
    BY <1>2, <1>3, <2>1
  <2> QED BY <1>3, <2>2
<1> QED BY <1>2, <1>4, <1>5 DEF w

\* The rows of the transaction continue the chain of every account.
LEMMA DurableExtendsTheChain ==
  ASSUME TypeOK, PostedOK, UpdatesChain, Durable, UNCHANGED opening
  PROVE  UpdatesChain' /\ updates' \in [Account -> Seq(Row)]
<1>1. ASSUME NEW a \in Account
      PROVE  /\ updates'[a] \in Seq(Row)
             /\ IF updates'[a] = <<>> THEN balance'[a] = opening'[a]
                ELSE /\ updates'[a][1].previous.cents = opening'[a]
                     /\ updates'[a][Len(updates'[a])].new = balance'[a]
                     /\ \A i \in 1..(Len(updates'[a]) - 1) :
                          updates'[a][i].new = updates'[a][i + 1].previous.cents
  <2>1. /\ updates[a] \in Seq(Row)
        /\ posted[a] \in Seq(Row)
        /\ updates'[a] = updates[a] \o posted[a]
        /\ balance'[a] = work[a]
        /\ opening'[a] = opening[a]
    BY DEF TypeOK, Durable
  <2> DEFINE u == updates[a]
             v == posted[a]
             w == updates'[a]
  <2>2. IF u = <<>> THEN balance[a] = opening[a]
        ELSE /\ u[1].previous.cents = opening[a]
             /\ u[Len(u)].new = balance[a]
             /\ \A i \in 1..(Len(u) - 1) : u[i].new = u[i + 1].previous.cents
    BY DEF UpdatesChain
  <2>3. CASE v = <<>> /\ work[a] = balance[a]
    <3>1. w = u
      BY <2>1, <2>3
    <3> QED BY <2>1, <2>2, <2>3, <3>1
  <2>4. CASE /\ Len(v) = 1
             /\ v[1].previous.cents = balance[a]
             /\ v[1].new = work[a]
    <3> HIDE DEF u, v, w
    <3>0. u \in Seq(Row) /\ v \in Seq(Row) /\ w = u \o v
      BY <2>1 DEF u, v, w
    <3>1. /\ w \in Seq(Row)
          /\ Len(w) = Len(u) + 1
          /\ \A i \in 1..Len(u) : w[i] = u[i]
          /\ w[Len(u) + 1] = v[1]
      BY <2>4, <3>0, ConcatOne DEF Row
    <3>2. w # <<>> /\ Len(u) \in Nat
      BY <3>0, <3>1
    <3>3. w[Len(w)].new = work[a]
      BY <2>4, <3>1
    <3>4. CASE u = <<>>
      <4>1. Len(u) = 0
        BY <3>0, <3>4
      <4>2. w[1].previous.cents = opening[a]
        BY <2>2, <2>4, <3>1, <3>4, <4>1
      <4>3. Len(w) = 1
        BY <3>1, <4>1
      <4>4. \A i \in 1..(Len(w) - 1) : FALSE
        BY <4>3
      <4> QED BY <2>1, <3>1, <3>2, <3>3, <4>2, <4>4 DEF w
    <3>5. CASE u # <<>>
      <4>1. Len(u) \in Nat \ {0}
        BY <3>0, <3>5
      <4>2. w[1].previous.cents = opening[a]
        BY <2>2, <3>1, <3>5, <4>1
      <4>3. ASSUME NEW i \in 1..(Len(w) - 1)
            PROVE  w[i].new = w[i + 1].previous.cents
        <5>1. CASE i = Len(u)
          BY <2>2, <2>4, <3>1, <3>5, <4>1, <5>1
        <5>2. CASE i < Len(u)
          <6>1. i \in 1..(Len(u) - 1) /\ i + 1 \in 1..Len(u)
            BY <4>1, <5>2
          <6> QED BY <2>2, <3>1, <3>5, <6>1
        <5> QED BY <3>1, <4>1, <5>1, <5>2
      <4> QED BY <2>1, <3>1, <3>2, <3>3, <4>2, <4>3 DEF w
    <3> QED BY <3>4, <3>5
  <2> QED BY <2>3, <2>4 DEF PostedOK
<1>2. updates' = [a \in Account |-> updates'[a]]
  BY DEF Durable
<1> QED BY <1>1, <1>2 DEF UpdatesChain

\* The commit is one step of the settlement.
LEMMA DurableSettles ==
  ASSUME TypeOK, HandlingOK, WorkOK, current # NoPartition, stage = "commit",
         Durable, UNCHANGED order
  PROVE  Settled!Next
<1>1. /\ Handled \in Event \ processed
      /\ [e \in Event |-> order[e[1]]][Handled] = Asked
  BY HandledIsAnEvent DEF HandlingOK
<1>2. balance' = work /\ processed' = processed \cup {Handled}
  BY DEF Durable
<1>3. \/ Settled!Covered(Asked) /\ balance' = Settled!After(Asked)
      \/ /\ Asked.type = "withdrawal"
         /\ ~Settled!Covered(Asked)
         /\ UNCHANGED balance
  BY <1>2 DEF WorkOK
<1>4. Settled!Settle(Handled) \/ Settled!PassOver(Handled)
  BY <1>1, <1>3 DEF Settled!Settle, Settled!PassOver
<1> QED BY <1>1, <1>2, <1>4 DEF Settled!Next

-----------------------------------------------------------------------------
(* The inductive invariant *)

\* It holds at the start.
LEMMA InitInvariant == Init => IInv
<1> SUFFICES ASSUME Init PROVE IInv
  OBVIOUS
<1>1. balance \in [Account -> Nat]
  BY LedgerAssumption DEF Init
<1>2. TypeOK
  <2>1. \A p \in Partition : offset[p] <= position[p] /\ position[p] <= Len(log[p])
    BY DEF Init
  <2>2. current = NoPartition /\ stage = "idle" /\ faults \in 0..MaxFaults
    BY LedgerAssumption DEF Init
  <2>3. updates \in [Account -> Seq(Row)] /\ posted \in [Account -> Seq(Row)]
    BY DEF Init, Nothing
  <2>4. log \in [Partition -> Seq(Event)]
    BY DEF Init
  <2> QED BY <1>1, <2>1, <2>2, <2>3, <2>4 DEF Init, TypeOK, Stages
<1>3. \A a \in Account : posted[a] = <<>> /\ work[a] = balance[a]
  BY DEF Init, Nothing
<1>4. HandlingOK /\ PostedOK /\ WorkOK
  BY <1>3 DEF Init, HandlingOK, PostedOK, WorkOK
<1>5. UpdatesChain
  BY DEF Init, UpdatesChain
<1> QED BY <1>2, <1>4, <1>5 DEF IInv

\* A published event is not the one in the handler, which stays where it is.
LEMMA AnnounceKeepsEvent ==
  ASSUME TypeOK, HandlingOK, NEW e \in Event, NEW p \in Partition, Announce(e, p),
         current # NoPartition
  PROVE  HasNext(current)' /\ Handled' = Handled /\ Asked' = Asked
<1>1. log' = [log EXCEPT ![p] = Append(@, e)] /\ log \in [Partition -> Seq(Event)]
  BY DEF Announce, TypeOK
<1>2. \A q \in Partition :
        /\ log'[q] \in Seq(Event)
        /\ Len(log[q]) <= Len(log'[q])
        /\ \A i \in 1..Len(log[q]) : log'[q][i] = log[q][i]
  BY <1>1
<1>3. UNCHANGED <<order, position, current>>
  BY DEF Announce, consumer, handler
<1>4. /\ current \in Partition
      /\ position[current] < Len(log[current])
      /\ position[current] \in Nat
      /\ log[current] \in Seq(Event)
  BY <1>1 DEF TypeOK, HandlingOK, HasNext
<1>5. position[current] + 1 \in 1..Len(log[current])
  BY <1>4
<1>6. Len(log[current]) \in Nat /\ Len(log'[current]) \in Nat
  BY <1>2, <1>4
<1>7. HasNext(current)'
  BY <1>2, <1>3, <1>4, <1>6 DEF HasNext
<1>8. Handled' = Handled
  BY <1>2, <1>3, <1>4, <1>5 DEF Handled, NextEvent
<1>9. Asked' = Asked
  BY <1>3, <1>8 DEF Asked, Terms, Handled
<1> QED BY <1>7, <1>8, <1>9

\* A published event changes nothing for the one in the handler.
LEMMA AnnounceKeepsInvariant ==
  ASSUME IInv, NEW e \in Event, NEW p \in Partition, Announce(e, p)
  PROVE  IInv'
<1>1. log' = [log EXCEPT ![p] = Append(@, e)] /\ log \in [Partition -> Seq(Event)]
  BY DEF Announce, IInv, TypeOK
<1>2. \A q \in Partition :
        /\ log'[q] \in Seq(Event)
        /\ Len(log[q]) <= Len(log'[q])
        /\ \A i \in 1..Len(log[q]) : log'[q][i] = log[q][i]
  BY <1>1
<1>3. log' \in [Partition -> Seq(Event)]
  BY <1>1
<1>4. UNCHANGED <<order, position, offset, opening, balance, updates, processed,
                  current, stage, work, posted, faults>>
  BY DEF Announce, consumer, database, handler
<1>5. \A q \in Partition : offset'[q] <= position'[q] /\ position'[q] <= Len(log'[q])
  <2> TAKE q \in Partition
  <2>1. Len(log[q]) \in Nat /\ Len(log'[q]) \in Nat
    BY <1>2, <1>1
  <2> QED BY <1>2, <1>4, <2>1 DEF IInv, TypeOK
<1>6. TypeOK'
  BY <1>3, <1>4, <1>5 DEF IInv, TypeOK
<1>7. current # NoPartition =>
        /\ current \in Partition
        /\ HasNext(current)'
        /\ Handled' = Handled
        /\ Asked' = Asked
  BY AnnounceKeepsEvent DEF IInv, HandlingOK
<1>8. HandlingOK' /\ PostedOK' /\ UpdatesChain'
  BY <1>4, <1>7 DEF IInv, HandlingOK, PostedOK, UpdatesChain
<1>9. WorkOK'
  <2>1. stage # "idle" => Asked' = Asked
    BY <1>7 DEF IInv, TypeOK
  <2> QED BY <1>4, <2>1 DEF IInv, WorkOK, Settled!Covered, Settled!After, Nothing
<1> QED BY <1>6, <1>8, <1>9 DEF IInv

\* A handler that ends without touching the tables leaves the invariant.
LEMMA RestKeepsInvariant ==
  ASSUME IInv, Rest, UNCHANGED <<topic, offset, opening, database>>,
         position' \in [Partition -> Nat],
         \A p \in Partition : offset[p] <= position'[p] /\ position'[p] <= Len(log[p]),
         faults' \in 0..MaxFaults
  PROVE  IInv'
<1>1. UNCHANGED <<order, log, offset, opening, balance, updates, processed>>
  BY DEF topic, database
<1>2. /\ current' = NoPartition
      /\ stage' = "idle"
      /\ work' = balance'
      /\ posted' = Nothing
  BY DEF Rest
<1>3. posted' \in [Account -> Seq(Row)]
  BY <1>2 DEF Nothing
<1>4. TypeOK'
  BY <1>1, <1>2, <1>3 DEF IInv, TypeOK, Stages
<1>5. UpdatesChain'
  BY <1>1 DEF IInv, UpdatesChain
<1> QED BY <1>2, <1>4, <1>5, InvariantAtRest DEF IInv

\* So does one that commits, whether or not it advances in the partition.
LEMMA DurableKeepsInvariant ==
  ASSUME IInv, current # NoPartition, Durable, Rest,
         UNCHANGED <<topic, offset, opening>>,
         position' \in [Partition -> Nat],
         \A p \in Partition : offset[p] <= position'[p] /\ position'[p] <= Len(log[p]),
         faults' \in 0..MaxFaults
  PROVE  IInv'
<1>1. UNCHANGED <<order, log, offset, opening>>
  BY DEF topic
<1>2. /\ current' = NoPartition
      /\ stage' = "idle"
      /\ work' = balance'
      /\ posted' = Nothing
  BY DEF Rest
<1>3. UpdatesChain' /\ updates' \in [Account -> Seq(Row)]
  BY DurableExtendsTheChain DEF IInv
<1>4. balance' \in [Account -> Nat] /\ processed' \subseteq Event
  BY HandledIsAnEvent DEF IInv, TypeOK, Durable
<1>5. posted' \in [Account -> Seq(Row)]
  BY <1>2 DEF Nothing
<1>6. TypeOK'
  BY <1>1, <1>2, <1>3, <1>4, <1>5 DEF IInv, TypeOK, Stages
<1> QED BY <1>2, <1>3, <1>6, InvariantAtRest DEF IInv

\* The handler is done with the next event of partition p.
LEMMA AdvanceStaysInLog ==
  ASSUME TypeOK, NEW p \in Partition, HasNext(p), Advance(p)
  PROVE  /\ position' \in [Partition -> Nat]
         /\ \A q \in Partition : offset[q] <= position'[q] /\ position'[q] <= Len(log[q])
<1>1. position \in [Partition -> Nat] /\ offset \in [Partition -> Nat]
  BY DEF TypeOK
<1>2. position' = [position EXCEPT ![p] = position[p] + 1]
  BY DEF Advance
<1>3. \A q \in Partition : Len(log[q]) \in Nat
  BY DEF TypeOK
<1>4. position[p] < Len(log[p])
  BY DEF HasNext
<1> QED BY <1>1, <1>2, <1>3, <1>4 DEF TypeOK

\* The handler starts on an event: nothing is done yet.
LEMMA BeginKeepsInvariant ==
  ASSUME IInv, NEW p \in Partition, BeginUpdate(p)
  PROVE  IInv'
<1>1. /\ current = NoPartition /\ HasNext(p) /\ ~IsProcessed(NextEvent(p))
      /\ current' = p
      /\ stage' = IF Terms(p).type = "deposit" THEN "credit" ELSE "debit"
      /\ UNCHANGED <<order, log, position, offset, opening, balance, updates,
                     processed, work, posted, faults>>
  BY DEF BeginUpdate, topic, consumer, database
<1>2. work = balance /\ posted = Nothing
  BY <1>1 DEF IInv, TypeOK, WorkOK
<1>3. Handled' = NextEvent(p) /\ Asked' = Terms(p)
  BY <1>1 DEF Handled, Asked, NextEvent, Terms
<1>4. Terms(p).type \in Types /\ NextEvent(p) \in Event
  BY <1>1, NextIsAnEvent DEF IInv
<1>5. TypeOK'
  <2>1. current' # NoPartition /\ stage' # "idle" /\ stage' \in Stages
    BY <1>1, LedgerAssumption DEF Stages
  <2> QED BY <1>1, <2>1 DEF IInv, TypeOK
<1>6. HandlingOK'
  BY <1>1, <1>3 DEF HandlingOK, HasNext, IsProcessed
<1>7. PostedOK' /\ UpdatesChain'
  BY <1>1 DEF IInv, PostedOK, UpdatesChain
<1>8. WorkOK'
  <2>1. CASE Terms(p).type = "deposit"
    <3>1. /\ Asked'.type = "deposit"
          /\ stage' = "credit"
          /\ posted' = Nothing
          /\ work' = balance'
      BY <1>1, <1>2, <1>3, <2>1
    <3>2. Terms(p).target \in Account
      BY <1>1, NextIsAnEvent DEF IInv
    <3>3. posted'[Asked'.target] = <<>>
      BY <1>3, <3>1, <3>2 DEF Nothing
    <3>4. work' = [a \in Account |->
                    IF Asked'.type = "transfer" /\ a = Asked'.source
                    THEN balance'[a] - Asked'.amount ELSE balance'[a]]
      BY <3>1, <1>1 DEF IInv, TypeOK
    <3>5. Settled!Covered(Asked)'
      BY <3>1 DEF Settled!Covered, Settled!Debits
    <3> QED BY <3>1, <3>3, <3>4, <3>5 DEF WorkOK
  <2>2. CASE Terms(p).type # "deposit"
    BY <1>1, <1>2, <1>3, <2>2 DEF WorkOK, Nothing
  <2> QED BY <2>1, <2>2
<1> QED BY <1>5, <1>6, <1>7, <1>8 DEF IInv

\* The steps inside the transaction keep the committed state.
LEMMA TransactionKeepsTables ==
  ASSUME IInv, current # NoPartition,
         stage' \in Stages \ {"idle"}, PostedOK', WorkOK',
         work' \in [Account -> Nat], posted' \in [Account -> Seq(Row)],
         UNCHANGED <<topic, consumer, opening, database, current, faults>>
  PROVE  IInv'
<1>1. UNCHANGED <<order, log, position, offset, opening, balance, updates,
                  processed, current, faults>>
  BY DEF topic, consumer, database
<1>2. TypeOK'
  BY <1>1 DEF IInv, TypeOK
<1>3. HandlingOK' /\ UpdatesChain'
  BY <1>1 DEF IInv, HandlingOK, UpdatesChain, Handled, NextEvent, HasNext
<1> QED BY <1>2, <1>3 DEF IInv

\* The debit is the whole step of a withdrawal and the first half of a
\* transfer.
LEMMA DebitKeepsInvariant ==
  ASSUME IInv, Debit
  PROVE  IInv'
<1> DEFINE s == Asked.source
           new == work[s] - Asked.amount
<1>1. /\ stage = "debit"
      /\ Covers
      /\ Update(s, new, Reported(new, new + Asked.amount))
      /\ stage' = IF Asked.type = "transfer" THEN "credit" ELSE "commit"
      /\ UNCHANGED <<order, log, position, offset, opening, balance, updates,
                     processed, current, faults>>
  BY DEF Debit, topic, consumer, database
<1>2. current # NoPartition
  BY <1>1 DEF IInv, TypeOK
<1>3. /\ s \in Account /\ Asked.target \in Account
      /\ Asked.amount \in Nat \ {0}
      /\ Asked.type \in {"withdrawal", "transfer"}
      /\ Asked.type = "transfer" => s # Asked.target
  BY <1>1, <1>2, HandledIsAnEvent DEF IInv, WorkOK, Types
<1>4. work = balance /\ posted = Nothing /\ balance \in [Account -> Nat]
  BY <1>1 DEF IInv, WorkOK, TypeOK
<1>5. work[s] \in Nat /\ work[s] >= Asked.amount
  BY <1>1, <1>3, <1>4 DEF Covers
<1>6. /\ new \in Nat
      /\ Reported(new, new + Asked.amount) \in [cents : Nat, exact : BOOLEAN]
      /\ Reported(new, new + Asked.amount).cents = work[s]
  BY <1>3, <1>5 DEF Reported
<1>7. posted[s] = <<>>
  BY <1>3, <1>4 DEF Nothing
<1>8. Asked' = Asked /\ Settled!Covered(Asked)' = Settled!Covered(Asked)
  BY <1>1 DEF Asked, Terms, NextEvent, Settled!Covered
<1>9. Settled!Covered(Asked)
  BY <1>4, <1>5 DEF Settled!Covered
<1>10. /\ work' = [work EXCEPT ![s] = new]
       /\ posted' = [posted EXCEPT ![s] =
            << [previous |-> Reported(new, new + Asked.amount), new |-> new, of |-> Handled] >>]
  BY <1>1 DEF Update
<1> HIDE DEF new
<1>11. PostedOK' /\ work' \in [Account -> Nat] /\ posted' \in [Account -> Seq(Row)]
  BY <1>1, <1>2, <1>3, <1>6, <1>7, UpdatePosts DEF IInv
<1> HIDE DEF s
<1>12. CASE Asked.type = "transfer"
  <2>1. posted'[Asked.target] = <<>>
    BY <1>3, <1>4, <1>10, <1>12 DEF Nothing
  <2>2. work' = [a \in Account |->
                  IF Asked.type = "transfer" /\ a = Asked.source
                  THEN balance[a] - Asked.amount ELSE balance[a]]
    BY <1>3, <1>4, <1>10, <1>12 DEF new, s
  <2>3. WorkOK'
    BY <1>1, <1>8, <1>9, <1>12, <2>1, <2>2 DEF WorkOK
  <2> QED BY <1>1, <1>2, <1>11, <1>12, <2>3, TransactionKeepsTables
          DEF topic, consumer, database, Stages
<1>13. CASE Asked.type = "withdrawal"
  <2>1. work' = Settled!After(Asked)
    BY <1>3, <1>4, <1>10, <1>13 DEF new, s, Settled!After, Settled!Debits, Settled!Credits
  <2>2. work' = Settled!After(Asked)'
    BY <1>1, <1>8, <2>1 DEF Settled!After
  <2>3. WorkOK'
    BY <1>1, <1>8, <1>9, <1>13, <2>2 DEF WorkOK
  <2> QED BY <1>1, <1>2, <1>11, <1>13, <2>3, TransactionKeepsTables
          DEF topic, consumer, database, Stages
<1> QED BY <1>3, <1>12, <1>13

\* An uncovered withdrawal commits without a change.
LEMMA DebitNothingKeepsInvariant ==
  ASSUME IInv, DebitNothing
  PROVE  IInv'
<1>1. /\ stage = "debit" /\ ~Covers /\ Asked.type = "withdrawal" /\ stage' = "commit"
      /\ UNCHANGED <<order, log, position, offset, opening, balance, updates,
                     processed, current, work, posted, faults>>
  BY DEF DebitNothing, topic, consumer, database
<1>2. current # NoPartition
  BY <1>1 DEF IInv, TypeOK
<1>3. work = balance
  BY <1>1 DEF IInv, WorkOK
<1>4. Asked' = Asked /\ Settled!Covered(Asked)' = Settled!Covered(Asked)
  BY <1>1 DEF Asked, Terms, NextEvent, Settled!Covered
<1>5. ~Settled!Covered(Asked)
  BY <1>1, <1>3 DEF Covers, Settled!Covered, Settled!Debits
<1>6. WorkOK'
  BY <1>1, <1>3, <1>4, <1>5 DEF WorkOK
<1>7. PostedOK' /\ work' \in [Account -> Nat] /\ posted' \in [Account -> Seq(Row)]
  BY <1>1 DEF IInv, TypeOK, PostedOK
<1> QED BY <1>1, <1>2, <1>6, <1>7, TransactionKeepsTables
        DEF topic, consumer, database, Stages

\* With the credit the transaction has made the whole step.
LEMMA CreditKeepsInvariant ==
  ASSUME IInv, Credit
  PROVE  IInv'
<1> DEFINE t == Asked.target
           new == work[t] + Asked.amount
<1>1. /\ stage = "credit"
      /\ Update(t, new, Reported(new, new - Asked.amount))
      /\ stage' = "commit"
      /\ UNCHANGED <<order, log, position, offset, opening, balance, updates,
                     processed, current, faults>>
  BY DEF Credit, topic, consumer, database
<1>2. current # NoPartition
  BY <1>1 DEF IInv, TypeOK
<1>3. /\ t \in Account /\ Asked.source \in Account
      /\ Asked.amount \in Nat \ {0}
      /\ Asked.type \in {"deposit", "transfer"}
      /\ Asked.type = "transfer" => Asked.source # t
  BY <1>1, <1>2, HandledIsAnEvent DEF IInv, WorkOK, Types
<1>4. /\ posted[t] = <<>>
      /\ Settled!Covered(Asked)
      /\ work = [a \in Account |->
                   IF Asked.type = "transfer" /\ a = Asked.source
                   THEN balance[a] - Asked.amount ELSE balance[a]]
  BY <1>1 DEF IInv, WorkOK
<1>5. work[t] \in Nat
  BY <1>3 DEF IInv, TypeOK
<1>6. /\ new \in Nat
      /\ Reported(new, new - Asked.amount) \in [cents : Nat, exact : BOOLEAN]
      /\ Reported(new, new - Asked.amount).cents = work[t]
  BY <1>3, <1>5 DEF Reported
<1>7. work' = [work EXCEPT ![t] = new]
  BY <1>1 DEF Update
<1>8. Asked' = Asked /\ Settled!Covered(Asked)' = Settled!Covered(Asked)
  BY <1>1 DEF Asked, Terms, NextEvent, Settled!Covered
<1>9. work[t] = balance[t]
  BY <1>3, <1>4
<1>10. work' = Settled!After(Asked)
  <2>1. \A a \in Account : work'[a] = Settled!After(Asked)[a]
    BY <1>3, <1>4, <1>7, <1>9 DEF Settled!After, Settled!Debits, Settled!Credits
  <2>2. work' = [a \in Account |-> work'[a]]
    BY <1>4, <1>7
  <2> QED BY <2>1, <2>2 DEF Settled!After
<1>11. Settled!After(Asked)' = Settled!After(Asked)
  BY <1>1, <1>8 DEF Settled!After
<1>12. WorkOK'
  BY <1>1, <1>4, <1>8, <1>10, <1>11 DEF WorkOK
<1> HIDE DEF new
<1>13. PostedOK' /\ work' \in [Account -> Nat] /\ posted' \in [Account -> Seq(Row)]
  BY <1>1, <1>2, <1>3, <1>4, <1>6, UpdatePosts DEF IInv
<1> QED BY <1>1, <1>2, <1>12, <1>13, TransactionKeepsTables
        DEF topic, consumer, database, Stages

\* Every step of the consumer keeps the invariant.
LEMMA StepKeepsInvariant == IInv /\ [Next]_vars => IInv'
<1> SUFFICES ASSUME IInv, [Next]_vars PROVE IInv'
  OBVIOUS
<1>1. /\ TypeOK
      /\ position \in [Partition -> Nat] /\ offset \in [Partition -> Nat]
      /\ \A p \in Partition : offset[p] <= position[p] /\ position[p] <= Len(log[p])
  BY DEF IInv, TypeOK
<1>2. ASSUME NEW e \in Event, NEW p \in Partition, Announce(e, p) PROVE IInv'
  BY <1>2, AnnounceKeepsInvariant
<1>3. ASSUME NEW p \in Partition, Skip(p) PROVE IInv'
  <2>1. /\ current = NoPartition /\ HasNext(p) /\ Advance(p)
        /\ UNCHANGED <<order, log, offset, opening, balance, updates, processed,
                       current, stage, work, posted, faults>>
    BY <1>3 DEF Skip, topic, database, handler
  <2>2. /\ position' \in [Partition -> Nat]
        /\ \A q \in Partition : offset[q] <= position'[q] /\ position'[q] <= Len(log[q])
    BY <1>1, <2>1, AdvanceStaysInLog
  <2>3. TypeOK'
    BY <2>1, <2>2 DEF IInv, TypeOK
  <2>4. HandlingOK' /\ PostedOK' /\ UpdatesChain'
    BY <2>1 DEF IInv, HandlingOK, PostedOK, UpdatesChain
  <2>5. stage = "idle"
    BY <2>1 DEF IInv, TypeOK
  <2>6. WorkOK'
    BY <2>1, <2>5 DEF IInv, WorkOK, Nothing
  <2> QED BY <2>3, <2>4, <2>6 DEF IInv
<1>4. ASSUME NEW p \in Partition, BeginUpdate(p) PROVE IInv'
  BY <1>4, BeginKeepsInvariant
<1>5. CASE Debit
  BY <1>5, DebitKeepsInvariant
<1>6. CASE DebitNothing
  BY <1>6, DebitNothingKeepsInvariant
<1>7. CASE Credit
  BY <1>7, CreditKeepsInvariant
<1>8. CASE DebitRefused
  BY <1>1, <1>8, RestKeepsInvariant DEF DebitRefused, consumer, IInv, TypeOK
<1>9. CASE HandlerFails
  <2>1. faults' \in 0..MaxFaults
    BY <1>9, LedgerAssumption DEF HandlerFails, Fault, IInv, TypeOK
  <2> QED BY <1>1, <1>9, <2>1, RestKeepsInvariant DEF HandlerFails, consumer
<1>10. CASE Crash
  <2>1. faults' \in 0..MaxFaults
    BY <1>10, LedgerAssumption DEF Crash, Fault, IInv, TypeOK
  <2>2. \A p \in Partition : Len(log[p]) \in Nat
    BY DEF IInv, TypeOK
  <2>3. \A p \in Partition : offset[p] <= offset[p] /\ offset[p] <= Len(log[p])
    BY <1>1, <2>2
  <2> QED BY <1>1, <1>10, <2>1, <2>3, RestKeepsInvariant DEF Crash
<1>11. CASE Commit
  <2>1. current \in Partition /\ HasNext(current) /\ current # NoPartition
    BY <1>11 DEF Commit, IInv, TypeOK, HandlingOK
  <2>2. /\ position' \in [Partition -> Nat]
        /\ \A p \in Partition : offset[p] <= position'[p] /\ position'[p] <= Len(log[p])
    BY <1>1, <1>11, <2>1, AdvanceStaysInLog DEF Commit
  <2> QED BY <1>11, <2>1, <2>2, DurableKeepsInvariant DEF Commit, IInv, TypeOK
<1>12. CASE CommitLost
  <2>1. faults' \in 0..MaxFaults /\ current # NoPartition
    BY <1>12, LedgerAssumption DEF CommitLost, Fault, IInv, TypeOK
  <2> QED BY <1>1, <1>12, <2>1, DurableKeepsInvariant DEF CommitLost, consumer
<1>13. ASSUME NEW p \in Partition, CommitOffset(p) PROVE IInv'
  <2>1. /\ offset' = [offset EXCEPT ![p] = position[p]]
        /\ UNCHANGED <<order, log, position, opening, balance, updates, processed,
                       current, stage, work, posted, faults>>
    BY <1>13 DEF CommitOffset, topic, database, handler
  <2>2. offset' \in [Partition -> Nat]
    BY <1>1, <2>1
  <2>3. \A q \in Partition : offset'[q] <= position[q] /\ position[q] <= Len(log[q])
    BY <1>1, <2>1
  <2>4. TypeOK'
    BY <2>1, <2>2, <2>3 DEF IInv, TypeOK
  <2>5. HandlingOK' /\ PostedOK' /\ UpdatesChain'
    BY <2>1 DEF IInv, HandlingOK, PostedOK, UpdatesChain, Handled, NextEvent, HasNext
  <2>6. WorkOK'
    BY <2>1, ZenonT(40) DEF IInv, WorkOK, Asked, Terms, NextEvent, Settled!Covered, Settled!After
  <2> QED BY <2>4, <2>5, <2>6 DEF IInv
<1>14. CASE UNCHANGED vars
  <2>1. UNCHANGED <<order, log, position, offset, opening, balance, updates,
                    processed, current, stage, work, posted, faults>>
    BY <1>14 DEF vars, topic, consumer, database, handler
  <2>2. TypeOK'
    BY <2>1 DEF IInv, TypeOK
  <2>3. HandlingOK' /\ PostedOK' /\ UpdatesChain'
    BY <2>1 DEF IInv, HandlingOK, PostedOK, UpdatesChain, Handled, NextEvent, HasNext
  <2>4. WorkOK'
    BY <2>1, ZenonT(40) DEF IInv, WorkOK, Asked, Terms, NextEvent, Settled!Covered, Settled!After
  <2> QED BY <2>2, <2>3, <2>4 DEF IInv
<1> QED
  BY <1>2, <1>3, <1>4, <1>5, <1>6, <1>7, <1>8, <1>9, <1>10, <1>11, <1>12, <1>13, <1>14
  DEF Next, Deliver, HandlerStep

\* The invariant holds throughout, for every number of accounts and events.
THEOREM Invariance == Spec => []IInv
<1> QED BY InitInvariant, StepKeepsInvariant, PTL DEF Spec

-----------------------------------------------------------------------------
(* What the consumer promises *)

\* No balance is ever overdrawn, and the handler's state is well formed.
THEOREM TypeCorrect == Spec => []TypeOK
<1>1. IInv => TypeOK
  BY DEF IInv
<1> QED BY <1>1, Invariance, PTL

\* The BalanceUpdated rows of an account are its whole history.
THEOREM HistoryComplete == Spec => []UpdatesChain
<1>1. IInv => UpdatesChain
  BY DEF IInv
<1> QED BY <1>1, Invariance, PTL

\* Debit, credit and mark are one step of the settlement, or none.
THEOREM LedgerSettlesAtomically == Spec => SettlesAtomically
<1>1. Init => Settled!Init
  BY LedgerAssumption DEF Init, Settled!Init
<1>2. IInv /\ [Next]_vars => [Settled!Next]_(Settled!vars)
  <2> SUFFICES ASSUME IInv, [Next]_vars
               PROVE  Settled!Next \/ UNCHANGED <<order, balance, processed>>
    BY DEF Settled!vars
  <2>1. CASE Commit \/ CommitLost
    <3>1. current # NoPartition /\ stage = "commit" /\ Durable /\ UNCHANGED order
      BY <2>1 DEF Commit, CommitLost, IInv, TypeOK, topic
    <3> QED BY <3>1, DurableSettles DEF IInv
  <2>2. CASE \/ \E e \in Event, p \in Partition : Announce(e, p)
             \/ Deliver
             \/ \E p \in Partition : CommitOffset(p)
    BY <2>2 DEF Announce, Deliver, Skip, BeginUpdate, CommitOffset, topic, database
  <2>3. CASE Debit \/ DebitNothing \/ DebitRefused \/ Credit \/ HandlerFails \/ Crash
    BY <2>3 DEF Debit, DebitNothing, DebitRefused, Credit, HandlerFails, Crash,
                topic, database
  <2>4. CASE UNCHANGED vars
    BY <2>4 DEF vars, topic, database
  <2> QED BY <2>1, <2>2, <2>3, <2>4 DEF Next, HandlerStep
<1> QED
  BY <1>1, <1>2, Invariance, PTL DEF Spec, SettlesAtomically, Settled!Spec
-----------------------------------------------------------------------------
(* Once per event *)

\* The rows the handler has inserted are those of its event: for the source
\* once it is debited, for the target with the credit, and for an uncovered
\* withdrawal none.
RowsMade ==
  /\ current # NoPartition =>
       \A a \in Account : posted[a] = <<>> \/ posted[a][1].of = Handled
  /\ stage = "credit" /\ Asked.type = "transfer" => posted[Asked.source] # <<>>
  /\ stage = "commit" =>
       \/ /\ Asked.type \in {"withdrawal", "transfer"} => posted[Asked.source] # <<>>
          /\ Asked.type \in {"deposit", "transfer"} => posted[Asked.target] # <<>>
       \/ Asked.type = "withdrawal" /\ posted[Asked.source] = <<>>

OnceInv == PostedOncePerEvent /\ RowsMade

\* The commit adds the row of the handler's event, where there is one, to an
\* account, and leaves the rows of the other events as they are.
LEMMA RowsAfter ==
  ASSUME TypeOK, PostedOK, RowsMade, Durable, current # NoPartition,
         NEW e \in Event, NEW a \in Account
  PROVE  RowsOf(e, a)' =
           RowsOf(e, a) \cup (IF e = Handled /\ posted[a] # <<>>
                              THEN {Len(updates[a]) + 1} ELSE {})
<1> DEFINE u == updates[a]
           v == posted[a]
           w == updates'[a]
<1>1. u \in Seq(Row) /\ v \in Seq(Row) /\ w = u \o v
  BY DEF TypeOK, Durable
<1>2. RowsOf(e, a) = {i \in DOMAIN u : u[i].of = e}
  BY DEF RowsOf
<1>3. RowsOf(e, a)' = {i \in DOMAIN w : w[i].of = e}
  BY DEF RowsOf
<1>4. v = <<>> \/ (Len(v) = 1 /\ v[1].of = Handled)
  BY DEF PostedOK, RowsMade
<1> HIDE DEF u, v, w
<1>5. CASE v = <<>>
  <2>1. w = u
    BY <1>1, <1>5
  <2> QED BY <1>2, <1>3, <1>5, <2>1 DEF v
<1>6. CASE Len(v) = 1 /\ v[1].of = Handled
  <2>1. /\ w \in Seq(Row)
        /\ Len(w) = Len(u) + 1
        /\ \A i \in 1..Len(u) : w[i] = u[i]
        /\ w[Len(u) + 1] = v[1]
    BY <1>1, <1>6, ConcatOne
  <2>2. DOMAIN u = 1..Len(u) /\ DOMAIN w = 1..Len(w) /\ Len(u) \in Nat
    BY <1>1, <2>1
  <2>3. DOMAIN w = DOMAIN u \cup {Len(u) + 1}
    BY <2>1, <2>2
  <2>4. v # <<>>
    BY <1>6
  <2>5. \A i \in DOMAIN u : w[i] = u[i]
    BY <2>1, <2>2
  <2>6. w[Len(u) + 1].of = Handled
    BY <1>6, <2>1
  <2>7. {i \in DOMAIN w : w[i].of = e} =
          {i \in DOMAIN u : u[i].of = e}
            \cup (IF e = Handled THEN {Len(u) + 1} ELSE {})
    BY <2>3, <2>5, <2>6
  <2> QED BY <1>2, <1>3, <2>4, <2>7 DEF u, v
<1> QED BY <1>4, <1>5, <1>6

\* What the commit writes for the event of the handler is what it owes.
LEMMA DurablePostsOnce ==
  ASSUME IInv, OnceInv, Durable, UNCHANGED order, stage = "commit"
  PROVE  PostedOncePerEvent'
<1>1. current # NoPartition
  BY DEF IInv, TypeOK
<1>2. /\ Handled \in Event \ processed
      /\ Asked = order[Handled[1]]
      /\ Asked.source \in Account /\ Asked.target \in Account
  BY <1>1, HandledIsAnEvent DEF IInv, HandlingOK
<1>3. processed' = processed \cup {Handled}
  BY DEF Durable
<1> SUFFICES ASSUME NEW e \in Event, NEW o, o = order[e[1]]
    PROVE  IF e \in processed'
           THEN \/ /\ o.type \in {"withdrawal", "transfer"} =>
                        Posted(e, o.source)'
                   /\ o.type \in {"deposit", "transfer"} =>
                        Posted(e, o.target)'
                \/ /\ o.type = "withdrawal"
                   /\ RowsOf(e, o.source)' = {}
           ELSE \A a \in Account : RowsOf(e, a)' = {}
  BY DEF PostedOncePerEvent, Posted, RowsOf
<1>4. o.source \in Account /\ o.target \in Account
  BY LedgerAssumption DEF IInv, TypeOK, Event, Orders
<1>5. CASE e = Handled
  <2>0. e \in processed' /\ o = Asked
    BY <1>2, <1>3, <1>5
  <2>1. \A a \in Account : RowsOf(e, a) = {}
    BY <1>2, <1>5 DEF OnceInv, PostedOncePerEvent
  <2>2. \A a \in Account :
          RowsOf(e, a)' = IF posted[a] # <<>> THEN {Len(updates[a]) + 1} ELSE {}
    BY <1>1, <1>5, <2>1, RowsAfter DEF IInv, OnceInv
  <2>3. \A a \in Account : posted[a] # <<>> => Posted(e, a)'
    BY <2>2 DEF Posted
  <2>4. \/ /\ o.type \in {"withdrawal", "transfer"} => posted[o.source] # <<>>
           /\ o.type \in {"deposit", "transfer"} => posted[o.target] # <<>>
        \/ o.type = "withdrawal" /\ posted[o.source] = <<>>
    BY <2>0 DEF OnceInv, RowsMade
  <2>5. \/ /\ o.type \in {"withdrawal", "transfer"} => Posted(e, o.source)'
           /\ o.type \in {"deposit", "transfer"} => Posted(e, o.target)'
        \/ o.type = "withdrawal" /\ RowsOf(e, o.source)' = {}
    BY <1>4, <2>2, <2>3, <2>4
  <2> QED BY <2>0, <2>5
<1>6. CASE e # Handled
  <2>1. \A a \in Account : RowsOf(e, a)' = RowsOf(e, a)
    BY <1>1, <1>6, RowsAfter DEF IInv, OnceInv
  <2>2. \A a \in Account : Posted(e, a)' <=> Posted(e, a)
    BY <2>1 DEF Posted
  <2>3. e \in processed' <=> e \in processed
    BY <1>3, <1>6
  <2> QED BY <1>4, <2>1, <2>2, <2>3 DEF OnceInv, PostedOncePerEvent
<1> QED BY <1>5, <1>6

\* A step that writes no history keeps what was posted.
LEMMA HistoryKeepsOnce ==
  ASSUME PostedOncePerEvent, UNCHANGED <<order, updates, processed>>
  PROVE  PostedOncePerEvent'
<1> QED BY DEF PostedOncePerEvent, Posted, RowsOf

\* The debit and the credit insert a row of the handler's event each.
LEMMA HandlerKeepsRows ==
  ASSUME IInv, OnceInv, Debit \/ DebitNothing \/ Credit
  PROVE  RowsMade'
<1>1. /\ UNCHANGED <<order, log, position, current>>
      /\ current # NoPartition
  BY DEF Debit, DebitNothing, Credit, topic, consumer, IInv, TypeOK
<1>2. Handled' = Handled /\ Asked' = Asked
  BY <1>1 DEF Handled, Asked, NextEvent, Terms
<1>3. /\ Asked.source \in Account /\ Asked.target \in Account
      /\ Asked.type \in Types
      /\ Asked.type = "transfer" => Asked.source # Asked.target
  BY <1>1, HandledIsAnEvent DEF IInv
<1>4. posted \in [Account -> Seq(Row)]
  BY DEF IInv, TypeOK
<1>5. \A a \in Account : posted[a] = <<>> \/ posted[a][1].of = Handled
  BY <1>1 DEF OnceInv, RowsMade
<1>6. ASSUME NEW x \in Account, NEW new, NEW previous, Update(x, new, previous)
      PROVE  /\ posted'[x] # <<>> /\ posted'[x][1].of = Handled
             /\ \A a \in Account : a # x => posted'[a] = posted[a]
  <2> DEFINE row == [previous |-> previous, new |-> new, of |-> Handled]
  <2>1. posted' = [posted EXCEPT ![x] = <<row>>]
    BY <1>6 DEF Update
  <2>2. <<row>> # <<>> /\ <<row>>[1].of = Handled
    OBVIOUS
  <2> HIDE DEF row
  <2> QED BY <1>4, <2>1, <2>2
<1>7. CASE Debit
  <2>1. PICK x, new, previous :
          x = Asked.source /\ Update(x, new, previous)
    BY <1>7 DEF Debit
  <2>2. /\ posted'[x] # <<>> /\ posted'[x][1].of = Handled
        /\ \A a \in Account : a # x => posted'[a] = posted[a]
    BY <1>3, <1>6, <2>1
  <2>3. /\ stage' = IF Asked.type = "transfer" THEN "credit" ELSE "commit"
        /\ Asked.type # "deposit"
    BY <1>7 DEF Debit, IInv, WorkOK
  <2> QED BY <1>2, <1>3, <1>5, <2>1, <2>2, <2>3 DEF RowsMade
<1>8. CASE DebitNothing
  <2>1. /\ stage' = "commit" /\ Asked.type = "withdrawal"
        /\ posted = Nothing /\ UNCHANGED posted
    BY <1>8 DEF DebitNothing, IInv, WorkOK
  <2> QED BY <1>2, <1>3, <1>5, <2>1 DEF RowsMade, Nothing
<1>9. CASE Credit
  <2>1. PICK x, new, previous :
          x = Asked.target /\ Update(x, new, previous)
    BY <1>9 DEF Credit
  <2>2. /\ posted'[x] # <<>> /\ posted'[x][1].of = Handled
        /\ \A a \in Account : a # x => posted'[a] = posted[a]
    BY <1>3, <1>6, <2>1
  <2>3. stage' = "commit" /\ Asked.type # "withdrawal"
    BY <1>9 DEF Credit, IInv, WorkOK
  <2>4. Asked.type = "transfer" => posted[Asked.source] # <<>>
    BY <1>9 DEF Credit, OnceInv, RowsMade
  <2> QED BY <1>2, <1>3, <1>5, <2>1, <2>2, <2>3, <2>4 DEF RowsMade
<1> QED BY <1>7, <1>8, <1>9

\* Every step of the consumer keeps an event from being posted twice.
LEMMA StepKeepsOnce == IInv /\ OnceInv /\ [Next]_vars => OnceInv'
<1> SUFFICES ASSUME IInv, OnceInv, [Next]_vars PROVE OnceInv'
  OBVIOUS
<1>1. ASSUME current' = NoPartition, stage' = "idle" PROVE RowsMade'
  BY <1>1 DEF RowsMade
<1>2. ASSUME NEW e \in Event, NEW p \in Partition, Announce(e, p) PROVE OnceInv'
  <2>1. UNCHANGED <<order, updates, processed, current, stage, posted>>
    BY <1>2 DEF Announce, database, handler
  <2>2. current # NoPartition => Handled' = Handled /\ Asked' = Asked
    BY <1>2, AnnounceKeepsEvent DEF IInv
  <2>3. stage # "idle" => current # NoPartition
    BY DEF IInv, TypeOK
  <2>4. RowsMade'
    BY <2>1, <2>2, <2>3 DEF OnceInv, RowsMade
  <2> QED BY <2>1, <2>4, HistoryKeepsOnce DEF OnceInv
<1>3. ASSUME NEW p \in Partition, Skip(p) PROVE OnceInv'
  <2>1. /\ UNCHANGED <<order, updates, processed>>
        /\ current' = NoPartition /\ stage' = "idle"
    BY <1>3 DEF Skip, topic, database, handler, IInv, TypeOK
  <2> QED BY <1>1, <2>1, HistoryKeepsOnce DEF OnceInv
<1>4. ASSUME NEW p \in Partition, BeginUpdate(p) PROVE OnceInv'
  <2>1. /\ UNCHANGED <<order, updates, processed, posted>>
        /\ stage' = IF Terms(p).type = "deposit" THEN "credit" ELSE "debit"
        /\ Asked' = Terms(p)
        /\ posted = Nothing
    BY <1>4 DEF BeginUpdate, topic, consumer, database, IInv, TypeOK, WorkOK,
                Asked, Terms, NextEvent
  <2>2. RowsMade'
    BY <2>1 DEF RowsMade, Nothing
  <2> QED BY <2>1, <2>2, HistoryKeepsOnce DEF OnceInv
<1>5. CASE Debit \/ DebitNothing \/ Credit
  <2>1. UNCHANGED <<order, updates, processed>>
    BY <1>5 DEF Debit, DebitNothing, Credit, topic, database
  <2> QED BY <1>5, <2>1, HandlerKeepsRows, HistoryKeepsOnce DEF OnceInv
<1>6. CASE Commit \/ CommitLost
  <2>1. /\ stage = "commit" /\ Durable /\ UNCHANGED order
        /\ current' = NoPartition /\ stage' = "idle"
    BY <1>6 DEF Commit, CommitLost, Rest, topic
  <2> QED BY <1>1, <2>1, DurablePostsOnce DEF OnceInv
<1>7. CASE DebitRefused \/ HandlerFails \/ Crash
  <2>1. /\ UNCHANGED <<order, updates, processed>>
        /\ current' = NoPartition /\ stage' = "idle"
    BY <1>7 DEF DebitRefused, HandlerFails, Crash, Rest, topic, database
  <2> QED BY <1>1, <2>1, HistoryKeepsOnce DEF OnceInv
<1>8. CASE UNCHANGED vars \/ \E p \in Partition : CommitOffset(p)
  <2>1. UNCHANGED <<order, log, position, updates, processed, current, stage, posted>>
    BY <1>8 DEF vars, CommitOffset, topic, consumer, database, handler
  <2>2. RowsMade'
    BY <2>1 DEF OnceInv, RowsMade, Handled, Asked, NextEvent, Terms
  <2> QED BY <2>1, <2>2, HistoryKeepsOnce DEF OnceInv
<1> QED BY <1>2, <1>3, <1>4, <1>5, <1>6, <1>7, <1>8 DEF Next, Deliver, HandlerStep

\* Nothing is posted at the start.
LEMMA InitOnce == Init => OnceInv
<1> SUFFICES ASSUME Init PROVE OnceInv
  OBVIOUS
<1>1. processed = {} /\ current = NoPartition /\ stage = "idle"
  BY DEF Init
<1>2. \A a \in Account : updates[a] = <<>>
  BY DEF Init
<1>3. DOMAIN <<>> = {}
  OBVIOUS
<1>4. \A e \in Event, a \in Account : RowsOf(e, a) = {}
  BY <1>2, <1>3 DEF RowsOf
<1> QED BY <1>1, <1>4 DEF OnceInv, PostedOncePerEvent, RowsMade

\* However often it is delivered, and whatever fails, an event of processed_events
\* has changed each account it names once, and another event none.
THEOREM PostedOnce == Spec => []PostedOncePerEvent
<1>1. Init => OnceInv
  BY InitOnce
<1>2. OnceInv => PostedOncePerEvent
  BY DEF OnceInv
<1> QED BY <1>1, <1>2, Invariance, StepKeepsOnce, PTL DEF Spec

-----------------------------------------------------------------------------
(* Totals *)

\* One more member adds what it is assigned.
LEMMA TotalOfOneMore ==
  ASSUME NEW f, NEW S, IsFiniteSet(S), \A x \in S : f[x] \in Nat,
         NEW a, a \notin S, f[a] \in Nat
  PROVE  /\ Total(f, S) \in Nat
         /\ Total(f, S \cup {a}) = Total(f, S) + f[a]
<1> DEFINE coins(x) == {x} \X (1..f[x])
           piles == {coins(x) : x \in S}
<1>1. \A x : f[x] \in Nat => IsFiniteSet(coins(x)) /\ Cardinality(coins(x)) = f[x]
  <2> SUFFICES ASSUME NEW x, f[x] \in Nat
               PROVE  IsFiniteSet(coins(x)) /\ Cardinality(coins(x)) = f[x]
    OBVIOUS
  <2>1. IsFiniteSet(1..f[x]) /\ Cardinality(1..f[x]) = f[x]
    <3>1. \A n \in Nat : IsFiniteSet(1..n) /\ Cardinality(1..n) = n
      <4> TAKE n \in Nat
      <4>1. 1 \in Int /\ n \in Int
        OBVIOUS
      <4>2. IsFiniteSet(1..n) /\ Cardinality(1..n) = IF 1 > n THEN 0 ELSE n - 1 + 1
        BY ONLY <4>1, FS_Interval
      <4> QED
        BY <4>2
    <3> QED
      BY <3>1
  <2>2. IsFiniteSet({x}) /\ Cardinality({x}) = 1
    BY FS_Singleton
  <2>3. IsFiniteSet(coins(x)) /\ Cardinality(coins(x)) = Cardinality({x}) * Cardinality(1..f[x])
    BY <2>1, <2>2, FS_Product
  <2>4. QED
    BY <2>1, <2>2, <2>3
<1>2. IsFiniteSet(piles)
  <2> DEFINE g == [x \in S |-> coins(x)]
  <2>1. g \in Surjection(S, piles)
    BY DEF Surjection
  <2> HIDE DEF g, piles
  <2>2. QED
    BY <2>1, FS_Surjection
<1>3. IsFiniteSet(UNION piles)
  BY <1>1, <1>2, FS_UNION
<1>4. UNION {coins(x) : x \in S \cup {a}} = (UNION piles) \cup coins(a)
  OBVIOUS
<1>5. (UNION piles) \cap coins(a) = {}
  OBVIOUS
<1>6. Total(f, S) = Cardinality(UNION piles) /\ Total(f, S \cup {a}) = Cardinality((UNION piles) \cup coins(a))
  BY <1>4 DEF Total
<1> HIDE DEF coins, piles
<1>7. Cardinality(UNION piles) \in Nat
  BY <1>3, FS_CardinalityType
<1>8. Cardinality((UNION piles) \cup coins(a)) = Cardinality(UNION piles) + Cardinality(coins(a)) - 0
  BY <1>1, <1>3, <1>5, FS_Union, FS_EmptySet
<1> QED
  BY <1>1, <1>6, <1>7, <1>8

\* So the total splits at any member.
LEMMA TotalSplits ==
  ASSUME NEW f, NEW S, IsFiniteSet(S), \A x \in S : f[x] \in Nat, NEW a \in S
  PROVE  /\ Total(f, S \ {a}) \in Nat
         /\ Total(f, S) = Total(f, S \ {a}) + f[a]
<1>1. IsFiniteSet(S \ {a}) /\ S = (S \ {a}) \cup {a}
  BY FS_Subset
<1> QED
  BY <1>1, TotalOfOneMore

\* Only what is assigned to the members matters.
LEMMA TotalSame ==
  ASSUME NEW f, NEW g, NEW S, \A x \in S : f[x] = g[x]
  PROVE  Total(f, S) = Total(g, S)
<1>1. {{x} \X (1..f[x]) : x \in S} = {{x} \X (1..g[x]) : x \in S}
  OBVIOUS
<1> QED
  BY <1>1 DEF Total

\* A total is a number.
LEMMA TotalIsNat ==
  ASSUME NEW f, NEW S, IsFiniteSet(S), \A x \in S : f[x] \in Nat
  PROVE  Total(f, S) \in Nat
<1>1. CASE S = {}
  <2>1. UNION {{x} \X (1..f[x]) : x \in S} = {}
    BY <1>1
  <2> QED
    BY <2>1, FS_EmptySet DEF Total
<1>2. CASE S # {}
  <2>1. PICK a : a \in S
    BY <1>2
  <2>2. Total(f, S \ {a}) \in Nat /\ Total(f, S) = Total(f, S \ {a}) + f[a] /\ f[a] \in Nat
    BY <2>1, TotalSplits
  <2> QED
    BY <2>2
<1> QED
  BY <1>1, <1>2

\* When one member is assigned more, or less, so is the total.
LEMMA TotalMoves ==
  ASSUME NEW f, NEW g, NEW S, IsFiniteSet(S), \A x \in S : f[x] \in Nat /\ g[x] \in Nat,
         NEW a \in S, \A x \in S \ {a} : g[x] = f[x]
  PROVE  Total(g, S) = Total(f, S) + g[a] - f[a]
<1>1. Total(g, S \ {a}) = Total(f, S \ {a})
  BY TotalSame
<1> QED
  BY <1>1, TotalSplits

-----------------------------------------------------------------------------
(* Conservation *)

\* A transaction has inserted a row for an account when it has changed it.
RowsMove == \A a \in Account : posted[a] = <<>> <=> work[a] = balance[a]

ConservedInv == RowsMove /\ IsFiniteSet(processed) /\ Conserved

\* An amount is never zero, so every row is about a change.
LEMMA StepKeepsMoves == IInv /\ RowsMove /\ [Next]_vars => RowsMove'
<1> SUFFICES ASSUME IInv, RowsMove, [Next]_vars PROVE RowsMove'
  OBVIOUS
<1>1. CASE Rest
  BY <1>1 DEF Rest, RowsMove, Nothing
<1>2. CASE UNCHANGED <<balance, work, posted>>
  BY <1>2 DEF RowsMove
<1>3. ASSUME NEW x \in Account, NEW new \in Nat, NEW previous,
             Update(x, new, previous), UNCHANGED balance, work[x] = balance[x], new # work[x]
      PROVE  RowsMove'
  <2> DEFINE row == [previous |-> previous, new |-> new, of |-> Handled]
  <2>1. <<row>> # <<>> /\ posted' = [posted EXCEPT ![x] = <<row>>] /\ work' = [work EXCEPT ![x] = new]
    BY <1>3 DEF Update
  <2>2. posted \in [Account -> Seq(Row)] /\ work \in [Account -> Nat]
    BY DEF IInv, TypeOK
  <2> HIDE DEF row
  <2> QED
    BY <1>3, <2>1, <2>2 DEF RowsMove
<1>4. ASSUME stage # "idle"
      PROVE  /\ Asked.source \in Account /\ Asked.target \in Account
             /\ Asked.amount \in Nat \ {0}
             /\ \A x \in Account : work[x] \in Nat
  BY <1>4, HandledIsAnEvent DEF IInv, TypeOK
<1>5. CASE Debit
  <2>1. work[Asked.source] - Asked.amount \in Nat /\ work[Asked.source] - Asked.amount # work[Asked.source]
    BY <1>4, <1>5 DEF Debit, Covers
  <2>2. work[Asked.source] = balance[Asked.source] /\ UNCHANGED balance
    BY <1>5 DEF Debit, IInv, WorkOK, database
  <2>3. PICK new, previous : new = work[Asked.source] - Asked.amount /\ Update(Asked.source, new, previous)
    BY <1>5 DEF Debit
  <2> QED
    BY <1>3, <1>4, <1>5, <2>1, <2>2, <2>3 DEF Debit
<1>6. CASE Credit
  <2>1. work[Asked.target] + Asked.amount \in Nat /\ work[Asked.target] + Asked.amount # work[Asked.target]
    BY <1>4, <1>6 DEF Credit
  <2>2. work[Asked.target] = balance[Asked.target] /\ UNCHANGED balance
    BY <1>4, <1>6 DEF Credit, IInv, WorkOK, RowsMove, database
  <2>3. PICK new, previous : new = work[Asked.target] + Asked.amount /\ Update(Asked.target, new, previous)
    BY <1>6 DEF Credit
  <2> QED
    BY <1>3, <1>4, <1>6, <2>1, <2>2, <2>3 DEF Credit
<1> QED
  BY <1>1, <1>2, <1>5, <1>6
     DEF Next, Deliver, HandlerStep, Announce, Skip, BeginUpdate, DebitNothing, DebitRefused, Commit,
         CommitLost, HandlerFails, CommitOffset, Crash, vars, database, handler

\* The event of the handler is paid in, or out, when the commit makes its rows
\* durable; those of the other events stay as they are.
LEMMA CommitPays ==
  ASSUME IInv, OnceInv, RowsMove, Durable, UNCHANGED order, stage = "commit"
  PROVE  /\ PaidIn' = PaidIn \cup (IF Asked.type = "deposit" THEN {Handled} ELSE {})
         /\ PaidOut' = PaidOut \cup (IF Asked.type = "withdrawal" /\ work # balance THEN {Handled} ELSE {})
         /\ Handled \notin PaidIn /\ Handled \notin PaidOut
<1>1. current # NoPartition
  BY DEF IInv, TypeOK
<1>2. /\ Handled \in Event \ processed
      /\ Asked = order[Handled[1]]
      /\ Asked.source \in Account
      /\ processed \subseteq Event
      /\ processed' = processed \cup {Handled}
  BY <1>1, HandledIsAnEvent DEF IInv, HandlingOK, TypeOK, Durable
<1>3. PaidIn' = PaidIn \cup (IF Asked.type = "deposit" THEN {Handled} ELSE {})
  BY <1>2 DEF PaidIn
<1>4. \A e \in Event : order[e[1]].source \in Account
  BY LedgerAssumption DEF IInv, TypeOK, Event, Orders
<1>5. \A e \in processed : RowsOf(e, order[e[1]].source)' = RowsOf(e, order[e[1]].source)
  <2> TAKE e \in processed
  <2>1. e # Handled /\ e \in Event
    BY <1>2
  <2>2. PICK a \in Account : a = order[e[1]].source
    BY <1>4, <2>1
  <2>3. RowsOf(e, a)' = RowsOf(e, a)
    BY <1>1, <2>1, RowsAfter DEF IInv, OnceInv
  <2>4. order' = order
    OBVIOUS
  <2> QED
    BY <2>2, <2>3, <2>4 DEF RowsOf
<1>6. PICK e \in Event, a \in Account : e = Handled /\ a = Asked.source
  BY <1>2
<1>7. Asked.type = "withdrawal" => (RowsOf(e, a)' # {} <=> work # balance)
  <2> SUFFICES ASSUME Asked.type = "withdrawal" PROVE RowsOf(e, a)' # {} <=> work # balance
    OBVIOUS
  <2>1. RowsOf(e, a) = {}
    BY <1>2, <1>6 DEF OnceInv, PostedOncePerEvent
  <2>2. RowsOf(e, a)' # {} <=> posted[a] # <<>>
    BY <1>1, <1>6, <2>1, RowsAfter DEF IInv, OnceInv
  <2>3. posted[a] # <<>> <=> work[a] # balance[a]
    BY DEF RowsMove
  <2>4. work # balance <=> work[a] # balance[a]
    <3>1. \/ work = Settled!After(Asked)
          \/ work = balance
      BY DEF IInv, WorkOK
    <3>2. ASSUME work = Settled!After(Asked) PROVE \A x \in Account : x # a => work[x] = balance[x]
      BY <1>6, <3>2 DEF Settled!After, Settled!Credits
    <3>3. work \in [Account -> Nat] /\ balance \in [Account -> Nat]
      BY DEF IInv, TypeOK
    <3> QED
      BY <3>1, <3>2, <3>3
  <2> QED
    BY <2>2, <2>3, <2>4
<1>8. PaidOut' = PaidOut \cup (IF Asked.type = "withdrawal" /\ work # balance THEN {Handled} ELSE {})
  <2>1. PaidOut' = {f \in processed' : /\ order[f[1]].type = "withdrawal"
                                       /\ RowsOf(f, order[f[1]].source)' # {}}
    BY DEF PaidOut, RowsOf
  <2> QED
    BY <1>2, <1>5, <1>6, <1>7, <2>1 DEF PaidOut
<1> QED
  BY <1>2, <1>3, <1>8 DEF PaidIn, PaidOut

\* A transfer moves money from one account to another.
LEMMA TransferKeepsTotal ==
  ASSUME NEW f \in [Account -> Nat], NEW s \in Account, NEW t \in Account, s # t,
         NEW n \in Nat, f[s] - n \in Nat,
         NEW g, g = [a \in Account |-> IF a = s THEN f[a] - n ELSE IF a = t THEN f[a] + n ELSE f[a]]
  PROVE  Total(g, Account) = Total(f, Account)
<1> DEFINE h == [f EXCEPT ![s] = f[s] - n]
<1>1. /\ \A x \in Account : f[x] \in Nat /\ g[x] \in Nat /\ h[x] \in Nat
      /\ h[s] = f[s] - n /\ \A x \in Account \ {s} : h[x] = f[x]
      /\ g[t] = h[t] + n /\ \A x \in Account \ {t} : g[x] = h[x]
  OBVIOUS
<1> HIDE DEF h
<1>0. IsFiniteSet(Account)
  BY LedgerAssumption
<1>2. Total(h, Account) = Total(f, Account) + h[s] - f[s]
  BY <1>0, <1>1, TotalMoves
<1>3. Total(g, Account) = Total(h, Account) + g[t] - h[t]
  BY <1>0, <1>1, TotalMoves
<1>4. Total(f, Account) \in Nat /\ Total(h, Account) \in Nat /\ Total(g, Account) \in Nat
  BY <1>1, LedgerAssumption, TotalIsNat
<1> QED
  BY <1>1, <1>2, <1>3, <1>4

\* The commit moves, pays in or pays out what its event asks for.
LEMMA CommitConserves ==
  ASSUME IInv, OnceInv, ConservedInv, Durable, UNCHANGED <<order, opening>>, stage = "commit"
  PROVE  Conserved' /\ IsFiniteSet(processed')
<1>1. current # NoPartition
  BY DEF IInv, TypeOK
<1>2. PICK e, o, n : e = Handled /\ o = Asked /\ n = Asked.amount
  OBVIOUS
<1>3. /\ e \in Event /\ o = order[e[1]] /\ n = o.amount /\ n \in Nat \ {0}
      /\ o.type \in Types /\ o.source \in Account /\ o.target \in Account
      /\ o.type = "transfer" => o.source # o.target
  BY <1>1, <1>2, HandledIsAnEvent DEF IInv
<1>4. /\ balance' = work
      /\ processed' = processed \cup {e}
      /\ PaidIn' = PaidIn \cup (IF o.type = "deposit" THEN {e} ELSE {})
      /\ PaidOut' = PaidOut \cup (IF o.type = "withdrawal" /\ work # balance THEN {e} ELSE {})
      /\ e \notin PaidIn /\ e \notin PaidOut
  BY <1>2, CommitPays DEF ConservedInv, Durable
<1>5. IsFiniteSet(processed')
  BY <1>4, FS_AddElement DEF ConservedInv
<1>6. /\ IsFiniteSet(PaidIn) /\ PaidIn \subseteq Event
      /\ IsFiniteSet(PaidOut) /\ PaidOut \subseteq Event
  BY FS_Subset DEF PaidIn, PaidOut, ConservedInv, IInv, TypeOK
<1>7. /\ Amount' = Amount /\ Amount[e] = n
      /\ \A f \in Event : Amount[f] \in Nat
  <2>1. \A f \in Event : f[1] \in Txn
    BY DEF Event
  <2>2. \A t \in Txn : order[t].amount \in Nat
    BY LedgerAssumption DEF IInv, TypeOK, Orders
  <2> QED
    BY <1>3, <2>1, <2>2 DEF Amount
<1>8. /\ balance \in [Account -> Nat] /\ work \in [Account -> Nat]
      /\ \A a \in Account : opening[a] \in Nat /\ balance[a] \in Nat /\ work[a] \in Nat
  BY LedgerAssumption DEF IInv, TypeOK
<1>9. /\ Total(balance, Account) \in Nat /\ Total(work, Account) \in Nat /\ Total(opening, Account) \in Nat
      /\ Total(Amount, PaidIn) \in Nat /\ Total(Amount, PaidOut) \in Nat
  BY <1>6, <1>7, <1>8, LedgerAssumption, TotalIsNat
<1>10. Total(Amount, PaidIn \cup {e}) = Total(Amount, PaidIn) + n
  BY <1>3, <1>4, <1>6, <1>7, TotalOfOneMore
<1>11. Total(Amount, PaidOut \cup {e}) = Total(Amount, PaidOut) + n
  BY <1>3, <1>4, <1>6, <1>7, TotalOfOneMore
<1>12. Total(balance, Account) + Total(Amount, PaidOut) = Total(opening, Account) + Total(Amount, PaidIn)
  BY DEF ConservedInv, Conserved
<1> SUFFICES Total(work, Account) + Total(Amount, PaidOut') = Total(opening, Account) + Total(Amount, PaidIn')
  BY <1>4, <1>5, <1>7 DEF Conserved
<1>13. CASE o.type = "withdrawal" /\ work = balance
  BY <1>4, <1>12, <1>13
<1>14. CASE Settled!Covered(o) /\ work = Settled!After(o) /\ ~(o.type = "withdrawal" /\ work = balance)
  <2>1. CASE o.type = "deposit"
    <3>1. work = [a \in Account |-> IF a = o.target THEN balance[a] + n ELSE balance[a]]
      BY <1>3, <1>14, <2>1 DEF Settled!After, Settled!Debits, Settled!Credits
    <3>2. work[o.target] = balance[o.target] + n /\ \A a \in Account \ {o.target} : work[a] = balance[a]
      BY <1>3, <3>1
    <3>3. Total(work, Account) = Total(balance, Account) + work[o.target] - balance[o.target]
      BY <1>3, <1>8, <3>2, LedgerAssumption, TotalMoves
    <3> QED
      BY <1>3, <1>4, <1>8, <1>9, <1>10, <1>12, <2>1, <3>2, <3>3
  <2>2. CASE o.type = "withdrawal"
    <3>1. work = [a \in Account |-> IF a = o.source THEN balance[a] - n ELSE balance[a]]
      BY <1>3, <1>14, <2>2 DEF Settled!After, Settled!Debits, Settled!Credits
    <3>2. work[o.source] = balance[o.source] - n /\ \A a \in Account \ {o.source} : work[a] = balance[a]
      BY <1>3, <3>1
    <3>3. Total(work, Account) = Total(balance, Account) + work[o.source] - balance[o.source]
      BY <1>3, <1>8, <3>2, LedgerAssumption, TotalMoves
    <3>4. PaidOut' = PaidOut \cup {e} /\ PaidIn' = PaidIn
      BY <1>4, <1>14, <2>2
    <3> QED
      BY <1>3, <1>8, <1>9, <1>11, <1>12, <3>2, <3>3, <3>4
  <2>3. CASE o.type = "transfer"
    <3>1. work = [a \in Account |-> IF a = o.source THEN balance[a] - n
                                    ELSE IF a = o.target THEN balance[a] + n ELSE balance[a]]
      BY <1>3, <1>14, <2>3 DEF Settled!After, Settled!Debits, Settled!Credits
    <3>2. balance[o.source] - n \in Nat
      BY <1>3, <1>8, <1>14, <2>3 DEF Settled!Covered, Settled!Debits
    <3>3. Total(work, Account) = Total(balance, Account)
      <4>1. /\ balance \in [Account -> Nat] /\ n \in Nat
            /\ o.source \in Account /\ o.target \in Account /\ o.source # o.target
        BY <1>3, <1>8, <2>3
      <4> QED
        BY ONLY <3>1, <3>2, <4>1, TransferKeepsTotal
    <3> QED
      BY <1>4, <1>12, <2>3, <3>3
  <2> QED
    BY <1>3, <2>1, <2>2, <2>3 DEF Types
<1>15. \/ Settled!Covered(o) /\ work = Settled!After(o)
       \/ o.type = "withdrawal" /\ work = balance
  BY <1>2 DEF IInv, WorkOK
<1> QED
  BY <1>13, <1>14, <1>15

\* Every step of the consumer keeps the totals in balance.
LEMMA StepConserves == IInv /\ OnceInv /\ ConservedInv /\ [Next]_vars => ConservedInv'
<1> SUFFICES ASSUME IInv, OnceInv, ConservedInv, [Next]_vars PROVE ConservedInv'
  OBVIOUS
<1>1. RowsMove'
  BY StepKeepsMoves DEF ConservedInv
<1>2. CASE Commit \/ CommitLost
  <2>1. stage = "commit" /\ Durable /\ UNCHANGED <<order, opening>>
    BY <1>2 DEF Commit, CommitLost, topic
  <2> QED
    BY <1>1, <2>1, CommitConserves DEF ConservedInv
<1>3. CASE ~(Commit \/ CommitLost)
  <2>1. UNCHANGED <<order, opening, balance, updates, processed>>
    BY <1>3 DEF Next, Deliver, HandlerStep, Announce, Skip, BeginUpdate, Debit, DebitNothing, DebitRefused,
                Credit, HandlerFails, CommitOffset, Crash, vars, database, topic
  <2> QED
    BY <1>1, <2>1 DEF ConservedInv, Conserved, Amount, PaidIn, PaidOut, RowsOf
<1> QED
  BY <1>2, <1>3

\* However transfers, retries and crashes interleave, the balances add up to the
\* opening balances, the deposits and the withdrawals that took effect.
THEOREM MoneyConserved == Spec => []Conserved
<1>1. Init => ConservedInv
  <2> SUFFICES ASSUME Init PROVE ConservedInv
    OBVIOUS
  <2>1. RowsMove /\ processed = {} /\ PaidIn = {} /\ PaidOut = {} /\ balance = opening
    BY DEF Init, RowsMove, Nothing, PaidIn, PaidOut
  <2> QED
    BY <2>1, FS_EmptySet DEF ConservedInv, Conserved
<1>2. ConservedInv => Conserved
  BY DEF ConservedInv
<1>3. Init => OnceInv
  BY InitOnce
<1> QED
  BY <1>1, <1>2, <1>3, Invariance, StepKeepsOnce, StepConserves, PTL DEF Spec
=============================================================================
