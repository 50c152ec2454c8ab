-------------------------- MODULE ProjectionProofs --------------------------
(* One initial deposit per account, and a projection that follows the      *)
(* ledger, for any number of clients, accounts, withdrawals, copies of an  *)
(* event and faults.                                                       *)
EXTENDS Projection, SequenceTheorems, TLAPS

\* A request inserts only what it has looked up, and announces only what it
\* has inserted.
CallOK ==
  /\ \A r \in Request : call[r] = "announce" => r \in rows
  /\ \A a \in Account : call[a] = "insert" => owner[a] \in rows

\* What the two handlers are busy with.
OpenerOK ==
  opener = Idle \/
    \E a \in Account, n \in Copies, stage \in {"seed", "mark", "lookup", "create", "commit"} :
      opener = [of |-> <<a, n>>, stage |-> stage] /\ Opened(a, n) \in created

UpdaterOK ==
  updater = Idle \/
    \E a \in Account : \E i \in DOMAIN posted[a], stage \in {"write", "mark"} :
      \E n \in Copies :
        /\ updater = [of |-> <<a, i, n>>, stage |-> stage] /\ Updated(a, i, n) \in Update
        /\ stage = "mark" => i <= reached[a]

CountsOK ==
  /\ pending \in [Account -> Nat] /\ owed \in [Account -> Nat] /\ credited \in [Account -> Nat]
  /\ rejected \in [Account -> Nat] /\ mishaps \in [Account -> Nat]

RangesOK ==
  /\ source \in [Withdrawal -> Account]
  /\ projection \in [Account -> Nat \cup {None}]
  /\ deposit \in [Account -> Nat] /\ asked \in [Account -> Nat]
  /\ pending \in [Account -> Nat] /\ owed \in [Account -> Nat] /\ credited \in [Account -> Nat]
  /\ rejected \in [Account -> Nat] /\ mishaps \in [Account -> Nat]
  /\ verdict \in [Withdrawal -> Verdicts]
  /\ troubled \subseteq Account
  /\ reached \in [Account -> Nat]
  /\ disorder \subseteq Account

EventsOK ==
  /\ created \subseteq {Opened(a, n) : a \in announced \cap Account, n \in Copies}
  /\ posted \in [Account -> Seq(Nat)]
  /\ repeated \subseteq
       UNION {{Updated(a, i, n) : i \in DOMAIN posted[a], n \in Copies} : a \in Account}
  /\ processed \subseteq created \cup Update

\* The handler works for account a, at one of the stages.
OpenerOn(a, stages) == opener.stage \in stages /\ Subject = a

\* The transaction of the initial deposit is stored once, and requested unless
\* the handler is about to do it or a fault prevented it.
DepositOf(a) ==
  /\ asked[a] <= deposit[a] /\ deposit[a] <= 1
  /\ asked[a] < deposit[a] => a \in troubled \/ OpenerOn(a, {"commit"})
  /\ OpenerOn(a, {"commit"}) => asked[a] = 0 /\ deposit[a] = 1
  /\ (\E n \in Copies : Opened(a, n) \in processed) /\ initial[a] > 0 =>
       asked[a] = 1 \/ a \in troubled \/ OpenerOn(a, {"lookup", "create", "commit"})

DepositOK == \A a \in Account : DepositOf(a)

\* Only a fault makes more of one deposit, or rejects it.
FlowOf(a) ==
  /\ pending[a] + owed[a] + credited[a] + rejected[a] <= asked[a] + mishaps[a]
  /\ rejected[a] <= mishaps[a]

\* The account is projected before its deposit is requested.
SeededOf(a) ==
  OpenerOn(a, {"mark", "lookup", "create", "commit"}) \/ asked[a] > 0 \/ pending[a] > 0 =>
    projection[a] # None

SettlingOK == \A a \in Account : FlowOf(a) /\ SeededOf(a)

\* Without disorder the projection holds the last row written, and what is
\* processed was written.
WriteOK ==
  \A a \in Account :
    /\ reached[a] \in 0..Len(posted[a])
    /\ projection[a] \in {None, 0} \cup {posted[a][i] : i \in DOMAIN posted[a]}
    /\ projection[a] # None /\ a \notin disorder =>
         projection[a] = IF reached[a] = 0 THEN 0 ELSE posted[a][reached[a]]
    /\ \A i \in Nat, n \in Copies : Updated(a, i, n) \in processed => i <= reached[a]

Handlers == OpenerOK /\ UpdaterOK

IInv ==
  /\ AccountsTypeOK /\ CallOK /\ Handlers /\ RangesOK /\ EventsOK
  /\ DepositOK /\ SettlingOK /\ WriteOK

-----------------------------------------------------------------------------
(* What the invariant gives. *)

LEMMA GivesType == IInv => TypeOK
<1> SUFFICES ASSUME IInv PROVE TypeOK
  OBVIOUS
<1>1. opener.stage \in {"idle", "seed", "mark", "lookup", "create", "commit"}
      /\ (opener = Idle \/ Opened(Subject, opener.of[2]) \in created)
  BY DEF IInv, Handlers, OpenerOK, Idle, Subject
<1>2. updater.stage \in {"idle", "write", "mark"}
      /\ (updater = Idle \/ Updated(updater.of[1], updater.of[2], updater.of[3]) \in Update)
  BY DEF IInv, Handlers, UpdaterOK, Idle
<1>3. QED
  BY <1>1, <1>2 DEF IInv, RangesOK, EventsOK, TypeOK

LEMMA GivesOneDeposit == IInv => OneInitialDeposit
<1> SUFFICES ASSUME IInv, NEW a \in Account
             PROVE  /\ asked[a] <= 1
                    /\ credited[a] + rejected[a] <= asked[a] + mishaps[a]
                    /\ rejected[a] <= mishaps[a]
                    /\ (/\ \E n \in Copies : Opened(a, n) \in processed
                        /\ initial[a] > 0 /\ opener = Idle /\ a \notin troubled) => asked[a] = 1
  BY DEF OneInitialDeposit
<1>1. /\ asked[a] \in Nat /\ deposit[a] \in Nat /\ pending[a] \in Nat /\ owed[a] \in Nat
      /\ credited[a] \in Nat /\ rejected[a] \in Nat /\ mishaps[a] \in Nat
  BY DEF IInv, RangesOK
<1>2. asked[a] <= 1 /\ credited[a] + rejected[a] <= asked[a] + mishaps[a] /\ rejected[a] <= mishaps[a]
  BY <1>1 DEF IInv, DepositOK, DepositOf, SettlingOK, FlowOf
<1>3. QED
  BY <1>2 DEF IInv, DepositOK, DepositOf, OpenerOn, Idle

LEMMA GivesFollows == IInv => ProjectionFollows
<1> SUFFICES ASSUME IInv, NEW a \in Account
             PROVE  /\ projection[a] \in {None, 0} \cup {posted[a][i] : i \in DOMAIN posted[a]}
                    /\ (/\ projection[a] # None
                        /\ \A i \in DOMAIN posted[a], n \in Copies :
                             Updated(a, i, n) \in Update => Updated(a, i, n) \in processed
                        /\ a \notin disorder) => projection[a] = Balance(a)
  BY DEF ProjectionFollows
<1>1. posted[a] \in Seq(Nat) /\ Len(posted[a]) \in Nat /\ DOMAIN posted[a] = 1..Len(posted[a])
  BY DEF IInv, EventsOK
<1>2. ASSUME \A i \in DOMAIN posted[a], n \in Copies :
               Updated(a, i, n) \in Update => Updated(a, i, n) \in processed
      PROVE  reached[a] = Len(posted[a])
  <2>1. CASE posted[a] = <<>>
    BY <1>1, <2>1 DEF IInv, WriteOK
  <2>2. CASE posted[a] # <<>>
    <3>1. Len(posted[a]) \in DOMAIN posted[a]
      BY <1>1, <2>2
    <3>2. 1 \in Copies /\ Updated(a, Len(posted[a]), 1) \in Update
      BY <3>1, AccountsAssumption DEF Copies, Update
    <3>3. Updated(a, Len(posted[a]), 1) \in processed
      BY <1>2, <3>1, <3>2
    <3>4. QED
      BY <1>1, <3>2, <3>3 DEF IInv, WriteOK
  <2>3. QED
    BY <2>1, <2>2
<1>3. QED
  BY <1>1, <1>2, SMTT(40) DEF IInv, WriteOK, Balance

-----------------------------------------------------------------------------
(* The initial state. *)

LEMMA InitOK == Init => IInv
<1> SUFFICES ASSUME Init PROVE IInv
  OBVIOUS
<1> USE DEF Init
<1>1. AccountsTypeOK /\ CallOK
  BY AccountsAssumption DEF AccountsInit, AccountsTypeOK, CallOK, Request
<1>2. Handlers
  BY DEF Handlers, OpenerOK, UpdaterOK
<1>3. RangesOK
  BY DEF RangesOK, Verdicts
<1>4. EventsOK
  BY DEF EventsOK
<1>5. DepositOK /\ SettlingOK
  BY DEF DepositOK, DepositOf, SettlingOK, FlowOf, SeededOf, OpenerOn, Idle
<1>6. WriteOK
  BY DEF WriteOK
<1>7. QED
  BY <1>1, <1>2, <1>3, <1>4, <1>5, <1>6 DEF IInv

-----------------------------------------------------------------------------
(* Clients and accounts *)

\* The steps of customer-service keep its own state in order.
LEMMA AccountsStep ==
  ASSUME AccountsTypeOK, CallOK, AccountsNext
  PROVE  AccountsTypeOK' /\ CallOK' /\ announced \subseteq announced' /\ UNCHANGED inputs
<1> USE AccountsAssumption DEF Request
<1>1. CASE \E c \in Client : FindClient(c)
  BY <1>1 DEF FindClient, Goto, AccountsTypeOK, CallOK, inputs
<1>2. CASE \E c \in Client : InsertClient(c)
  BY <1>2 DEF InsertClient, EmailTaken, DocumentTaken, Goto, AccountsTypeOK, CallOK, inputs
<1>3. CASE \E a \in Account : FindOwner(a)
  BY <1>3 DEF FindOwner, Goto, AccountsTypeOK, CallOK, inputs
<1>4. CASE \E a \in Account : InsertAccount(a)
  BY <1>4 DEF InsertAccount, Goto, AccountsTypeOK, CallOK, inputs
<1>5. CASE \E r \in Request : Announce(r)
  BY <1>5 DEF Announce, Goto, AccountsTypeOK, CallOK, inputs
<1>6. CASE \E r \in Request : RequestFails(r)
  BY <1>6 DEF RequestFails, Fault, Goto, AccountsTypeOK, CallOK, inputs
<1>7. CASE CustomerCrash
  BY <1>7 DEF CustomerCrash, Fault, AccountsTypeOK, CallOK, inputs
<1>8. QED
  BY <1>1, <1>2, <1>3, <1>4, <1>5, <1>6, <1>7 DEF AccountsNext

\* The steps of transaction-service and the ledger leave it alone but for the
\* count of faults.
LEMMA AccountsKept ==
  ASSUME AccountsTypeOK, CallOK, UNCHANGED <<inputs, requests>>, UNCHANGED faults \/ Fault
  PROVE  AccountsTypeOK' /\ CallOK'
<1>1. faults' \in 0..MaxFaults
  BY AccountsAssumption DEF Fault, AccountsTypeOK
<1>2. QED
  BY <1>1 DEF AccountsTypeOK, CallOK, inputs, requests

-----------------------------------------------------------------------------
(* The handlers *)

\* A step that leaves the opener alone and takes no event from its topic.
LEMMA OpenerKept ==
  ASSUME OpenerOK, UNCHANGED opener, created \subseteq created'
  PROVE  OpenerOK'
BY DEF OpenerOK, Idle

\* A step that leaves the updater alone, and only adds rows and writes.
LEMMA UpdaterKept ==
  ASSUME UpdaterOK, UNCHANGED updater, RangesOK, RangesOK', EventsOK, Update \subseteq Update',
         \A a \in Account : DOMAIN posted[a] \subseteq DOMAIN posted'[a] /\ reached[a] <= reached'[a]
  PROVE  UpdaterOK'
<1>1. CASE updater = Idle
  BY <1>1 DEF UpdaterOK, Idle
<1>2. ASSUME NEW a \in Account, NEW i \in DOMAIN posted[a], NEW stage \in {"write", "mark"},
             NEW n \in Copies, Updated(a, i, n) \in Update,
             updater = [of |-> <<a, i, n>>, stage |-> stage], stage = "mark" => i <= reached[a]
      PROVE  UpdaterOK'
  <2>1. i \in DOMAIN posted'[a]
    OBVIOUS
  <2>2. stage = "mark" => i <= reached'[a]
    <3>1. i \in Nat
      BY DEF EventsOK
    <3>2. reached[a] \in Nat /\ reached'[a] \in Nat /\ reached[a] <= reached'[a]
      BY DEF RangesOK
    <3>3. QED
      BY ONLY <1>2, <3>1, <3>2
  <2>3. Updated(a, i, n) \in Update'
    BY <1>2
  <2>4. QED
    BY <1>2, <2>1, <2>2, <2>3 DEF UpdaterOK, Updated
<1>3. QED
  BY <1>1, <1>2 DEF UpdaterOK

-----------------------------------------------------------------------------
(* Rows, events and writes *)

\* The rows so far stay as they are, and others may follow.
PostedGrows ==
  \A a \in Account :
    /\ Len(posted[a]) <= Len(posted'[a])
    /\ \A i \in DOMAIN posted[a] : i \in DOMAIN posted'[a] /\ posted'[a][i] = posted[a][i]

\* The events that may be published grow with the rows.
LEMMA UpdateGrows ==
  ASSUME PostedGrows, repeated \subseteq repeated'
  PROVE  Update \subseteq Update'
BY DEF Update, PostedGrows, Updated

\* The copies are copies of rows.
LEMMA RepeatedOK ==
  ASSUME EventsOK, PostedGrows, UNCHANGED repeated
  PROVE  repeated' \subseteq
           UNION {{Updated(a, i, n) : i \in DOMAIN posted'[a], n \in Copies} : a \in Account}
BY DEF EventsOK, PostedGrows

\* Nothing but rows and publications is added.
LEMMA EventsKept ==
  ASSUME EventsOK, PostedGrows, posted' \in [Account -> Seq(Nat)], announced \subseteq announced',
         repeated \subseteq repeated',
         repeated' \subseteq
           UNION {{Updated(a, i, n) : i \in DOMAIN posted'[a], n \in Copies} : a \in Account},
         created \subseteq created',
         created' \subseteq {Opened(a, n) : a \in announced' \cap Account, n \in Copies},
         processed' \subseteq processed \cup created' \cup Update'
  PROVE  EventsOK'
<1>1. Update \subseteq Update'
  BY UpdateGrows
<1>2. QED
  BY <1>1 DEF EventsOK, Updated, Opened

LEMMA PostedKept ==
  ASSUME EventsOK, UNCHANGED posted
  PROVE  PostedGrows /\ posted' \in [Account -> Seq(Nat)]
BY DEF EventsOK, PostedGrows

LEMMA PostOK ==
  ASSUME EventsOK, NEW a \in Account, NEW b \in Nat, Post(a, b)
  PROVE  PostedGrows /\ posted' \in [Account -> Seq(Nat)]
<1>1. posted[a] \in Seq(Nat)
  BY DEF EventsOK
<1>2. /\ Append(posted[a], b) \in Seq(Nat)
      /\ Len(Append(posted[a], b)) = Len(posted[a]) + 1
      /\ Len(posted[a]) \in Nat
      /\ \A i \in 1..Len(posted[a]) : Append(posted[a], b)[i] = posted[a][i]
      /\ DOMAIN posted[a] = 1..Len(posted[a])
      /\ DOMAIN Append(posted[a], b) = 1..(Len(posted[a]) + 1)
  BY <1>1
<1>3. posted' = [posted EXCEPT ![a] = Append(posted[a], b)]
  BY DEF Post
<1>4. posted' \in [Account -> Seq(Nat)]
  BY <1>2, <1>3 DEF EventsOK
<1>5. ASSUME NEW x \in Account
      PROVE  /\ Len(posted[x]) <= Len(posted'[x])
             /\ \A i \in DOMAIN posted[x] : i \in DOMAIN posted'[x] /\ posted'[x][i] = posted[x][i]
  <2>1. CASE x = a
    BY <1>2, <1>3, <2>1 DEF EventsOK
  <2>2. CASE x # a
    BY <1>3, <2>2 DEF EventsOK
  <2>3. QED
    BY <2>1, <2>2
<1>6. QED
  BY <1>4, <1>5 DEF PostedGrows

\* A balance is a natural number.
LEMMA BalanceOK ==
  ASSUME EventsOK, NEW a \in Account
  PROVE  Balance(a) \in Nat
BY DEF EventsOK, Balance

\* A step that writes nothing and marks no BalanceUpdated event.
LEMMA WritesKept ==
  ASSUME WriteOK, EventsOK, RangesOK, PostedGrows, posted' \in [Account -> Seq(Nat)], UNCHANGED writes,
         \A a \in Account, i \in Nat, n \in Copies :
           Updated(a, i, n) \in processed' => Updated(a, i, n) \in processed
  PROVE  WriteOK'
<1> SUFFICES ASSUME NEW a \in Account
             PROVE  /\ reached[a] \in 0..Len(posted'[a])
                    /\ projection[a] \in {None, 0} \cup {posted'[a][i] : i \in DOMAIN posted'[a]}
                    /\ projection[a] # None /\ a \notin disorder =>
                         projection[a] = IF reached[a] = 0 THEN 0 ELSE posted'[a][reached[a]]
                    /\ \A i \in Nat, n \in Copies : Updated(a, i, n) \in processed' => i <= reached[a]
  BY DEF WriteOK, writes, Updated
<1>1. posted[a] \in Seq(Nat) /\ posted'[a] \in Seq(Nat) /\ Len(posted[a]) <= Len(posted'[a])
      /\ \A i \in DOMAIN posted[a] : i \in DOMAIN posted'[a] /\ posted'[a][i] = posted[a][i]
  BY DEF EventsOK, PostedGrows
<1>2. reached[a] # 0 => reached[a] \in DOMAIN posted[a]
  BY <1>1 DEF WriteOK
<1>3. reached[a] \in 0..Len(posted'[a])
  BY <1>1 DEF WriteOK
<1>4. projection[a] \in {None, 0} \cup {posted'[a][i] : i \in DOMAIN posted'[a]}
  BY <1>1 DEF WriteOK
<1>5. projection[a] # None /\ a \notin disorder =>
        projection[a] = IF reached[a] = 0 THEN 0 ELSE posted'[a][reached[a]]
  BY <1>1, <1>2 DEF WriteOK
<1>6. QED
  BY <1>3, <1>4, <1>5 DEF WriteOK

\* Writing the seed, or a row, is either the latest write or disorder.
LEMMA WriteStep ==
  ASSUME WriteOK, EventsOK, RangesOK, NEW a \in Account, NEW i \in 0..Len(posted[a]),
         NEW b, b = IF i = 0 THEN 0 ELSE posted[a][i],
         Write(a, b, i), UNCHANGED <<posted, processed>>
  PROVE  /\ WriteOK' /\ i <= reached'[a]
         /\ projection' \in [Account -> Nat \cup {None}] /\ reached' \in [Account -> Nat]
         /\ disorder' \subseteq Account
         /\ \A x \in Account : reached[x] <= reached'[x]
         /\ projection'[a] # None
         /\ \A x \in Account : projection[x] # None => projection'[x] # None
<1>1. posted[a] \in Seq(Nat) /\ DOMAIN posted[a] = 1..Len(posted[a]) /\ Len(posted[a]) \in Nat
      /\ i \in Nat /\ reached[a] \in Nat
  BY DEF EventsOK, RangesOK
<1>2. b \in Nat /\ (b = 0 \/ \E j \in DOMAIN posted[a] : b = posted[a][j])
  <2>1. CASE i = 0
    BY <2>1
  <2>2. CASE i # 0
    <3>1. i \in DOMAIN posted[a] /\ b = posted[a][i]
      BY <1>1, <2>2
    <3>2. QED
      BY <1>1, <3>1
  <2>3. QED
    BY <2>1, <2>2
<1>3. projection' = [projection EXCEPT ![a] = b]
      /\ reached' = [reached EXCEPT ![a] = IF i > reached[a] THEN i ELSE reached[a]]
      /\ disorder' = IF i < reached[a] THEN disorder \cup {a} ELSE disorder
  BY DEF Write, Upsert
<1>4. reached'[a] = (IF i > reached[a] THEN i ELSE reached[a]) /\ projection'[a] = b
      /\ \A x \in Account \ {a} : reached'[x] = reached[x] /\ projection'[x] = projection[x]
                                /\ (x \in disorder' <=> x \in disorder)
  BY <1>3 DEF RangesOK
<1>5. reached[a] \in 0..Len(posted[a]) /\ reached'[a] \in 0..Len(posted[a])
      /\ i <= reached'[a] /\ reached[a] <= reached'[a]
  BY <1>1, <1>4 DEF WriteOK
<1>6. WriteOK'
  <2> SUFFICES ASSUME NEW x \in Account
               PROVE  /\ reached'[x] \in 0..Len(posted[x])
                      /\ projection'[x] \in {None, 0} \cup {posted[x][j] : j \in DOMAIN posted[x]}
                      /\ projection'[x] # None /\ x \notin disorder' =>
                           projection'[x] = IF reached'[x] = 0 THEN 0 ELSE posted[x][reached'[x]]
                      /\ \A j \in Nat, n \in Copies :
                           Updated(x, j, n) \in processed => j <= reached'[x]
    BY DEF WriteOK, Updated
  <2>1. CASE x # a
    BY <1>4, <2>1 DEF WriteOK
  <2>2. CASE x = a
    <3>1. \A j \in Nat, n \in Copies : Updated(a, j, n) \in processed => j <= reached'[a]
      BY <1>1, <1>5 DEF WriteOK
    <3>2. a \notin disorder' => reached'[a] = i
      BY <1>1, <1>3, <1>4
    <3>3. QED
      BY <1>2, <1>4, <1>5, <2>2, <3>1, <3>2
  <2>3. QED
    BY <2>1, <2>2
<1>7. projection' \in [Account -> Nat \cup {None}] /\ reached' \in [Account -> Nat]
      /\ disorder' \subseteq Account
  BY <1>1, <1>2, <1>3 DEF RangesOK
<1>8. ASSUME NEW x \in Account PROVE reached[x] <= reached'[x]
  <2>1. CASE x = a
    BY <1>5, <2>1
  <2>2. CASE x # a
    <3>1. reached'[x] = reached[x] /\ reached[x] \in Nat
      BY <1>4, <2>2 DEF RangesOK
    <3>2. QED
      BY ONLY <3>1
  <2>3. QED
    BY <2>1, <2>2
<1>9. projection'[a] # None /\ \A x \in Account : projection[x] # None => projection'[x] # None
  BY <1>2, <1>4, ProjectionAssumption
<1>10. QED
  BY <1>5, <1>6, <1>7, <1>8, <1>9

-----------------------------------------------------------------------------
(* Deposits *)

\* A step that neither moves the opener nor touches the deposits, and marks no
\* AccountCreated event.
LEMMA DepositsKept ==
  ASSUME DepositOK, UNCHANGED <<initial, deposits, opener, troubled>>,
         \A a \in Account, n \in Copies : Opened(a, n) \in processed' => Opened(a, n) \in processed
  PROVE  DepositOK'
BY DEF DepositOK, DepositOf, OpenerOn, Subject, deposits, Opened

\* The two kinds of events are told apart by their subject.
LEMMA KindsDiffer == \A a, n, b, i, m : Opened(a, n) # Updated(b, i, m)
BY DEF Opened, Updated

\* No BalanceUpdated event is an AccountCreated one.
LEMMA NoneOpened ==
  ASSUME EventsOK
  PROVE  \A a, n : Opened(a, n) \notin Update
BY KindsDiffer DEF Update, EventsOK

\* A step that moves no deposit and takes no account out of the projection,
\* nor the opener past the seed of an account that has none.
LEMMA SettlingKept ==
  ASSUME SettlingOK, UNCHANGED <<asked, settling>>,
         \A a \in Account : projection[a] # None => projection'[a] # None,
         \A a \in Account :
           OpenerOn(a, {"mark", "lookup", "create", "commit"})' =>
             OpenerOn(a, {"mark", "lookup", "create", "commit"}) \/ projection'[a] # None
  PROVE  SettlingOK'
<1>1. UNCHANGED <<pending, owed, credited, rejected, mishaps>>
  BY DEF settling
<1>2. ASSUME NEW a \in Account PROVE FlowOf(a)' /\ SeededOf(a)'
  BY <1>1 DEF SettlingOK, FlowOf, SeededOf
<1>3. QED
  BY <1>2 DEF SettlingOK

\* The deposit is requested, once.
LEMMA AskOK ==
  ASSUME DepositOK, SettlingOK, RangesOK, NEW a \in Account, OpenerOn(a, {"commit"}), Ask(a),
         opener' = Idle, troubled \subseteq troubled',
         UNCHANGED <<initial, deposit, owed, credited, rejected, mishaps, projection, processed>>
  PROVE  /\ DepositOK' /\ SettlingOK'
         /\ asked' \in [Account -> Nat] /\ pending' \in [Account -> Nat]
<1>1. asked[a] = 0 /\ deposit[a] = 1
  BY DEF DepositOK, DepositOf
<1>2. asked' = [asked EXCEPT ![a] = 1] /\ pending' = [pending EXCEPT ![a] = pending[a] + 1]
  BY <1>1 DEF Ask, More, RangesOK
<1>3. asked' \in [Account -> Nat] /\ pending' \in [Account -> Nat]
      /\ asked'[a] = 1 /\ pending'[a] = pending[a] + 1 /\ pending[a] \in Nat
      /\ \A x \in Account \ {a} : asked'[x] = asked[x] /\ pending'[x] = pending[x]
  BY <1>2 DEF RangesOK
<1>4. \A x \in Account : /\ ~OpenerOn(x, {"commit"})'
                         /\ ~OpenerOn(x, {"lookup", "create", "commit"})'
                         /\ ~OpenerOn(x, {"mark", "lookup", "create", "commit"})'
  BY DEF OpenerOn, Idle
<1>5. \A x \in Account \ {a} : /\ ~OpenerOn(x, {"commit"})
                               /\ ~OpenerOn(x, {"lookup", "create", "commit"})
                               /\ ~OpenerOn(x, {"mark", "lookup", "create", "commit"})
  BY DEF OpenerOn
<1>6. ASSUME NEW x \in Account PROVE DepositOf(x)'
  <2>1. CASE x = a
    BY <1>1, <1>3, <1>4, <2>1 DEF DepositOf
  <2>2. CASE x # a
    BY <1>3, <1>4, <1>5, <2>2 DEF DepositOK, DepositOf, Opened
  <2>3. QED
    BY <2>1, <2>2
<1>7. ASSUME NEW x \in Account PROVE FlowOf(x)' /\ SeededOf(x)'
  <2>1. /\ owed[x] \in Nat /\ credited[x] \in Nat /\ rejected[x] \in Nat /\ mishaps[x] \in Nat
        /\ FlowOf(x) /\ SeededOf(x)
    BY DEF RangesOK, SettlingOK
  <2>2. CASE x = a
    <3>1. FlowOf(a)'
      BY <1>1, <1>3, <2>1, <2>2 DEF FlowOf
    <3>2. projection[a] # None
      BY <2>1, <2>2 DEF SeededOf, OpenerOn
    <3>3. QED
      BY <2>2, <3>1, <3>2 DEF SeededOf
  <2>3. CASE x # a
    BY <1>3, <1>4, <2>1, <2>3 DEF FlowOf, SeededOf
  <2>4. QED
    BY <2>2, <2>3
<1>8. QED
  BY <1>3, <1>6, <1>7 DEF DepositOK, SettlingOK

\* A fault in the opener: after the mark the account is in trouble.
LEMMA StopOK ==
  ASSUME DepositOK, SettlingOK, RangesOK, OpenerOK, OpenerStops,
         UNCHANGED <<initial, projection, processed>>
  PROVE  /\ DepositOK' /\ SettlingOK' /\ OpenerOK' /\ troubled' \subseteq Account
         /\ asked' \in [Account -> Nat] /\ pending' \in [Account -> Nat]
<1>1. OpenerOK'
  BY DEF OpenerStops, OpenerOK, Idle
<1>2. troubled' \subseteq Account
  BY DEF OpenerStops, OpenerOK, Marked, Subject, RangesOK, Idle
<1>3. \A a \in Account : OpenerOn(a, {"lookup", "create", "commit"}) => a \in troubled'
  BY DEF OpenerStops, Marked, OpenerOn
<1>4. \A a \in Account : OpenerOn(a, {"commit"}) => a \in troubled'
  BY <1>3 DEF OpenerOn
<1>5. troubled \subseteq troubled' /\ opener' = Idle
      /\ UNCHANGED <<deposit, owed, credited, rejected, mishaps>>
  BY DEF OpenerStops
<1>6. CASE UNCHANGED <<asked, pending>>
  <2>1. DepositOK'
    BY <1>3, <1>4, <1>5, <1>6 DEF DepositOK, DepositOf, OpenerOn, Subject, Idle, Opened
  <2>2. SettlingOK'
    <3>1. \A a \in Account : ~OpenerOn(a, {"mark", "lookup", "create", "commit"})'
      BY <1>5 DEF OpenerOn, Idle
    <3>2. QED
      BY <1>5, <1>6, <3>1, SettlingKept DEF settling
  <2>3. QED
    BY <1>1, <1>2, <1>6, <2>1, <2>2 DEF RangesOK
<1>7. CASE OpenerAt("commit") /\ Ask(Subject)
  <2>1. PICK a \in Account : a = Subject
    BY <1>7 DEF OpenerOK, OpenerAt, Subject, Idle
  <2>2. OpenerOn(a, {"commit"}) /\ Ask(a)
    BY <1>7, <2>1 DEF OpenerOn, OpenerAt
  <2>3. QED
    BY <1>1, <1>2, <1>5, <2>2, AskOK
<1>8. QED
  BY <1>6, <1>7 DEF OpenerStops

\* The opener is at work on account a and copy n.
LEMMA Working ==
  ASSUME OpenerOK, NEW stage \in {"seed", "mark", "lookup", "create", "commit"}, OpenerAt(stage)
  PROVE  \E a \in Account, n \in Copies :
           /\ opener = [of |-> <<a, n>>, stage |-> stage]
           /\ Subject = a /\ opener.of[2] = n
           /\ Opened(a, n) \in created
           /\ \A next : next # "idle" /\ OpenerGoes(next) =>
                opener' = [of |-> <<a, n>>, stage |-> next]
BY DEF OpenerOK, OpenerAt, Subject, OpenerGoes, Idle

\* What a step of the opener leaves alone.
LEMMA OpenerFrame ==
  ASSUME IInv, UNCHANGED <<accountsVars, topics, updater>>,
         RangesOK', OpenerOK', DepositOK', SettlingOK', WriteOK', processed' \subseteq processed \cup created,
         \A a \in Account : reached[a] <= reached'[a]
  PROVE  IInv'
<1>1. AccountsTypeOK' /\ CallOK'
  BY AccountsKept DEF IInv, accountsVars
<1>2. PostedGrows /\ posted' \in [Account -> Seq(Nat)]
  BY PostedKept DEF IInv, topics
<1>3. EventsOK'
  <2>1. created' \subseteq {Opened(a, n) : a \in announced' \cap Account, n \in Copies}
    BY DEF IInv, EventsOK, topics, accountsVars, requests
  <2>2. announced \subseteq announced' /\ created' = created /\ repeated' = repeated
    BY DEF topics, accountsVars, requests
  <2>3. QED
    BY <1>2, <2>1, <2>2, EventsKept, RepeatedOK DEF IInv
<1>4. UpdaterOK'
  <2>1. /\ \A a \in Account : DOMAIN posted[a] \subseteq DOMAIN posted'[a]
        /\ Update \subseteq Update'
    BY DEF topics, Update
  <2>2. QED
    BY <2>1, UpdaterKept DEF IInv, Handlers
<1>5. QED
  BY <1>1, <1>3, <1>4 DEF IInv, Handlers

\* Each step of the AccountCreated handler.
LEMMA OpenerStepOK ==
  ASSUME IInv, (\E a \in Account, n \in Copies : OpenAccount(a, n)) \/ Opener
  PROVE  IInv'
<1>1. OpenerOK /\ RangesOK /\ EventsOK /\ DepositOK /\ SettlingOK /\ WriteOK
  BY DEF IInv, Handlers
<1>2. PostedGrows /\ posted' \in [Account -> Seq(Nat)]
  BY <1>1, PostedKept
     DEF OpenAccount, Opener, Seed, MarkOpened, LookupDeposit, CreateDeposit, RequestDeposit, topics
<1>3. ASSUME NEW a \in Account, NEW n \in Copies, OpenAccount(a, n) PROVE IInv'
  <2>1. OpenerOK'
    BY <1>3 DEF OpenAccount, OpenerOK, topics
  <2>2. DepositOK'
    BY <1>1, <1>3 DEF OpenAccount, DepositOK, DepositOf, OpenerOn, Subject, Idle, Opened, accountsVars, inputs,
                      deposits, bank
  <2>3. WriteOK' /\ RangesOK' /\ \A x \in Account : reached[x] <= reached'[x]
    <3>1. UNCHANGED <<source, deposit, asked, pending, owed, credited, rejected, mishaps, verdict,
                      troubled, writes>>
      BY <1>3 DEF OpenAccount, deposits, bank, settling, withdrawals
    <3>2. WriteOK'
      BY <1>1, <1>2, <1>3, WritesKept DEF OpenAccount, Updated
    <3>3. QED
      BY <1>1, <3>1, <3>2 DEF RangesOK, writes
  <2>4. SettlingOK'
    BY <1>1, <1>3, SettlingKept DEF OpenAccount, OpenerOn, deposits, bank, writes
  <2>5. QED
    BY <1>3, <2>1, <2>2, <2>3, <2>4, OpenerFrame DEF OpenAccount
<1>4. CASE Seed
  <2>1. PICK a \in Account, n \in Copies :
          /\ opener = [of |-> <<a, n>>, stage |-> "seed"]
          /\ Subject = a /\ Opened(a, n) \in created
          /\ opener' = [of |-> <<a, n>>, stage |-> "mark"]
    BY <1>1, <1>4, Working DEF Seed
  <2>2. Write(a, 0, 0) /\ 0 \in 0..Len(posted[a]) /\ UNCHANGED <<posted, processed>>
    BY <1>1, <1>4, <2>1 DEF Seed, topics, EventsOK
  <2>3. /\ WriteOK' /\ projection' \in [Account -> Nat \cup {None}] /\ reached' \in [Account -> Nat]
        /\ disorder' \subseteq Account
        /\ \A x \in Account : reached[x] <= reached'[x]
        /\ projection'[a] # None
        /\ \A x \in Account : projection[x] # None => projection'[x] # None
    BY <1>1, <2>2, WriteStep
  <2>4. RangesOK'
    BY <1>1, <1>4, <2>3 DEF Seed, RangesOK, deposits, bank, settling, withdrawals
  <2>5. OpenerOK'
    BY <1>4, <2>1 DEF Seed, OpenerOK, topics
  <2>6. DepositOK'
    BY <1>1, <1>4, <2>1 DEF Seed, DepositOK, DepositOf, OpenerOn, Subject, Opened, accountsVars, inputs,
                            deposits, bank
  <2>7. SettlingOK'
    <3>1. \A x \in Account : OpenerOn(x, {"mark", "lookup", "create", "commit"})' => x = a
      BY <2>1 DEF OpenerOn, Subject
    <3>2. QED
      BY <1>1, <1>4, <2>3, <3>1, SettlingKept DEF Seed, deposits, bank
  <2>8. QED
    BY <1>4, <2>3, <2>4, <2>5, <2>6, <2>7, OpenerFrame DEF Seed
<1>5. CASE MarkOpened
  <2>1. PICK a \in Account, n \in Copies :
          /\ opener = [of |-> <<a, n>>, stage |-> "mark"]
          /\ Subject = a /\ opener.of[2] = n /\ Opened(a, n) \in created
          /\ OpenerGoes("lookup") => opener' = [of |-> <<a, n>>, stage |-> "lookup"]
    BY <1>1, <1>5, Working DEF MarkOpened
  <2>2. /\ initial[a] > 0 => opener' = [of |-> <<a, n>>, stage |-> "lookup"]
        /\ ~(initial[a] > 0) => opener' = Idle
        /\ processed' = processed \cup {Opened(a, n)}
    BY <1>5, <2>1 DEF MarkOpened, OpenerGoes
  <2>3. OpenerOK'
    BY <1>5, <2>1, <2>2 DEF MarkOpened, OpenerOK, topics
  <2>4. WriteOK' /\ RangesOK' /\ \A x \in Account : reached[x] <= reached'[x]
    <3>1. UNCHANGED <<source, deposit, asked, pending, owed, credited, rejected, mishaps, verdict,
                      troubled, writes>>
      BY <1>5 DEF MarkOpened, deposits, bank, settling, withdrawals
    <3>2. WriteOK'
      BY <1>1, <1>2, <1>5, <2>2, WritesKept, KindsDiffer DEF MarkOpened
    <3>3. QED
      BY <1>1, <3>1, <3>2 DEF RangesOK, writes
  <2>5. UNCHANGED <<initial, deposit, asked, troubled, settling, projection>>
    BY <1>5 DEF MarkOpened, accountsVars, inputs, deposits, bank, writes
  <2>6. \A x \in Account \ {a} : \A m \in Copies :
          Opened(x, m) \in processed' => Opened(x, m) \in processed
    BY <2>2 DEF Opened
  <2>7. \A x \in Account : ~OpenerOn(x, {"commit"}) /\ ~OpenerOn(x, {"lookup", "create", "commit"})
    BY <2>1 DEF OpenerOn
  <2>8. (\A x \in Account : ~OpenerOn(x, {"commit"})') /\ (initial[a] > 0 => OpenerOn(a, {"lookup", "create", "commit"})')
    BY <2>2 DEF OpenerOn, Idle, Subject
  <2>9. DepositOK'
    BY <1>1, <2>5, <2>6, <2>7, <2>8 DEF DepositOK, DepositOf, Opened
  <2>10. SettlingOK'
    <3>1. \A x \in Account :
            OpenerOn(x, {"mark", "lookup", "create", "commit"})' =>
              OpenerOn(x, {"mark", "lookup", "create", "commit"})
      BY <2>1, <2>2 DEF OpenerOn, Subject, Idle
    <3>2. QED
      BY <1>1, <2>5, <3>1, SettlingKept
  <2>11. QED
    BY <1>5, <2>1, <2>2, <2>3, <2>4, <2>9, <2>10, OpenerFrame DEF MarkOpened
<1>6. CASE LookupDeposit
  <2>1. PICK a \in Account, n \in Copies :
          /\ opener = [of |-> <<a, n>>, stage |-> "lookup"]
          /\ Subject = a /\ Opened(a, n) \in created
          /\ OpenerGoes("create") => opener' = [of |-> <<a, n>>, stage |-> "create"]
    BY <1>1, <1>6, Working DEF LookupDeposit
  <2>2. /\ deposit[a] = 0 => opener' = [of |-> <<a, n>>, stage |-> "create"]
        /\ deposit[a] # 0 => opener' = Idle
    BY <1>6, <2>1 DEF LookupDeposit, OpenerGoes, KeyFree
  <2>3. OpenerOK'
    BY <1>6, <2>1, <2>2 DEF LookupDeposit, OpenerOK, topics
  <2>4. WriteOK' /\ RangesOK' /\ \A x \in Account : reached[x] <= reached'[x]
    <3>1. UNCHANGED <<source, deposit, asked, pending, owed, credited, rejected, mishaps, verdict,
                      troubled, writes>>
      BY <1>6 DEF LookupDeposit, deposits, bank, settling, withdrawals
    <3>2. WriteOK'
      BY <1>1, <1>2, <1>6, WritesKept DEF LookupDeposit, Updated
    <3>3. QED
      BY <1>1, <3>1, <3>2 DEF RangesOK, writes
  <2>5. UNCHANGED <<initial, deposit, asked, troubled, processed, settling, projection>>
    BY <1>6 DEF LookupDeposit, accountsVars, inputs, deposits, bank, writes
  <2>6. \A x \in Account :
          /\ ~OpenerOn(x, {"commit"})
          /\ x # a => ~OpenerOn(x, {"lookup", "create", "commit"})
    BY <2>1 DEF OpenerOn
  <2>7. (\A x \in Account : ~OpenerOn(x, {"commit"})')
        /\ (deposit[a] = 0 => OpenerOn(a, {"lookup", "create", "commit"})')
    BY <2>2 DEF OpenerOn, Idle, Subject
  <2>8. deposit[a] # 0 => asked[a] = 1 \/ a \in troubled
    <3>1. asked[a] \in Nat /\ deposit[a] \in Nat /\ DepositOf(a) /\ ~OpenerOn(a, {"commit"})
      BY <1>1, <2>6 DEF RangesOK, DepositOK
    <3>2. QED
      BY <3>1 DEF DepositOf
  <2>9. DepositOK'
    BY <1>1, <2>5, <2>6, <2>7, <2>8 DEF DepositOK, DepositOf, Opened
  <2>10. SettlingOK'
    <3>1. \A x \in Account :
            OpenerOn(x, {"mark", "lookup", "create", "commit"})' =>
              OpenerOn(x, {"mark", "lookup", "create", "commit"})
      BY <2>1, <2>2 DEF OpenerOn, Subject, Idle
    <3>2. QED
      BY <1>1, <2>5, <3>1, SettlingKept
  <2>11. QED
    BY <1>6, <2>3, <2>4, <2>9, <2>10, OpenerFrame DEF LookupDeposit
<1>7. CASE CreateDeposit
  <2>1. PICK a \in Account, n \in Copies :
          /\ opener = [of |-> <<a, n>>, stage |-> "create"]
          /\ Subject = a /\ Opened(a, n) \in created
          /\ OpenerGoes("commit") => opener' = [of |-> <<a, n>>, stage |-> "commit"]
    BY <1>1, <1>7, Working DEF CreateDeposit
  <2>2. /\ opener' = [of |-> <<a, n>>, stage |-> "commit"]
        /\ deposit[a] = 0 /\ deposit' = [deposit EXCEPT ![a] = 1]
    BY <1>1, <1>7, <2>1 DEF CreateDeposit, KeyFree, RangesOK
  <2>3. OpenerOK'
    BY <1>7, <2>1, <2>2 DEF CreateDeposit, OpenerOK, topics
  <2>4. WriteOK' /\ \A x \in Account : reached[x] <= reached'[x]
    <3>1. UNCHANGED <<writes, processed>>
      BY <1>7 DEF CreateDeposit
    <3>2. WriteOK'
      BY <1>1, <1>2, <3>1, WritesKept DEF Updated
    <3>3. QED
      BY <1>1, <3>1, <3>2 DEF RangesOK, writes
  <2>12. RangesOK'
    BY <1>1, <1>7, <2>2 DEF CreateDeposit, RangesOK, bank, settling, withdrawals, writes
  <2>5. UNCHANGED <<initial, asked, troubled, processed, settling, projection>>
    BY <1>7 DEF CreateDeposit, accountsVars, inputs, bank, writes
  <2>6. \A x \in Account :
          /\ ~OpenerOn(x, {"commit"})
          /\ x # a => ~OpenerOn(x, {"lookup", "create", "commit"})
    BY <2>1 DEF OpenerOn
  <2>7. \A x \in Account : OpenerOn(x, {"commit"})' <=> x = a
    BY <2>2 DEF OpenerOn, Subject
  <2>8. OpenerOn(a, {"lookup", "create", "commit"})'
    BY <2>2 DEF OpenerOn, Subject
  <2>9. asked[a] = 0
    BY <1>1, <2>2 DEF DepositOK, DepositOf, RangesOK
  <2>10. DepositOK'
    <3>1. ASSUME NEW x \in Account, x # a PROVE deposit'[x] = deposit[x]
      BY <1>1, <2>2, <3>1 DEF RangesOK
    <3>2. deposit'[a] = 1
      BY <1>1, <2>2 DEF RangesOK
    <3>3. QED
      BY <1>1, <2>5, <2>6, <2>7, <2>8, <2>9, <3>1, <3>2 DEF DepositOK, DepositOf, Opened
  <2>11. SettlingOK'
    <3>1. \A x \in Account :
            OpenerOn(x, {"mark", "lookup", "create", "commit"})' =>
              OpenerOn(x, {"mark", "lookup", "create", "commit"})
      BY <2>1, <2>2 DEF OpenerOn, Subject
    <3>2. QED
      BY <1>1, <2>5, <3>1, SettlingKept
  <2>13. QED
    BY <1>7, <2>3, <2>4, <2>10, <2>11, <2>12, OpenerFrame DEF CreateDeposit
<1>8. CASE RequestDeposit
  <2>1. PICK a \in Account, n \in Copies :
          /\ opener = [of |-> <<a, n>>, stage |-> "commit"]
          /\ Subject = a /\ Opened(a, n) \in created
    BY <1>1, <1>8, Working DEF RequestDeposit
  <2>2. OpenerOn(a, {"commit"}) /\ Ask(a) /\ opener' = Idle
    BY <1>8, <2>1 DEF RequestDeposit, OpenerGoes, OpenerOn
  <2>3. UNCHANGED <<initial, deposit, owed, credited, rejected, mishaps, troubled, processed,
                    source, verdict, projection, reached, disorder>>
    BY <1>8 DEF RequestDeposit, accountsVars, inputs, withdrawals, writes
  <2>4. OpenerOK'
    BY <2>2 DEF OpenerOK, Idle
  <2>5. WriteOK' /\ \A x \in Account : reached[x] <= reached'[x]
    <3>1. UNCHANGED <<writes, processed>>
      BY <1>8 DEF RequestDeposit
    <3>2. WriteOK'
      BY <1>1, <1>2, <3>1, WritesKept DEF Updated
    <3>3. QED
      BY <1>1, <3>1, <3>2 DEF RangesOK, writes
  <2>6. DepositOK' /\ SettlingOK' /\ asked' \in [Account -> Nat] /\ pending' \in [Account -> Nat]
    BY <1>1, <2>2, <2>3, AskOK
  <2>7. RangesOK'
    BY <1>1, <2>3, <2>6 DEF RangesOK
  <2>8. QED
    BY <1>8, <2>4, <2>5, <2>6, <2>7, OpenerFrame DEF RequestDeposit
<1>9. QED
  BY <1>3, <1>4, <1>5, <1>6, <1>7, <1>8 DEF Opener

-----------------------------------------------------------------------------
(* The other steps *)

\* What a step of the updater leaves alone.
LEMMA UpdaterFrame ==
  ASSUME IInv, UNCHANGED <<inputs, requests, topics, opener, deposits, bank, troubled>>,
         UNCHANGED faults \/ Fault,
         UpdaterOK', RangesOK', WriteOK', processed' \subseteq processed \cup Update,
         \A a \in Account : projection[a] # None => projection'[a] # None
  PROVE  IInv'
<1>1. OpenerOK /\ EventsOK /\ DepositOK /\ SettlingOK
  BY DEF IInv, Handlers
<1>2. PostedGrows /\ posted' \in [Account -> Seq(Nat)]
  BY <1>1, PostedKept DEF topics
<1>3. AccountsTypeOK' /\ CallOK' /\ OpenerOK'
  BY <1>1, AccountsKept, OpenerKept DEF IInv, topics
<1>4. EventsOK'
  <2>1. Update' = Update /\ created' = created /\ announced' = announced
    BY DEF Update, topics, requests
  <2>2. created' \subseteq {Opened(a, n) : a \in announced' \cap Account, n \in Copies}
    BY <1>1, <2>1 DEF EventsOK
  <2>3. processed' \subseteq processed \cup created' \cup Update'
    BY <2>1
  <2>4. QED
    BY <1>1, <1>2, <2>1, <2>2, <2>3, EventsKept, RepeatedOK DEF topics
<1>5. DepositOK'
  <2>1. \A a \in Account, n \in Copies : Opened(a, n) \notin Update
    BY <1>1, NoneOpened
  <2>2. QED
    BY <1>1, <2>1, DepositsKept DEF inputs
<1>6. SettlingOK'
  BY <1>1, SettlingKept DEF OpenerOn, Subject, deposits, bank
<1>7. QED
  BY <1>3, <1>4, <1>5, <1>6 DEF IInv, Handlers

\* Each step of the BalanceUpdated handler.
LEMMA UpdaterStepOK ==
  ASSUME IInv,
         \/ \E a \in Account : \E i \in DOMAIN posted[a], n \in Copies : UpdateAccount(a, i, n)
         \/ Updater \/ UpdaterFails
  PROVE  IInv'
<1>1. UpdaterOK /\ RangesOK /\ EventsOK /\ WriteOK
  BY DEF IInv, Handlers
<1>2. PostedGrows /\ posted' \in [Account -> Seq(Nat)]
  BY <1>1, PostedKept DEF UpdateAccount, Updater, WriteBalance, MarkUpdated, UpdaterFails, topics
<1>3. ASSUME NEW a \in Account, NEW i \in DOMAIN posted[a], NEW n \in Copies, UpdateAccount(a, i, n)
      PROVE  IInv'
  <2>1. UpdaterOK'
    BY <1>3 DEF UpdateAccount, UpdaterOK, Update, topics
  <2>2. RangesOK' /\ WriteOK'
    BY <1>1, <1>2, <1>3, WritesKept
       DEF UpdateAccount, RangesOK, deposits, bank, writes, settling, withdrawals, Updated
  <2>3. QED
    BY <1>3, <2>1, <2>2, UpdaterFrame DEF UpdateAccount, accountsVars, writes
<1>4. ASSUME NEW stage \in {"write", "mark"}, updater.stage = stage
      PROVE  \E a \in Account, i \in Nat, n \in Copies :
               /\ i \in DOMAIN posted[a]
               /\ updater = [of |-> <<a, i, n>>, stage |-> stage] /\ Updated(a, i, n) \in Update
               /\ stage = "mark" => i <= reached[a]
  BY <1>1, <1>4 DEF UpdaterOK, Idle, EventsOK
<1>5. CASE WriteBalance
  <2>1. PICK a \in Account, i \in Nat, n \in Copies :
          /\ i \in DOMAIN posted[a]
          /\ updater = [of |-> <<a, i, n>>, stage |-> "write"] /\ Updated(a, i, n) \in Update
    BY <1>4, <1>5 DEF WriteBalance
  <2>2. Write(a, posted[a][i], i) /\ updater' = [of |-> <<a, i, n>>, stage |-> "mark"]
    BY <1>5, <2>1 DEF WriteBalance
  <2>3. i \in 1..Len(posted[a]) /\ i # 0 /\ i \in 0..Len(posted[a])
    BY <1>1, <2>1 DEF EventsOK
  <2>4. UNCHANGED <<posted, processed>>
    BY <1>5 DEF WriteBalance, topics
  <2>5. WriteOK' /\ i <= reached'[a]
        /\ projection' \in [Account -> Nat \cup {None}] /\ reached' \in [Account -> Nat]
        /\ disorder' \subseteq Account
        /\ \A x \in Account : projection[x] # None => projection'[x] # None
    BY <1>1, <2>2, <2>3, <2>4, WriteStep
  <2>6. RangesOK'
    BY <1>1, <1>5, <2>5 DEF WriteBalance, RangesOK, deposits, bank, settling, withdrawals
  <2>7. UpdaterOK'
    <3>1. Update' = Update
      BY <1>5 DEF WriteBalance, topics, Update
    <3>2. Updated(a, i, n) \in Update'
      BY <2>1, <3>1
    <3>3. i \in DOMAIN posted'[a]
      BY <2>1, <2>4
    <3>4. QED
      BY <2>2, <2>5, <3>2, <3>3 DEF UpdaterOK, Updated
  <2>8. QED
    BY <1>5, <2>5, <2>6, <2>7, UpdaterFrame DEF WriteBalance, accountsVars
<1>6. CASE MarkUpdated
  <2>1. PICK a \in Account, i \in Nat, n \in Copies :
          /\ i \in DOMAIN posted[a] /\ i <= reached[a]
          /\ updater = [of |-> <<a, i, n>>, stage |-> "mark"] /\ Updated(a, i, n) \in Update
    BY <1>4, <1>6 DEF MarkUpdated
  <2>2. processed' = processed \cup {Updated(a, i, n)} /\ updater' = Idle
    BY <1>6, <2>1 DEF MarkUpdated
  <2>3. Updated(a, i, n) \in Update
    BY <2>1
  <2>4. UpdaterOK'
    BY <2>2 DEF UpdaterOK, Idle
  <2>5. UNCHANGED <<source, deposit, asked, pending, owed, credited, rejected, mishaps, verdict,
                    troubled, projection, reached, disorder, posted>>
    BY <1>6 DEF MarkUpdated, deposits, bank, settling, withdrawals, writes, topics
  <2>6. RangesOK'
    BY <1>1, <2>5 DEF RangesOK
  <2>7. WriteOK'
    <3>1. \A x \in Account, j \in Nat, m \in Copies :
            Updated(x, j, m) \in processed' => j <= reached[x]
      BY <1>1, <2>1, <2>2 DEF WriteOK, Updated
    <3>2. QED
      BY <1>1, <2>5, <3>1 DEF WriteOK, Updated
  <2>8. QED
    BY <1>6, <2>2, <2>3, <2>4, <2>5, <2>6, <2>7, UpdaterFrame DEF MarkUpdated, accountsVars
<1>7. CASE UpdaterFails
  <2>1. UpdaterOK'
    BY <1>7 DEF UpdaterFails, UpdaterOK, Idle
  <2>2. RangesOK' /\ WriteOK'
    BY <1>1, <1>2, <1>7, WritesKept
       DEF UpdaterFails, RangesOK, deposits, bank, writes, settling, withdrawals, Updated
  <2>3. QED
    BY <1>7, <2>1, <2>2, UpdaterFrame DEF UpdaterFails, writes
<1>8. QED
  BY <1>3, <1>5, <1>6, <1>7 DEF Updater

\* A fault in the opener, or in both handlers.
LEMMA FaultStepOK ==
  ASSUME IInv, OpenerFails \/ ServiceCrash
  PROVE  IInv'
<1>1. OpenerOK /\ UpdaterOK /\ RangesOK /\ EventsOK /\ WriteOK /\ DepositOK /\ SettlingOK
  BY DEF IInv, Handlers
<1>2. /\ UNCHANGED <<inputs, requests, topics, processed, withdrawals, writes>>
      /\ Fault /\ OpenerStops /\ (UNCHANGED updater \/ updater' = Idle)
  BY DEF OpenerFails, ServiceCrash
<1>3. PostedGrows /\ posted' \in [Account -> Seq(Nat)]
  BY <1>1, <1>2, PostedKept DEF topics
<1>4. /\ DepositOK' /\ SettlingOK' /\ OpenerOK' /\ troubled' \subseteq Account
      /\ asked' \in [Account -> Nat] /\ pending' \in [Account -> Nat]
  BY <1>1, <1>2, StopOK DEF inputs, writes
<1>5. AccountsTypeOK' /\ CallOK'
  BY <1>2, AccountsKept DEF IInv
<1>6. RangesOK'
  BY <1>1, <1>2, <1>4 DEF OpenerStops, RangesOK, writes, withdrawals
<1>7. WriteOK'
  BY <1>1, <1>2, <1>3, WritesKept DEF Updated
<1>8. UpdaterOK'
  <2>1. /\ \A a \in Account :
             DOMAIN posted[a] \subseteq DOMAIN posted'[a] /\ reached[a] <= reached'[a]
        /\ Update \subseteq Update'
    BY <1>1, <1>2 DEF topics, writes, RangesOK, Update
  <2>2. CASE UNCHANGED updater
    BY <1>1, <1>6, <2>1, <2>2, UpdaterKept
  <2>3. CASE updater' = Idle
    BY <2>3 DEF UpdaterOK, Idle
  <2>4. QED
    BY <1>2, <2>2, <2>3
<1>9. EventsOK'
  BY <1>1, <1>2 DEF EventsOK, Update, topics, requests
<1>10. QED
  BY <1>4, <1>5, <1>6, <1>7, <1>8, <1>9 DEF IInv, Handlers

-----------------------------------------------------------------------------
(* customer-service, the relay, the saga and the ledger *)

\* Steps outside the handlers add accounts, publications and rows, and move
\* the deposits that were requested.
LEMMA OutsideFrame ==
  ASSUME IInv, UNCHANGED <<inputs, handlers, processed, deposits, source, writes, troubled>>,
         AccountsTypeOK', CallOK', announced \subseteq announced',
         PostedGrows, posted' \in [Account -> Seq(Nat)],
         repeated \subseteq repeated',
         repeated' \subseteq
           UNION {{Updated(a, i, n) : i \in DOMAIN posted'[a], n \in Copies} : a \in Account},
         created \subseteq created',
         created' \subseteq {Opened(a, n) : a \in announced' \cap Account, n \in Copies},
         verdict' \in [Withdrawal -> Verdicts], CountsOK', SettlingOK'
  PROVE  IInv'
<1>1. OpenerOK /\ UpdaterOK /\ RangesOK /\ EventsOK /\ WriteOK /\ DepositOK
  BY DEF IInv, Handlers
<1>2. UNCHANGED <<opener, updater, deposit, asked, projection, reached, disorder, initial>>
  BY DEF handlers, deposits, writes, inputs
<1>3. RangesOK'
  BY <1>1, <1>2 DEF RangesOK, CountsOK
<1>4. OpenerOK'
  BY <1>1, <1>2, OpenerKept
<1>5. UpdaterOK'
  <2>1. \A a \in Account : DOMAIN posted[a] \subseteq DOMAIN posted'[a] /\ reached[a] <= reached'[a]
    BY <1>1, <1>2 DEF PostedGrows, RangesOK
  <2>2. Update \subseteq Update'
    BY UpdateGrows
  <2>3. QED
    BY <1>1, <1>2, <1>3, <2>1, <2>2, UpdaterKept
<1>6. EventsOK'
  BY <1>1, EventsKept
<1>7. WriteOK'
  BY <1>1, WritesKept DEF Updated
<1>8. DepositOK'
  BY <1>1, <1>2, DepositsKept DEF deposits
<1>9. QED
  BY <1>3, <1>4, <1>5, <1>6, <1>7, <1>8 DEF IInv, Handlers

\* What the saga and the ledger do to the deposit of one account.
LEMMA Moves ==
  ASSUME SettlingOK, NEW a \in Account, UNCHANGED <<asked, opener, projection>>,
         FlowOf(a)', pending'[a] > 0 => pending[a] > 0 \/ asked[a] > 0,
         \A x \in Account \ {a} :
           /\ pending'[x] = pending[x] /\ owed'[x] = owed[x] /\ credited'[x] = credited[x]
           /\ rejected'[x] = rejected[x] /\ mishaps'[x] = mishaps[x]
  PROVE  SettlingOK'
<1>1. SeededOf(a)'
  BY DEF SettlingOK, SeededOf, OpenerOn, Subject
<1>2. ASSUME NEW x \in Account \ {a} PROVE FlowOf(x)' /\ SeededOf(x)'
  BY DEF SettlingOK, FlowOf, SeededOf, OpenerOn, Subject
<1>3. QED
  BY <1>1, <1>2 DEF SettlingOK

\* Counting a deposit up or down changes it alone.
LEMMA MoreLess ==
  ASSUME NEW count \in [Account -> Nat], NEW a \in Account
  PROVE  /\ More(count, a) \in [Account -> Nat] /\ More(count, a)[a] = count[a] + 1
         /\ \A x \in Account \ {a} : More(count, a)[x] = count[x] /\ Less(count, a)[x] = count[x]
         /\ count[a] > 0 => Less(count, a) \in [Account -> Nat]
         /\ Less(count, a)[a] = count[a] - 1
         /\ count[a] \in Nat
BY DEF More, Less

\* Each step of the saga and the ledger on an initial deposit.
LEMMA SettlingStep ==
  ASSUME IInv, NEW a \in Account,
         CheckTarget(a) \/ CatchRejects(a) \/ SettleDeposit(a) \/ DepositAgain(a)
  PROVE  CountsOK' /\ SettlingOK'
<1>1. RangesOK /\ SettlingOK
  BY DEF IInv
<1>2. /\ pending \in [Account -> Nat] /\ owed \in [Account -> Nat] /\ credited \in [Account -> Nat]
      /\ rejected \in [Account -> Nat] /\ mishaps \in [Account -> Nat] /\ asked[a] \in Nat
  BY <1>1 DEF RangesOK
<1>3. /\ pending[a] \in Nat /\ owed[a] \in Nat /\ credited[a] \in Nat
      /\ rejected[a] \in Nat /\ mishaps[a] \in Nat
      /\ pending[a] + owed[a] + credited[a] + rejected[a] <= asked[a] + mishaps[a]
      /\ rejected[a] <= mishaps[a]
  BY <1>1, <1>2 DEF SettlingOK, FlowOf
<1>4. CASE CheckTarget(a)
  <2>1. pending[a] > 0 /\ projection[a] # None
    BY <1>1, <1>4 DEF CheckTarget, SettlingOK, SeededOf
  <2>2. /\ pending' = Less(pending, a) /\ owed' = More(owed, a)
        /\ UNCHANGED <<credited, rejected, mishaps, asked, opener, projection>>
    BY <1>4, <2>1 DEF CheckTarget, deposits, handlers, writes
  <2>3. CountsOK'
    BY <1>2, <2>1, <2>2, MoreLess DEF CountsOK
  <2>4. pending'[a] = pending[a] - 1 /\ owed'[a] = owed[a] + 1
        /\ \A x \in Account \ {a} : pending'[x] = pending[x] /\ owed'[x] = owed[x]
    BY <1>2, <2>2, MoreLess
  <2>5. FlowOf(a)'
    BY <1>3, <2>2, <2>4 DEF FlowOf
  <2>6. QED
    BY <1>1, <2>1, <2>2, <2>3, <2>4, <2>5, Moves
<1>5. CASE CatchRejects(a)
  <2>1. /\ pending[a] > 0
        /\ pending' = Less(pending, a) /\ rejected' = More(rejected, a) /\ mishaps' = More(mishaps, a)
        /\ owed' = owed \/ owed' = More(owed, a)
        /\ UNCHANGED <<credited, asked, opener, projection>>
    BY <1>5 DEF CatchRejects, Mishap, deposits, handlers, writes
  <2>2. CountsOK'
    BY <1>2, <2>1, MoreLess DEF CountsOK
  <2>3. /\ pending'[a] = pending[a] - 1 /\ rejected'[a] = rejected[a] + 1
        /\ mishaps'[a] = mishaps[a] + 1 /\ owed'[a] \in {owed[a], owed[a] + 1}
        /\ \A x \in Account \ {a} : /\ pending'[x] = pending[x] /\ owed'[x] = owed[x]
                                    /\ rejected'[x] = rejected[x] /\ mishaps'[x] = mishaps[x]
    BY <1>2, <2>1, MoreLess, SMTT(30)
  <2>4. FlowOf(a)'
    BY <1>2, <1>3, <2>1, <2>3 DEF FlowOf
  <2>5. QED
    BY <1>1, <2>1, <2>2, <2>3, <2>4, Moves
<1>6. CASE SettleDeposit(a)
  <2>1. /\ owed[a] > 0 /\ owed' = Less(owed, a) /\ credited' = More(credited, a)
        /\ UNCHANGED <<pending, rejected, mishaps, asked, opener, projection>>
    BY <1>6 DEF SettleDeposit, deposits, handlers, writes
  <2>2. CountsOK'
    BY <1>2, <2>1, MoreLess DEF CountsOK
  <2>3. /\ owed'[a] = owed[a] - 1 /\ credited'[a] = credited[a] + 1
        /\ \A x \in Account \ {a} : owed'[x] = owed[x] /\ credited'[x] = credited[x]
    BY <1>2, <2>1, MoreLess
  <2>4. FlowOf(a)'
    BY <1>3, <2>1, <2>3 DEF FlowOf
  <2>5. QED
    BY <1>1, <2>1, <2>2, <2>3, <2>4, Moves
<1>7. CASE DepositAgain(a)
  <2>1. /\ mishaps' = More(mishaps, a)
        /\ \/ asked[a] > 0 /\ pending' = More(pending, a) /\ owed' = owed
           \/ owed' = More(owed, a) /\ pending' = pending
        /\ UNCHANGED <<credited, rejected, asked, opener, projection>>
    BY <1>7 DEF DepositAgain, Mishap, deposits, handlers, writes
  <2>2. CountsOK'
    BY <1>2, <2>1, MoreLess DEF CountsOK
  <2>3. /\ mishaps'[a] = mishaps[a] + 1
        /\ \/ asked[a] > 0 /\ pending'[a] = pending[a] + 1 /\ owed'[a] = owed[a]
           \/ owed'[a] = owed[a] + 1 /\ pending'[a] = pending[a]
        /\ \A x \in Account \ {a} : /\ pending'[x] = pending[x] /\ owed'[x] = owed[x]
                                    /\ mishaps'[x] = mishaps[x]
    BY <1>2, <2>1, MoreLess
  <2>4. FlowOf(a)'
    BY <1>2, <1>3, <2>1, <2>3 DEF FlowOf
  <2>5. pending'[a] > 0 => pending[a] > 0 \/ asked[a] > 0
    BY <2>3
  <2>6. QED
    BY <1>1, <2>1, <2>2, <2>3, <2>4, <2>5, Moves
<1>8. QED
  BY <1>4, <1>5, <1>6, <1>7

\* Each step of the other services.
LEMMA OutsideStepOK ==
  ASSUME IInv,
         \/ CustomerStep
         \/ \E a \in Account :
              Relayed(a) \/ CheckTarget(a) \/ CatchRejects(a) \/ SettleDeposit(a) \/ DepositAgain(a)
         \/ \E a \in Account : \E i \in DOMAIN posted[a] : UpdatedAgain(a, i)
         \/ \E w \in Withdrawal : CheckFunds(w) \/ Settle(w)
  PROVE  IInv'
<1>1. RangesOK /\ EventsOK /\ SettlingOK /\ AccountsTypeOK /\ CallOK
  BY DEF IInv
<1>2. UNCHANGED <<handlers, processed, deposits, source, writes, troubled>>
  BY DEF CustomerStep, Relayed, CheckTarget, CatchRejects, SettleDeposit, DepositAgain,
         UpdatedAgain, CheckFunds, Settle, bank, withdrawals
<1>3. AccountsTypeOK' /\ CallOK' /\ announced \subseteq announced' /\ UNCHANGED inputs
  <2>1. CASE CustomerStep
    BY <1>1, <2>1, AccountsStep DEF CustomerStep
  <2>2. CASE UNCHANGED <<inputs, requests>> /\ (UNCHANGED faults \/ Fault)
    BY <1>1, <2>2, AccountsKept DEF requests
  <2>3. QED
    BY <2>1, <2>2 DEF Relayed, CheckTarget, CatchRejects, SettleDeposit, DepositAgain, Mishap,
                      UpdatedAgain, CheckFunds, Settle, accountsVars
<1>4. PostedGrows /\ posted' \in [Account -> Seq(Nat)]
  <2>1. ASSUME NEW a \in Account, SettleDeposit(a) PROVE PostedGrows /\ posted' \in [Account -> Seq(Nat)]
    <3>1. Balance(a) + initial[a] \in Nat
      <4>1. initial[a] \in Nat
        BY <1>1, AccountsAssumption DEF AccountsTypeOK
      <4>2. Balance(a) \in Nat
        BY <1>1, BalanceOK
      <4>3. QED
        BY <4>1, <4>2
    <3>2. QED
      BY <1>1, <2>1, <3>1, PostOK DEF SettleDeposit
  <2>2. ASSUME NEW w \in Withdrawal, Settle(w) PROVE PostedGrows /\ posted' \in [Account -> Seq(Nat)]
    <3>1. source[w] \in Account /\ Amount[w] \in Nat /\ Balance(source[w]) \in Nat
      BY <1>1, BalanceOK, ProjectionAssumption DEF RangesOK
    <3>2. CASE Balance(source[w]) >= Amount[w]
      <4>1. Balance(source[w]) - Amount[w] \in Nat
        BY <3>1, <3>2
      <4>2. Post(source[w], Balance(source[w]) - Amount[w])
        BY <2>2, <3>2 DEF Settle
      <4>3. QED
        BY <1>1, <3>1, <4>1, <4>2, PostOK
    <3>3. CASE ~(Balance(source[w]) >= Amount[w])
      BY <1>1, <2>2, <3>3, PostedKept DEF Settle
    <3>4. QED
      BY <3>2, <3>3
  <2>3. CASE UNCHANGED posted
    BY <1>1, <2>3, PostedKept
  <2>4. QED
    BY <2>1, <2>2, <2>3 DEF CustomerStep, Relayed, CheckTarget, CatchRejects, DepositAgain,
                            UpdatedAgain, CheckFunds, topics
<1>5. created \subseteq created'
      /\ created' \subseteq {Opened(a, n) : a \in announced' \cap Account, n \in Copies}
  <2>1. ASSUME NEW a \in Account, Relayed(a)
        PROVE  created \subseteq created'
               /\ created' \subseteq {Opened(x, n) : x \in announced' \cap Account, n \in Copies}
    BY <1>1, <1>3, <2>1 DEF Relayed, EventsOK
  <2>2. CASE UNCHANGED created
    BY <1>1, <1>3, <2>2 DEF EventsOK
  <2>3. QED
    BY <2>1, <2>2 DEF CustomerStep, CheckTarget, CatchRejects, SettleDeposit, DepositAgain,
                      UpdatedAgain, CheckFunds, Settle, topics
<1>6. repeated \subseteq repeated' /\ repeated' \subseteq
        UNION {{Updated(a, i, n) : i \in DOMAIN posted'[a], n \in Copies} : a \in Account}
  <2>1. ASSUME NEW a \in Account, NEW i \in DOMAIN posted[a], UpdatedAgain(a, i)
        PROVE  repeated \subseteq repeated' /\ repeated' \subseteq
                 UNION {{Updated(x, j, n) : j \in DOMAIN posted'[x], n \in Copies} : x \in Account}
    <3>1. PICK n \in Copies : repeated' = repeated \cup {Updated(a, i, n)}
      BY <2>1 DEF UpdatedAgain
    <3>2. posted' = posted
      BY <2>1 DEF UpdatedAgain
    <3>3. QED
      BY <1>1, <3>1, <3>2 DEF EventsOK
  <2>2. CASE UNCHANGED repeated
    BY <1>1, <1>4, <2>2, RepeatedOK
  <2>3. QED
    BY <2>1, <2>2 DEF CustomerStep, Relayed, CheckTarget, CatchRejects, SettleDeposit, DepositAgain,
                      CheckFunds, Settle, topics
<1>7. verdict' \in [Withdrawal -> Verdicts]
  BY <1>1 DEF CustomerStep, Relayed, CheckTarget, CatchRejects, SettleDeposit, DepositAgain,
              UpdatedAgain, CheckFunds, Settle, RangesOK, Verdicts, bank, withdrawals
<1>8. CountsOK' /\ SettlingOK'
  <2>1. CASE UNCHANGED settling
    <3>1. UNCHANGED <<asked, projection, opener>>
      BY <1>2 DEF deposits, writes, handlers
    <3>2. SettlingOK'
      BY <1>1, <2>1, <3>1, SettlingKept DEF OpenerOn, Subject
    <3>3. QED
      BY <1>1, <2>1, <3>2 DEF RangesOK, CountsOK, settling
  <2>2. QED
    BY <2>1, SettlingStep DEF CustomerStep, Relayed, UpdatedAgain, CheckFunds, Settle, bank
<1>9. QED
  BY <1>2, <1>3, <1>4, <1>5, <1>6, <1>7, <1>8, OutsideFrame

-----------------------------------------------------------------------------
\* Every step preserves the invariant.
LEMMA StepOK == IInv /\ [Next]_vars => IInv'
<1> SUFFICES ASSUME IInv, [Next]_vars PROVE IInv'
  OBVIOUS
<1>1. CASE UNCHANGED vars
  <2>1. OpenerOK' /\ UpdaterOK'
    BY <1>1 DEF vars, topics, handlers, writes, IInv, Handlers, OpenerOK, UpdaterOK, Update, Idle
  <2>2. UNCHANGED <<accountsVars, topics, updater>>
    BY <1>1 DEF vars, handlers
  <2>3. RangesOK' /\ DepositOK' /\ SettlingOK' /\ WriteOK'
    <3>1. RangesOK'
      BY <1>1 DEF vars, deposits, bank, settling, withdrawals, writes, IInv, RangesOK
    <3>2. DepositOK'
      BY <1>1, DepositsKept DEF vars, handlers, deposits, accountsVars, inputs, IInv
    <3>6. SettlingOK'
      BY <1>1, SettlingKept DEF vars, handlers, deposits, bank, writes, IInv, OpenerOn, Subject
    <3>3. PostedGrows /\ posted' \in [Account -> Seq(Nat)]
      BY <1>1, PostedKept DEF vars, topics, IInv
    <3>4. WriteOK'
      BY <1>1, <3>3, WritesKept DEF vars, IInv, Updated
    <3>5. QED
      BY <3>1, <3>2, <3>4, <3>6
  <2>4. processed' \subseteq processed \cup created /\ \A a \in Account : reached[a] <= reached'[a]
    BY <1>1 DEF vars, writes, IInv, RangesOK
  <2>5. QED
    BY <2>1, <2>2, <2>3, <2>4, OpenerFrame
<1>2. CASE Next
  BY <1>2, OpenerStepOK, UpdaterStepOK, FaultStepOK, OutsideStepOK DEF Next
<1>3. QED
  BY <1>1, <1>2

\* The state of transaction-service's projection stays well formed: only
\* published events are processed, and no balance is negative.
THEOREM TypeCorrect == Spec => []TypeOK
<1>1. QED
  BY GivesType, InitOK, StepOK, PTL DEF Spec

\* An account asks for its initial deposit once, and does so unless a fault
\* came between the mark and the request; only a fault has it rejected, or
\* settled a further time.
THEOREM OneDeposit == Spec => []OneInitialDeposit
<1>1. QED
  BY GivesOneDeposit, InitOK, StepOK, PTL DEF Spec

\* The projection holds only balances the account had, and the latest one when
\* its events are handled in order.
THEOREM Follows == Spec => []ProjectionFollows
<1>1. QED
  BY GivesFollows, InitOK, StepOK, PTL DEF Spec
=============================================================================
