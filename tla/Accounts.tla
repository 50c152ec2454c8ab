------------------------------ MODULE Accounts ------------------------------
(***************************************************************************)
(* CustomerService of customer-service: opening clients and accounts.      *)
(*                                                                         *)
(* Every request runs concurrently with the others.  The repositories run  *)
(* their INSERTs on the pool, so a client or an account is committed at    *)
(* once; only the outbox row that announces it belongs to the transaction  *)
(* the request opened.                                                     *)
(***************************************************************************)
EXTENDS Naturals, Sequences

CONSTANTS
  Client,     \* requests for a client, each with the id it would give it
  Email,      \* emails, the unique column the service looks up first
  Document,   \* document numbers, unique too but never looked up
  Account,    \* requests for an account, each with the id it would give it
  Opening,    \* initial balances a request may ask for
  MaxFaults   \* bound: failed statements and crashes in a behaviour

ASSUME AccountsAssumption ==
  /\ Client \cap Account = {}
  /\ Opening \subseteq Nat
  /\ MaxFaults \in Nat

VARIABLES
  email,        \* the email of each client request
  document,     \* its document number
  owner,        \* the client each account request names
  initial,      \* the initial balance it asks for
  call,         \* how far each request has got
  rows,         \* clients and accounts stored
  announced,    \* those with a committed outbox row
  faults        \* faults so far

inputs == <<email, document, owner, initial>>
requests == <<call, rows, announced>>
accountsVars == <<inputs, requests, faults>>

Request == Client \cup Account

-----------------------------------------------------------------------------
AccountsInit ==
  /\ email \in [Client -> Email]
  /\ document \in [Client -> Document]
  /\ owner \in [Account -> Client]
  /\ initial \in [Account -> Opening]
  /\ call = [r \in Request |-> "find"]
  /\ rows = {}
  /\ announced = {}
  /\ faults = 0

Goto(r, label) == call' = [call EXCEPT ![r] = label]

Fault ==
  /\ faults < MaxFaults
  /\ faults' = faults + 1

\* findByEmail, and the UNIQUE constraint on clients.email.
NeverTaken(c) == FALSE
EmailTaken(c) == \E d \in rows \cap Client : email[d] = email[c]

DocumentTaken(c) == \E d \in rows \cap Client : document[d] = document[c]

\* createClient answers with a conflict when the email has a client already.
FindClient(c) ==
  /\ call[c] = "find"
  /\ Goto(c, IF EmailTaken(c) THEN "done" ELSE "insert")
  /\ UNCHANGED <<inputs, rows, announced, faults>>

\* createAccount refuses an account for a client that does not exist.
FindOwner(a) ==
  /\ call[a] = "find"
  /\ Goto(a, IF owner[a] \in rows THEN "insert" ELSE "done")
  /\ UNCHANGED <<inputs, rows, announced, faults>>

\* BEGIN on the connection of the request, the INSERT on the pool: committed
\* at once, or refused because another request took the email meanwhile, or
\* another client has the document number.
InsertClient(c) ==
  /\ call[c] = "insert"
  /\ IF EmailTaken(c) \/ DocumentTaken(c)
     THEN Goto(c, "done") /\ UNCHANGED rows
     ELSE Goto(c, "announce") /\ rows' = rows \cup {c}
  /\ UNCHANGED <<inputs, announced, faults>>

InsertAccount(a) ==
  /\ call[a] = "insert"
  /\ Goto(a, "announce")
  /\ rows' = rows \cup {a}
  /\ UNCHANGED <<inputs, announced, faults>>

\* The outbox row and the COMMIT.
Announce(r) ==
  /\ call[r] = "announce"
  /\ Goto(r, "done")
  /\ announced' = announced \cup {r}
  /\ UNCHANGED <<inputs, rows, faults>>

\* A statement fails: ROLLBACK, which leaves the row the pool committed.
RequestFails(r) ==
  /\ call[r] # "done"
  /\ Fault
  /\ Goto(r, "done")
  /\ UNCHANGED <<inputs, rows, announced>>

\* The process dies with the requests in progress.
CustomerCrash ==
  /\ Fault
  /\ call' = [r \in Request |-> IF call[r] = "find" THEN "find" ELSE "done"]
  /\ UNCHANGED <<inputs, rows, announced>>

AccountsNext ==
  \/ \E c \in Client : FindClient(c) \/ InsertClient(c)
  \/ \E a \in Account : FindOwner(a) \/ InsertAccount(a)
  \/ \E r \in Request : Announce(r) \/ RequestFails(r)
  \/ CustomerCrash

\* Every variable stays in its range, every account stored has a client, no
\* two clients share an email or a document, and what is announced is stored.
AccountsTypeOK ==
  /\ email \in [Client -> Email]
  /\ document \in [Client -> Document]
  /\ owner \in [Account -> Client]
  /\ initial \in [Account -> Opening]
  /\ call \in [Request -> {"find", "insert", "announce", "done"}]
  /\ rows \subseteq Request
  /\ announced \subseteq rows
  /\ \A a \in rows \cap Account : owner[a] \in rows
  /\ \A c, d \in rows \cap Client :
       email[c] = email[d] \/ document[c] = document[d] => c = d
  /\ faults \in 0..MaxFaults
=============================================================================
