------------------------------- MODULE Credits -------------------------------
(***************************************************************************)
(* Knowledge credits: balances, awards and transfers                       *)
(* (maip-node/src/handlers/economy-core.ts).                               *)
(*                                                                         *)
(* A handler changes balance objects in memory and saves them one store    *)
(* write at a time.  The store holds the objects it returns, so the first  *)
(* write of a transfer, the sender's, already carries the change of a      *)
(* receiver that has a record; a receiver without one reaches the file     *)
(* with the second write; the transaction log comes last.  A crash keeps   *)
(* the writes that were made.                                              *)
(*                                                                         *)
(* The transaction log is kept as what it says each DID received and paid. *)
(*                                                                         *)
(* No handler checks the sign of an amount (economy.ts passes the body of  *)
(* the request on), so an amount is any integer.  Variable below, which no *)
(* action reads, remembers who a request for a negative amount named.      *)
(***************************************************************************)
EXTENDS Integers, FiniteSets, Functions

CONSTANTS Dids,              \* DIDs with credits
          Amounts,           \* amounts awarded and transferred
          MaxRequests,       \* bound: awards and transfers
          MaxCreditCrashes   \* bound: crashes

ASSUME CreditsAssumption ==
  /\ IsFiniteSet(Dids) /\ Amounts \subseteq Int
  /\ MaxRequests \in Nat /\ MaxCreditCrashes \in Nat

VARIABLES balances,       \* store credit-balances.json
          ledger,         \* store credit-transactions.json, in totals per DID
          awarded,        \* credits ever awarded
          requests,       \* requests handled so far
          below,          \* history: DIDs named in a request for a negative amount
          creditCrashes   \* crashes between two writes so far

creditVars == <<balances, ledger, awarded, requests, below, creditCrashes>>

Balance == [exists: BOOLEAN, earned: Int, spent: Int, balance: Int]
NoBalance == [exists |-> FALSE, earned |-> 0, spent |-> 0, balance |-> 0]
NewBalance == [exists |-> TRUE, earned |-> 0, spent |-> 0, balance |-> 0]
Totals == [received: Int, paid: Int]

CreditInit ==
  /\ balances = [d \in Dids |-> NoBalance]
  /\ ledger = [d \in Dids |-> [received |-> 0, paid |-> 0]]
  /\ awarded = 0
  /\ requests = 0
  /\ below = {}
  /\ creditCrashes = 0

\* A request of these DIDs for n.
Request(dids, n) ==
  /\ requests < MaxRequests
  /\ requests' = requests + 1
  /\ below' = IF n < 0 THEN below \cup dids ELSE below
CreditCrash == creditCrashes < MaxCreditCrashes /\ creditCrashes' = creditCrashes + 1

\* A balance object after it earns or spends n.
Earn(b, n) ==
  [exists |-> TRUE, earned |-> b.earned + n, spent |-> b.spent, balance |-> b.balance + n]
Spend(b, n) ==
  [exists |-> TRUE, earned |-> b.earned, spent |-> b.spent + n, balance |-> b.balance - n]

\* The totals of the log after an entry in which the DID receives or pays n.
Receive(t, n) == [received |-> t.received + n, paid |-> t.paid]
Pay(t, n) == [received |-> t.received, paid |-> t.paid + n]

\* getKnowledgeCreditBalance creates what it does not find.
GetBalance(d) ==
  /\ ~balances[d].exists
  /\ balances' = [balances EXCEPT ![d] = NewBalance]
  /\ UNCHANGED <<ledger, awarded, requests, below, creditCrashes>>

\* awardKnowledgeCredits saves the balance, then the mint transaction.
AwardBalance(d, n) ==
  /\ balances' = [balances EXCEPT ![d] = Earn(@, n)]
  /\ awarded' = awarded + n

Award(d, n) ==
  /\ Request({d}, n)
  /\ AwardBalance(d, n)
  /\ ledger' = [ledger EXCEPT ![d] = Receive(@, n)]
  /\ UNCHANGED creditCrashes

AwardCrash(d, n) ==
  /\ Request({d}, n) /\ CreditCrash
  /\ AwardBalance(d, n)
  /\ UNCHANGED ledger

\* Otherwise INSUFFICIENT_CREDITS.  A negative amount always passes.
MayTransfer(from, n) == balances[from].balance >= n

\* Mutation: sender and receiver are copies, and the receiver's is saved last.
TransferredCopies(from, to, n) ==
  [balances EXCEPT ![from] = Spend(balances[from], n), ![to] = Earn(balances[to], n)]

\* The balances after a transfer.  A DID that pays itself is one object when it
\* has a record; when it has none (only an amount that is not positive passes)
\* it is two new ones, and the receiver's replaces the sender's.
Transferred(from, to, n) ==
  LET debited == IF from = to /\ ~balances[to].exists
                 THEN balances
                 ELSE [balances EXCEPT ![from] = Spend(balances[from], n)]
  IN  [debited EXCEPT ![to] = Earn(debited[to], n)]

\* The log with the transaction.
Recorded(from, to, n) ==
  LET paid == [ledger EXCEPT ![from] = Pay(ledger[from], n)]
  IN  [paid EXCEPT ![to] = Receive(paid[to], n)]

\* transferKnowledgeCredits: sender, receiver, transaction.
Transfer(from, to, n) ==
  /\ Request({from, to}, n)
  /\ MayTransfer(from, n)
  /\ balances' = Transferred(from, to, n)
  /\ ledger' = Recorded(from, to, n)
  /\ UNCHANGED <<awarded, creditCrashes>>

\* Mutation: the transaction is recorded before the receiver is saved.
TransferCrashRecorded(from, to, n) ==
  /\ Request({from, to}, n) /\ CreditCrash
  /\ MayTransfer(from, n)
  /\ balances' = IF balances[to].exists
                 THEN Transferred(from, to, n)
                 ELSE [balances EXCEPT ![from] = Spend(@, n)]
  /\ ledger' = Recorded(from, to, n)
  /\ UNCHANGED awarded

\* The crash comes after the sender's write: a receiver without a record never
\* gets one.
TransferCrash(from, to, n) ==
  /\ Request({from, to}, n) /\ CreditCrash
  /\ MayTransfer(from, n)
  /\ balances' = IF balances[to].exists
                 THEN Transferred(from, to, n)
                 ELSE [balances EXCEPT ![from] = Spend(@, n)]
  /\ UNCHANGED <<ledger, awarded>>

\* The crash comes after the receiver's write.
TransferUnrecorded(from, to, n) ==
  /\ Request({from, to}, n) /\ CreditCrash
  /\ MayTransfer(from, n)
  /\ balances' = Transferred(from, to, n)
  /\ UNCHANGED <<ledger, awarded>>

CreditNext ==
  \/ \E d \in Dids : GetBalance(d)
  \/ \E d \in Dids, n \in Amounts : Award(d, n) \/ AwardCrash(d, n)
  \/ \E from, to \in Dids, n \in Amounts :
       Transfer(from, to, n) \/ TransferCrash(from, to, n) \/ TransferUnrecorded(from, to, n)

CreditSpec == CreditInit /\ [][CreditNext]_creditVars

-----------------------------------------------------------------------------
\* Balances, ledger and counters keep their shape.
CreditTypeOK ==
  /\ balances \in [Dids -> Balance]
  /\ ledger \in [Dids -> Totals]
  /\ awarded \in Int
  /\ requests \in 0..MaxRequests
  /\ below \subseteq Dids
  /\ creditCrashes \in 0..MaxCreditCrashes

\* Only a negative amount puts anyone in debt (transferKnowledgeCredits compares
\* the balance with the amount and no more): somebody else's does not.
DebtExplained ==
  \A d \in Dids : balances[d].balance < 0 => d \in below

\* spec/MAIP-PROTOCOL.md:474, "Balance = earned - spent", whatever a DID
\* transfers to whom, itself included, and wherever a crash comes.
BalanceSound ==
  \A d \in Dids :
    /\ balances[d].balance = balances[d].earned - balances[d].spent
    /\ ~balances[d].exists => balances[d] = NoBalance

\* The balances are written before the log.  Until the first crash the log says
\* what was earned, and no more than was spent: only the payment of a negative
\* amount to oneself without a record is in the log and not in the balance.
\* Through crashes the log never says more than the balances of a DID that no
\* request for a negative amount named, whatever others were asked for.
LedgerCovered ==
  \A d \in Dids :
    /\ d \notin below => /\ ledger[d].received <= balances[d].earned
                          /\ ledger[d].paid <= balances[d].spent
    /\ creditCrashes = 0 => /\ ledger[d].received = balances[d].earned
                            /\ ledger[d].paid <= balances[d].spent
                            /\ d \notin below => ledger[d].paid = balances[d].spent

\* All the credits there are.
Circulating == SumFunction([d \in Dids |-> balances[d].balance])

\* Transfers make no credits, whatever the amounts, until a crash comes between
\* the two saves of one for a negative amount: all balances together are never
\* more than what was awarded.  They are exactly that when nothing crashed and no
\* amount was negative.
CreditsConserved ==
  /\ creditCrashes = 0 \/ below = {} => Circulating <= awarded
  /\ creditCrashes = 0 /\ below = {} => Circulating = awarded

=============================================================================
