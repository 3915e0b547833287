--------------------------- MODULE Economy_proofs ---------------------------
(***************************************************************************)
(* Proofs about modules Credits and Reputation, for any DIDs, amounts and  *)
(* guardians.                                                              *)
(***************************************************************************)
EXTENDS Economy, SumFacts, TLAPS

(***************************************************************************)
(* Credits.  What earning and spending make of one balance.                *)
(***************************************************************************)
LEMMA EarnSpend ==
  ASSUME NEW b \in Balance, NEW n \in Int
  PROVE  /\ Earn(b, n) \in Balance
         /\ Earn(b, n).exists
         /\ Earn(b, n).earned = b.earned + n
         /\ Earn(b, n).spent = b.spent
         /\ Earn(b, n).balance = b.balance + n
         /\ Spend(b, n) \in Balance
         /\ Spend(b, n).exists
         /\ Spend(b, n).earned = b.earned
         /\ Spend(b, n).spent = b.spent + n
         /\ Spend(b, n).balance = b.balance - n
BY DEF Earn, Spend, Balance

LEMMA ReceivePay ==
  ASSUME NEW l \in Totals, NEW n \in Int
  PROVE  /\ Receive(l, n) \in Totals
         /\ Receive(l, n).received = l.received + n
         /\ Receive(l, n).paid = l.paid
         /\ Pay(l, n) \in Totals
         /\ Pay(l, n).received = l.received
         /\ Pay(l, n).paid = l.paid + n
BY DEF Receive, Pay, Totals

(***************************************************************************)
(* A balance on its own and beside the totals of the log: what holds       *)
(* always, while no negative amount named its DID, and until a crash.      *)
(***************************************************************************)
Consistent(b) == b.balance = b.earned - b.spent /\ (~b.exists => b = NoBalance)
Fair(b, l) == l.received <= b.earned /\ l.paid <= b.spent /\ b.balance >= 0
Logged(b, l) == l.received = b.earned /\ l.paid <= b.spent
Explains(b, l) == l.received = b.earned /\ l.paid = b.spent

\* The invariant: it is inductive as it stands.
CreditInv == CreditTypeOK /\ BalanceSound /\ DebtExplained /\ LedgerCovered

LEMMA CreditInvInit == CreditInit => CreditInv
<1> SUFFICES ASSUME CreditInit PROVE CreditInv
  OBVIOUS
<1>1. NoBalance \in Balance /\ [received |-> 0, paid |-> 0] \in Totals
  BY DEF NoBalance, Balance, Totals
<1>2. CreditTypeOK
  BY <1>1, CreditsAssumption DEF CreditInit, CreditTypeOK, CreditsAssumption
<1>3. BalanceSound /\ DebtExplained /\ LedgerCovered
  BY DEF CreditInit, BalanceSound, DebtExplained, LedgerCovered, NoBalance
<1>4. QED
  BY <1>2, <1>3 DEF CreditInv

(***************************************************************************)
(* The invariant from what a step does to each DID, and back: the shape    *)
(* shared by all the proofs below.                                         *)
(***************************************************************************)
LEMMA CreditInvFromEach ==
  ASSUME balances' \in [Dids -> Balance], ledger' \in [Dids -> Totals],
         awarded' \in Int, requests' \in 0..MaxRequests, below' \subseteq Dids,
         creditCrashes' \in 0..MaxCreditCrashes,
         \A d \in Dids : Consistent(balances'[d]),
         \A d \in Dids \ below' : Fair(balances'[d], ledger'[d]),
         creditCrashes' = 0 => \A d \in Dids : Logged(balances'[d], ledger'[d]),
         creditCrashes' = 0 => \A d \in Dids \ below' : Explains(balances'[d], ledger'[d])
  PROVE  CreditInv'
<1>1. CreditTypeOK' /\ BalanceSound'
  BY DEF CreditTypeOK, BalanceSound, Consistent
<1>2. \A d \in Dids : balances'[d].balance \in Int
  BY DEF Balance
<1>3. DebtExplained'
  BY <1>2 DEF DebtExplained, Fair
<1>4. LedgerCovered'
  BY DEF LedgerCovered, Fair, Logged, Explains
<1> QED
  BY <1>1, <1>3, <1>4 DEF CreditInv

LEMMA CreditInvNow ==
  ASSUME CreditInv
  PROVE  /\ balances \in [Dids -> Balance] /\ ledger \in [Dids -> Totals]
         /\ awarded \in Int /\ requests \in 0..MaxRequests /\ below \subseteq Dids
         /\ creditCrashes \in 0..MaxCreditCrashes
         /\ \A d \in Dids : Consistent(balances[d])
         /\ \A d \in Dids \ below : Fair(balances[d], ledger[d])
         /\ creditCrashes = 0 => \A d \in Dids : Logged(balances[d], ledger[d])
         /\ creditCrashes = 0 => \A d \in Dids \ below : Explains(balances[d], ledger[d])
<1>1. \A d \in Dids : balances[d].balance \in Int
  BY DEF CreditInv, CreditTypeOK, Balance
<1> QED
  BY <1>1 DEF CreditInv, CreditTypeOK, BalanceSound, DebtExplained, LedgerCovered,
              Consistent, Fair, Logged, Explains

(***************************************************************************)
(* One balance and its totals, through an award or a transfer, with and    *)
(* without the entry in the log.                                           *)
(***************************************************************************)
LEMMA EachDid ==
  ASSUME NEW b \in Balance, NEW l \in Totals, NEW n \in Int
  PROVE  /\ Consistent(b) => Consistent(Earn(b, n)) /\ Consistent(Spend(b, n))
         /\ Fair(b, l) /\ n >= 0 => Fair(Earn(b, n), l) /\ Fair(Earn(b, n), Receive(l, n))
         /\ Fair(b, l) /\ n >= 0 /\ b.balance >= n =>
              Fair(Spend(b, n), l) /\ Fair(Spend(b, n), Pay(l, n))
         /\ Logged(b, l) => Logged(Earn(b, n), Receive(l, n)) /\ Logged(Spend(b, n), Pay(l, n))
         /\ Explains(b, l) =>
              Explains(Earn(b, n), Receive(l, n)) /\ Explains(Spend(b, n), Pay(l, n))
<1>1. /\ b.earned \in Int /\ b.spent \in Int /\ b.balance \in Int
      /\ l.received \in Int /\ l.paid \in Int
  BY DEF Balance, Totals
<1> DEFINE e == Earn(b, n)
           s == Spend(b, n)
           r == Receive(l, n)
           p == Pay(l, n)
<1>2. /\ e.exists /\ e.earned = b.earned + n /\ e.spent = b.spent /\ e.balance = b.balance + n
      /\ s.exists /\ s.earned = b.earned /\ s.spent = b.spent + n /\ s.balance = b.balance - n
  BY EarnSpend
<1>3. /\ r.received = l.received + n /\ r.paid = l.paid
      /\ p.received = l.received /\ p.paid = l.paid + n
  BY ReceivePay
<1> HIDE DEF e, s, r, p
<1>4. Consistent(b) => Consistent(e) /\ Consistent(s)
  BY <1>1, <1>2 DEF Consistent
<1>5. /\ Fair(b, l) /\ n >= 0 => Fair(e, l) /\ Fair(e, r)
      /\ Fair(b, l) /\ n >= 0 /\ b.balance >= n => Fair(s, l) /\ Fair(s, p)
  BY <1>1, <1>2, <1>3 DEF Fair
<1>6. /\ Logged(b, l) => Logged(e, r) /\ Logged(s, p)
      /\ Explains(b, l) => Explains(e, r) /\ Explains(s, p)
  BY <1>1, <1>2, <1>3 DEF Logged, Explains
<1> QED
  BY <1>4, <1>5, <1>6 DEF e, s, r, p

\* A DID that pays itself: with a record it spends and earns, without one it
\* only earns.
PaidItself(b, n) == IF b.exists THEN Earn(Spend(b, n), n) ELSE Earn(b, n)

LEMMA EachSelfPayment ==
  ASSUME NEW b \in Balance, NEW l \in Totals, NEW n \in Int, b.balance >= n, Consistent(b)
  PROVE  LET after == PaidItself(b, n)
             log == Receive(Pay(l, n), n)
         IN  /\ after \in Balance /\ Consistent(after) /\ log \in Totals
             /\ Fair(b, l) /\ n >= 0 => Fair(after, l) /\ Fair(after, log)
             /\ Logged(b, l) => Logged(after, log)
             /\ Explains(b, l) /\ n >= 0 => Explains(after, log)
<1>1. Spend(b, n) \in Balance /\ Pay(l, n) \in Totals
  BY EarnSpend, ReceivePay
<1>2. /\ b.earned \in Int /\ b.spent \in Int /\ b.balance \in Int
      /\ l.received \in Int /\ l.paid \in Int
  BY DEF Balance, Totals
<1>3. CASE b.exists
  <2>1. PaidItself(b, n) = Earn(Spend(b, n), n)
    BY <1>3 DEF PaidItself
  <2>2. /\ Consistent(Spend(b, n))
        /\ Logged(b, l) => Logged(Spend(b, n), Pay(l, n))
        /\ Explains(b, l) => Explains(Spend(b, n), Pay(l, n))
        /\ Fair(b, l) /\ n >= 0 => Fair(Spend(b, n), l) /\ Fair(Spend(b, n), Pay(l, n))
    BY EachDid
  <2>3. LET s == Spend(b, n)
            p == Pay(l, n)
        IN  /\ Earn(s, n) \in Balance /\ Receive(p, n) \in Totals
            /\ Consistent(s) => Consistent(Earn(s, n))
            /\ Logged(s, p) => Logged(Earn(s, n), Receive(p, n))
            /\ Explains(s, p) => Explains(Earn(s, n), Receive(p, n))
            /\ Fair(s, l) /\ n >= 0 => Fair(Earn(s, n), l)
            /\ Fair(s, p) /\ n >= 0 => Fair(Earn(s, n), Receive(p, n))
    BY <1>1, EachDid, EarnSpend, ReceivePay
  <2> QED
    BY <2>1, <2>2, <2>3
<1>4. CASE ~b.exists
  <2>1. PaidItself(b, n) = Earn(b, n) /\ b.earned = 0 /\ b.spent = 0 /\ b.balance = 0 /\ n <= 0
    BY <1>2, <1>4 DEF PaidItself, Consistent, NoBalance
  <2> DEFINE e == Earn(b, n)
             log == Receive(Pay(l, n), n)
  <2>2. log \in Totals /\ log.received = l.received + n /\ log.paid = l.paid + n
    BY <1>1, ReceivePay
  <2>3. /\ e \in Balance /\ Consistent(e)
        /\ e.earned = n /\ e.spent = 0 /\ e.balance = n
    <3>1. e \in Balance /\ e.earned = b.earned + n /\ e.spent = b.spent /\ e.balance = b.balance + n
      BY EarnSpend
    <3>2. Consistent(e)
      BY EachDid
    <3> HIDE DEF e
    <3> QED BY <2>1, <3>1, <3>2
  <2>4. PaidItself(b, n) = e
    BY <2>1
  <2> HIDE DEF e, log
  <2>5. /\ Fair(b, l) /\ n >= 0 => Fair(e, l) /\ Fair(e, log)
        /\ Logged(b, l) => Logged(e, log)
        /\ Explains(b, l) /\ n >= 0 => Explains(e, log)
    BY <1>2, <2>1, <2>2, <2>3 DEF Fair, Logged, Explains
  <2> QED
    BY <2>2, <2>3, <2>4, <2>5 DEF log
<1> QED
  BY <1>3, <1>4

(***************************************************************************)
(* A transfer, by the DID it concerns.                                     *)
(***************************************************************************)
LEMMA TransferredBalances ==
  ASSUME CreditTypeOK, NEW from \in Dids, NEW to \in Dids, NEW n \in Int
  PROVE  /\ Transferred(from, to, n) \in [Dids -> Balance]
         /\ \A d \in Dids : Transferred(from, to, n)[d] =
              IF d = from
              THEN IF d = to THEN PaidItself(balances[d], n) ELSE Spend(balances[d], n)
              ELSE IF d = to THEN Earn(balances[d], n) ELSE balances[d]
<1> DEFINE debited == IF from = to /\ ~balances[to].exists THEN balances
                      ELSE [balances EXCEPT ![from] = Spend(balances[from], n)]
<1>1. balances \in [Dids -> Balance]
  BY DEF CreditTypeOK
<1>2. Transferred(from, to, n) = [debited EXCEPT ![to] = Earn(debited[to], n)]
  BY DEF Transferred
<1>3. \A d \in Dids : Spend(balances[d], n) \in Balance
  BY <1>1, EarnSpend
<1>4. /\ debited \in [Dids -> Balance]
      /\ \A d \in Dids : debited[d] =
           IF d = from /\ ~(from = to /\ ~balances[to].exists)
           THEN Spend(balances[d], n) ELSE balances[d]
  BY <1>1, <1>3
<1> HIDE DEF debited
<1>5. Earn(debited[to], n) \in Balance
  BY <1>4, EarnSpend
<1>6. /\ Transferred(from, to, n) \in [Dids -> Balance]
      /\ \A d \in Dids : Transferred(from, to, n)[d] =
           IF d = to THEN Earn(debited[d], n) ELSE debited[d]
  BY <1>2, <1>4, <1>5
<1>7. ASSUME NEW d \in Dids
      PROVE  Transferred(from, to, n)[d] =
               IF d = from
               THEN IF d = to THEN PaidItself(balances[d], n) ELSE Spend(balances[d], n)
               ELSE IF d = to THEN Earn(balances[d], n) ELSE balances[d]
  <2>1. CASE d = from /\ d = to
    BY <1>4, <1>6, <2>1 DEF PaidItself
  <2>2. CASE ~(d = from /\ d = to)
    BY <1>4, <1>6, <2>2
  <2> QED BY <2>1, <2>2
<1> QED
  BY <1>6, <1>7

LEMMA RecordedTotals ==
  ASSUME CreditTypeOK, NEW from \in Dids, NEW to \in Dids, NEW n \in Int
  PROVE  /\ Recorded(from, to, n) \in [Dids -> Totals]
         /\ \A d \in Dids : Recorded(from, to, n)[d] =
              IF d = from THEN IF d = to THEN Receive(Pay(ledger[d], n), n) ELSE Pay(ledger[d], n)
              ELSE IF d = to THEN Receive(ledger[d], n) ELSE ledger[d]
<1> DEFINE paid == [ledger EXCEPT ![from] = Pay(ledger[from], n)]
<1>1. ledger \in [Dids -> Totals]
  BY DEF CreditTypeOK
<1>2. Recorded(from, to, n) = [paid EXCEPT ![to] = Receive(paid[to], n)]
  BY DEF Recorded
<1>3. /\ paid \in [Dids -> Totals]
      /\ \A d \in Dids : paid[d] = IF d = from THEN Pay(ledger[d], n) ELSE ledger[d]
  BY <1>1, ReceivePay
<1> HIDE DEF paid
<1>4. Receive(paid[to], n) \in Totals
  BY <1>3, ReceivePay
<1> QED
  BY <1>2, <1>3, <1>4

LEMMA GetBalanceStep ==
  ASSUME CreditInv, NEW d \in Dids, GetBalance(d)
  PROVE  CreditInv'
<1> USE CreditInvNow
<1>1. /\ balances[d] = NoBalance
      /\ balances' = [balances EXCEPT ![d] = NewBalance]
      /\ UNCHANGED <<ledger, awarded, requests, below, creditCrashes>>
  BY DEF GetBalance, Consistent
<1>2. /\ NewBalance \in Balance /\ Consistent(NewBalance)
      /\ Fair(NewBalance, ledger[d]) <=> Fair(NoBalance, ledger[d])
      /\ Logged(NewBalance, ledger[d]) <=> Logged(NoBalance, ledger[d])
      /\ Explains(NewBalance, ledger[d]) <=> Explains(NoBalance, ledger[d])
  BY DEF NewBalance, NoBalance, Balance, Consistent, Fair, Logged, Explains
<1>3. /\ balances' \in [Dids -> Balance]
      /\ \A e \in Dids : balances'[e] = IF e = d THEN NewBalance ELSE balances[e]
  BY <1>1, <1>2
<1> QED
  BY <1>1, <1>2, <1>3, CreditInvFromEach

\* A request names these DIDs: only they can come below by it.
LEMMA RequestNames ==
  ASSUME NEW dids \in SUBSET Dids, NEW n \in Int, Request(dids, n), CreditInv
  PROVE  /\ requests' \in 0..MaxRequests /\ below' \subseteq Dids
         /\ \A d \in Dids \ below' : d \notin below /\ (d \in dids => n >= 0)
BY CreditInvNow, CreditsAssumption DEF Request, CreditsAssumption

LEMMA AwardStep ==
  ASSUME CreditInv, NEW d \in Dids, NEW n \in Int, Award(d, n) \/ AwardCrash(d, n)
  PROVE  CreditInv'
<1> USE CreditInvNow
<1>1. /\ balances' = [balances EXCEPT ![d] = Earn(balances[d], n)]
      /\ awarded' \in Int
      /\ creditCrashes' \in 0..MaxCreditCrashes
  BY CreditsAssumption DEF Award, AwardCrash, AwardBalance, CreditCrash, CreditsAssumption
<1>2. /\ requests' \in 0..MaxRequests /\ below' \subseteq Dids
      /\ \A e \in Dids \ below' : e \notin below /\ (e \in {d} => n >= 0)
  BY RequestNames DEF Award, AwardCrash
<1>3. /\ balances' \in [Dids -> Balance]
      /\ \A e \in Dids : balances'[e] = IF e = d THEN Earn(balances[e], n) ELSE balances[e]
  BY <1>1, EarnSpend
<1>4. \A e \in Dids : Consistent(balances'[e])
  BY <1>3, EachDid
<1>5. CASE Award(d, n)
  <2>1. /\ ledger' = [ledger EXCEPT ![d] = Receive(ledger[d], n)]
        /\ creditCrashes' = creditCrashes
    BY <1>5 DEF Award
  <2>2. /\ ledger' \in [Dids -> Totals]
        /\ \A e \in Dids : ledger'[e] = IF e = d THEN Receive(ledger[e], n) ELSE ledger[e]
    BY <2>1, ReceivePay
  <2>3. \A e \in Dids \ below' : Fair(balances'[e], ledger'[e])
    BY <1>2, <1>3, <2>2, EachDid
  <2>4. creditCrashes' = 0 => \A e \in Dids : Logged(balances'[e], ledger'[e])
    BY <1>3, <2>1, <2>2, EachDid
  <2>5. creditCrashes' = 0 => \A e \in Dids \ below' : Explains(balances'[e], ledger'[e])
    BY <1>2, <1>3, <2>1, <2>2, EachDid
  <2> QED
    BY <1>1, <1>2, <1>3, <1>4, <2>2, <2>3, <2>4, <2>5, CreditInvFromEach
<1>6. CASE AwardCrash(d, n)
  <2>1. ledger' = ledger /\ creditCrashes' # 0
    BY <1>6 DEF AwardCrash, CreditCrash
  <2>2. \A e \in Dids \ below' : Fair(balances'[e], ledger'[e])
    BY <1>2, <1>3, <2>1, EachDid
  <2> QED
    BY <1>1, <1>2, <1>3, <1>4, <2>1, <2>2, CreditInvFromEach
<1> QED
  BY <1>5, <1>6

LEMMA TransferStep ==
  ASSUME CreditInv, NEW from \in Dids, NEW to \in Dids, NEW n \in Int,
         \/ Transfer(from, to, n)
         \/ TransferCrash(from, to, n)
         \/ TransferUnrecorded(from, to, n)
  PROVE  CreditInv'
<1> USE CreditInvNow
<1>1. /\ balances[from].balance >= n
      /\ awarded' \in Int
      /\ creditCrashes' \in 0..MaxCreditCrashes
  BY CreditsAssumption
     DEF Transfer, TransferCrash, TransferUnrecorded, MayTransfer, CreditCrash, CreditsAssumption
<1>2. /\ requests' \in 0..MaxRequests /\ below' \subseteq Dids
      /\ \A d \in Dids \ below' : d \notin below /\ (d \in {from, to} => n >= 0)
  BY RequestNames DEF Transfer, TransferCrash, TransferUnrecorded
<1> DEFINE T == Transferred(from, to, n)
<1>3. /\ T \in [Dids -> Balance]
      /\ \A d \in Dids : T[d] =
           IF d = from
           THEN IF d = to THEN PaidItself(balances[d], n) ELSE Spend(balances[d], n)
           ELSE IF d = to THEN Earn(balances[d], n) ELSE balances[d]
  BY TransferredBalances DEF CreditInv
<1> HIDE DEF T
\* The balances are consistent and fair to the old totals.
<1>4. \A d \in Dids : Consistent(T[d])
  BY <1>1, <1>3, EachDid, EachSelfPayment
<1>5. ASSUME NEW d \in Dids \ below' PROVE Fair(T[d], ledger[d])
  <2>1. Fair(balances[d], ledger[d]) /\ (d \in {from, to} => n >= 0)
    BY <1>2
  <2>2. CASE d = from /\ d = to
    BY <1>1, <1>3, <2>1, <2>2, EachSelfPayment
  <2>3. CASE d = from /\ d # to
    BY <1>1, <1>3, <2>1, <2>3, EachDid
  <2>4. CASE d # from
    BY <1>3, <2>1, <2>4, EachDid
  <2> QED BY <2>2, <2>3, <2>4
<1>6. CASE Transfer(from, to, n)
  <2>1. /\ balances' = T
        /\ ledger' = Recorded(from, to, n)
        /\ creditCrashes' = creditCrashes
    BY <1>6 DEF Transfer, T
  <2>2. /\ ledger' \in [Dids -> Totals]
        /\ \A d \in Dids : ledger'[d] =
             IF d = from THEN IF d = to THEN Receive(Pay(ledger[d], n), n) ELSE Pay(ledger[d], n)
             ELSE IF d = to THEN Receive(ledger[d], n) ELSE ledger[d]
    BY <2>1, RecordedTotals DEF CreditInv
  <2>3. ASSUME NEW d \in Dids
        PROVE  /\ d \notin below' => Fair(balances'[d], ledger'[d])
               /\ Logged(balances[d], ledger[d]) => Logged(balances'[d], ledger'[d])
               /\ d \notin below' /\ Explains(balances[d], ledger[d])
                    => Explains(balances'[d], ledger'[d])
    <3>1. d \notin below' => Fair(balances[d], ledger[d]) /\ (d \in {from, to} => n >= 0)
      BY <1>2
    <3>2. CASE d = from /\ d = to
      BY <1>1, <1>3, <2>1, <2>2, <3>1, <3>2, EachSelfPayment
    <3>3. CASE d = from /\ d # to
      BY <1>1, <1>3, <2>1, <2>2, <3>1, <3>3, EachDid
    <3>4. CASE d # from
      BY <1>3, <2>1, <2>2, <3>1, <3>4, EachDid
    <3> QED BY <3>2, <3>3, <3>4
  <2>4. /\ creditCrashes' = 0 => \A d \in Dids : Logged(balances'[d], ledger'[d])
        /\ creditCrashes' = 0 => \A d \in Dids \ below' : Explains(balances'[d], ledger'[d])
    BY <1>2, <2>1, <2>3
  <2> QED
    BY <1>1, <1>2, <1>3, <1>4, <2>1, <2>2, <2>3, <2>4, CreditInvFromEach
<1>7. CASE TransferCrash(from, to, n)
  <2>1. /\ balances' = IF balances[to].exists THEN T
                       ELSE [balances EXCEPT ![from] = Spend(balances[from], n)]
        /\ ledger' = ledger
        /\ creditCrashes' # 0
    BY <1>7 DEF TransferCrash, CreditCrash, T
  <2>2. CASE balances[to].exists
    BY <1>1, <1>2, <1>3, <1>4, <1>5, <2>1, <2>2, CreditInvFromEach
  <2>3. CASE ~balances[to].exists
    <3>1. /\ balances' \in [Dids -> Balance]
          /\ \A d \in Dids : balances'[d] = IF d = from THEN Spend(balances[d], n) ELSE balances[d]
      BY <2>1, <2>3, EarnSpend
    <3>2. \A d \in Dids : Consistent(balances'[d])
      BY <3>1, EachDid
    <3>3. \A d \in Dids \ below' : Fair(balances'[d], ledger'[d])
      BY <1>1, <1>2, <2>1, <3>1, EachDid
    <3> QED
      BY <1>1, <1>2, <2>1, <3>1, <3>2, <3>3, CreditInvFromEach
  <2> QED BY <2>2, <2>3
<1>8. CASE TransferUnrecorded(from, to, n)
  <2>1. balances' = T /\ ledger' = ledger /\ creditCrashes' # 0
    BY <1>8 DEF TransferUnrecorded, CreditCrash, T
  <2> QED
    BY <1>1, <1>2, <1>3, <1>4, <1>5, <2>1, CreditInvFromEach
<1> QED
  BY <1>6, <1>7, <1>8

LEMMA CreditInvStep == CreditInv /\ [CreditNext]_creditVars => CreditInv'
<1> SUFFICES ASSUME CreditInv, [CreditNext]_creditVars PROVE CreditInv'
  OBVIOUS
<1>1. Amounts \subseteq Int
  BY CreditsAssumption DEF CreditsAssumption
<1>2. CASE UNCHANGED creditVars
  BY <1>2, CreditInvNow, CreditInvFromEach DEF creditVars
<1>3. CASE CreditNext
  BY <1>1, <1>3, GetBalanceStep, AwardStep, TransferStep DEF CreditNext
<1> QED
  BY <1>2, <1>3

(***************************************************************************)
(* All the credits together.                                               *)
(***************************************************************************)
InCirculation(b) == SumFunctionOnSet([d \in Dids |-> b[d].balance], Dids)

LEMMA CirculationNumbers ==
  /\ Circulating = InCirculation(balances)
  /\ Circulating' = InCirculation(balances')
BY Zenon DEF Circulating, SumFunction, InCirculation

LEMMA CirculationInt ==
  ASSUME NEW b, \A d \in Dids : b[d].balance \in Int
  PROVE  InCirculation(b) \in Int
<1>1. PICK f : f = [d \in Dids |-> b[d].balance]
  OBVIOUS
<1>2. \A d \in Dids : f[d] \in Int
  BY <1>1
<1> QED BY <1>1, <1>2, SumInt, CreditsAssumption DEF InCirculation

\* What changes one balance changes all together by as much.
LEMMA OneBalance ==
  ASSUME NEW b, NEW c, NEW x \in Dids,
         \A d \in Dids : b[d].balance \in Int /\ c[d].balance \in Int,
         \A d \in Dids \ {x} : c[d].balance = b[d].balance
  PROVE  InCirculation(c) = InCirculation(b) - b[x].balance + c[x].balance
<1>1. PICK f : f = [d \in Dids |-> b[d].balance]
  OBVIOUS
<1>2. PICK g : g = [d \in Dids |-> c[d].balance]
  OBVIOUS
<1>3. /\ \A d \in Dids : f[d] \in Int /\ g[d] \in Int
      /\ \A d \in Dids \ {x} : g[d] = f[d]
      /\ f[x] = b[x].balance /\ g[x] = c[x].balance
  BY <1>1, <1>2
<1>4. SumFunctionOnSet(g, Dids) = SumFunctionOnSet(f, Dids) - f[x] + g[x]
  BY <1>3, SumChange, CreditsAssumption
<1> QED BY <1>1, <1>2, <1>3, <1>4 DEF InCirculation

LEMMA EarnOne ==
  ASSUME NEW b \in [Dids -> Balance], NEW x \in Dids, NEW n \in Int, NEW c
  PROVE  c = [b EXCEPT ![x] = Earn(b[x], n)] => InCirculation(c) = InCirculation(b) + n
<1>h. SUFFICES ASSUME c = [b EXCEPT ![x] = Earn(b[x], n)]
               PROVE  InCirculation(c) = InCirculation(b) + n
  OBVIOUS
<1>1. \A d \in Dids : c[d] = IF d = x THEN Earn(b[x], n) ELSE b[d]
  BY <1>h
<1>2. /\ \A d \in Dids : b[d].balance \in Int
      /\ Earn(b[x], n).balance = b[x].balance + n
  BY EarnSpend DEF Balance
<1>3. \A d \in Dids : b[d].balance \in Int /\ c[d].balance \in Int
  BY <1>1, <1>2
<1>4. InCirculation(c) = InCirculation(b) - b[x].balance + c[x].balance
  BY <1>1, <1>3, OneBalance
<1>5. InCirculation(b) \in Int
  BY <1>2, CirculationInt
<1> QED BY <1>1, <1>2, <1>4, <1>5

LEMMA SpendOne ==
  ASSUME NEW b \in [Dids -> Balance], NEW x \in Dids, NEW n \in Int, NEW c
  PROVE  c = [b EXCEPT ![x] = Spend(b[x], n)] =>
           InCirculation(c) = InCirculation(b) - n /\ c \in [Dids -> Balance]
<1>h. SUFFICES ASSUME c = [b EXCEPT ![x] = Spend(b[x], n)]
               PROVE  InCirculation(c) = InCirculation(b) - n /\ c \in [Dids -> Balance]
  OBVIOUS
<1>1. \A d \in Dids : c[d] = IF d = x THEN Spend(b[x], n) ELSE b[d]
  BY <1>h
<1>2. /\ \A d \in Dids : b[d].balance \in Int
      /\ Spend(b[x], n).balance = b[x].balance - n
      /\ Spend(b[x], n) \in Balance
  BY EarnSpend DEF Balance
<1>3. \A d \in Dids : b[d].balance \in Int /\ c[d].balance \in Int
  BY <1>1, <1>2
<1>4. InCirculation(c) = InCirculation(b) - b[x].balance + c[x].balance
  BY <1>1, <1>3, OneBalance
<1>5. InCirculation(b) \in Int
  BY <1>2, CirculationInt
<1> QED BY <1>h, <1>1, <1>2, <1>4, <1>5

\* A transfer keeps the sum, but for the payment of an amount below zero to
\* oneself without a record, which lowers it.
LEMMA TransferKeepsSum ==
  ASSUME CreditInv, NEW from \in Dids, NEW to \in Dids, NEW n \in Int, MayTransfer(from, n)
  PROVE  /\ InCirculation(Transferred(from, to, n)) <= InCirculation(balances)
         /\ n >= 0 => InCirculation(Transferred(from, to, n)) = InCirculation(balances)
<1>1. balances \in [Dids -> Balance] /\ \A d \in Dids : Consistent(balances[d])
  BY CreditInvNow
<1>2. InCirculation(balances) \in Int
  BY <1>1, CirculationInt DEF Balance
<1>3. CASE from = to /\ ~balances[to].exists
  <2>1. n <= 0
    BY <1>1, <1>3 DEF MayTransfer, Consistent, NoBalance
  <2>2. Transferred(from, to, n) = [balances EXCEPT ![to] = Earn(balances[to], n)]
    BY <1>3 DEF Transferred
  <2>3. InCirculation(Transferred(from, to, n)) = InCirculation(balances) + n
    BY <1>1, <2>2, EarnOne
  <2> QED BY <1>2, <2>1, <2>3
<1>4. CASE ~(from = to /\ ~balances[to].exists)
  <2>1. PICK debited : debited = [balances EXCEPT ![from] = Spend(balances[from], n)]
    OBVIOUS
  <2>2. InCirculation(debited) = InCirculation(balances) - n /\ debited \in [Dids -> Balance]
    BY <1>1, <2>1, SpendOne
  <2>3. Transferred(from, to, n) = [debited EXCEPT ![to] = Earn(debited[to], n)]
    BY <1>4, <2>1 DEF Transferred
  <2>4. InCirculation(Transferred(from, to, n)) = InCirculation(debited) + n
    <3>1. \A b \in [Dids -> Balance] : \A c :
            c = [b EXCEPT ![to] = Earn(b[to], n)] => InCirculation(c) = InCirculation(b) + n
      BY EarnOne, Zenon
    <3> QED BY <2>2, <2>3, <3>1, Zenon
  <2> QED BY <1>2, <2>2, <2>4
<1> QED BY <1>3, <1>4

LEMMA ConservedInit == CreditInit => CreditsConserved
<1> SUFFICES ASSUME CreditInit PROVE CreditsConserved
  OBVIOUS
<1>1. PICK f : f = [d \in Dids |-> balances[d].balance]
  OBVIOUS
<1>2. \A d \in Dids : f[d] = 0
  BY <1>1 DEF CreditInit, NoBalance
<1>3. InCirculation(balances) = 0
  BY <1>1, <1>2, SumOfZeros, CreditsAssumption DEF InCirculation
<1> QED BY <1>3, CirculationNumbers DEF CreditsConserved, CreditInit

\* What CreditsConserved says of a sum of balances.
Conserved(sum, given, crashed, named) ==
  /\ crashed = 0 \/ named = {} => sum <= given
  /\ crashed = 0 /\ named = {} => sum = given

LEMMA ConservedNumbers ==
  /\ CreditsConserved <=> Conserved(InCirculation(balances), awarded, creditCrashes, below)
  /\ CreditsConserved' <=> Conserved(InCirculation(balances'), awarded', creditCrashes', below')
BY CirculationNumbers DEF CreditsConserved, Conserved

LEMMA ConservedStep ==
  ASSUME CreditInv, CreditsConserved, [CreditNext]_creditVars
  PROVE  CreditsConserved'
<1>t. balances \in [Dids -> Balance] /\ awarded \in Int /\ Amounts \subseteq Int
      /\ creditCrashes \in Nat
  BY CreditInvNow, CreditsAssumption DEF CreditsAssumption
<1>i. InCirculation(balances) \in Int
  BY <1>t, CirculationInt DEF Balance
<1>c. Conserved(InCirculation(balances), awarded, creditCrashes, below)
  BY ConservedNumbers
<1> SUFFICES Conserved(InCirculation(balances'), awarded', creditCrashes', below')
  BY ConservedNumbers
<1>1. ASSUME NEW d \in Dids, GetBalance(d)
      PROVE  Conserved(InCirculation(balances'), awarded', creditCrashes', below')
  <2>1. balances[d].balance = 0
    BY <1>1 DEF GetBalance, CreditInv, BalanceSound, NoBalance
  <2>2. \A e \in Dids : balances'[e].balance = balances[e].balance
    BY <1>1, <1>t, <2>1 DEF GetBalance, NewBalance
  <2>3. [e \in Dids |-> balances'[e].balance] = [e \in Dids |-> balances[e].balance]
    BY <2>2
  <2>4. InCirculation(balances') = InCirculation(balances)
    BY <2>3, Zenon DEF InCirculation
  <2> QED BY <1>1, <1>c, <2>4 DEF GetBalance
<1>2. ASSUME NEW d \in Dids, NEW n \in Amounts, Award(d, n) \/ AwardCrash(d, n)
      PROVE  Conserved(InCirculation(balances'), awarded', creditCrashes', below')
  <2>1. /\ n \in Int
        /\ balances' = [balances EXCEPT ![d] = Earn(balances[d], n)] /\ awarded' = awarded + n
        /\ creditCrashes' = 0 => creditCrashes = 0
        /\ below' = {} => below = {}
    BY <1>2, <1>t DEF Award, AwardCrash, AwardBalance, CreditCrash, Request
  <2>2. InCirculation(balances') = InCirculation(balances) + n
    BY <1>t, <2>1, EarnOne
  <2> QED BY <1>c, <1>i, <1>t, <2>1, <2>2 DEF Conserved
<1>3. ASSUME NEW from \in Dids, NEW to \in Dids, NEW n \in Amounts,
             \/ Transfer(from, to, n) \/ TransferCrash(from, to, n) \/ TransferUnrecorded(from, to, n)
      PROVE  Conserved(InCirculation(balances'), awarded', creditCrashes', below')
  <2>1. /\ n \in Int /\ MayTransfer(from, n) /\ awarded' = awarded
        /\ creditCrashes' = 0 => creditCrashes = 0
        /\ below' = {} => below = {} /\ n >= 0
    BY <1>3, <1>t DEF Transfer, TransferCrash, TransferUnrecorded, CreditCrash, Request
  <2>2. CASE balances' = Transferred(from, to, n)
    <3>1. /\ InCirculation(balances') <= InCirculation(balances)
          /\ n >= 0 => InCirculation(balances') = InCirculation(balances)
      BY <2>1, <2>2, TransferKeepsSum
    <3>2. InCirculation(balances') \in Int
      <4>1. balances' \in [Dids -> Balance]
        BY <2>1, <2>2, TransferredBalances DEF CreditInv
      <4> QED BY <4>1, CirculationInt DEF Balance
    <3> QED BY <1>c, <1>i, <1>t, <2>1, <3>1, <3>2 DEF Conserved
  <2>3. CASE ~ balances' = Transferred(from, to, n)
    <3>1. balances' = [balances EXCEPT ![from] = Spend(balances[from], n)] /\ creditCrashes' # 0
      BY <1>3, <1>t, <2>3 DEF Transfer, TransferCrash, TransferUnrecorded, CreditCrash
    <3>2. InCirculation(balances') = InCirculation(balances) - n
      BY <1>t, <2>1, <3>1, SpendOne
    <3> QED BY <1>c, <1>i, <1>t, <2>1, <3>1, <3>2 DEF Conserved
  <2> QED BY <2>2, <2>3
<1>4. CASE UNCHANGED creditVars
  BY <1>4, <1>c DEF creditVars
<1> QED
  BY <1>1, <1>2, <1>3, <1>4, Zenon DEF CreditNext

(***************************************************************************)
(* Reputation.  What the handlers deduct, and how the three ways of        *)
(* changing a score compare.                                               *)
(***************************************************************************)
LEMMA Deduct ==
  ASSUME NEW score \in Nat, NEW n \in Int
  PROVE  /\ Deducted(score, n) \in Nat
         /\ n >= 0 => Deducted(score, n) <= score
BY DEF Deducted

LEMMA ComputedInRange ==
  ASSUME NEW a \in Nat, NEW v \in Nat, NEW t \in Nat
  PROVE  ComputeGuardianScore(a, v, t) \in 0..Full
BY DEF ComputeGuardianScore, Deducted, Full

\* One transfer more costs at most the tenth that an abuse report deducts.
LEMMA OneTransferMore ==
  ASSUME NEW a \in Nat \ {0}, NEW v \in Nat, NEW t \in Nat, NEW score \in Nat,
         score <= ComputeGuardianScore(a, v, t)
  PROVE  Deducted(score, 10) <= ComputeGuardianScore(a, v, t + 1)
BY DEF ComputeGuardianScore, Deducted, Full

\* One reputation, sound by itself: its score covers its record.
Covering(r) ==
  /\ r.score <= Full
  /\ r.agentCount > 0 =>
       r.score <= ComputeGuardianScore(r.agentCount, r.violationCount, r.agentInitiatedTransfers)

ReputationInv == ReputationTypeOK /\ ScoreCoversRecord

LEMMA ReputationInvInit == ReputationInit => ReputationInv
<1> SUFFICES ASSUME ReputationInit PROVE ReputationInv
  OBVIOUS
<1>1. NoReputation \in Reputation /\ NoStake \in Stake
  BY DEF NoReputation, Reputation, NoStake, Stake, Full
<1>2. ReputationTypeOK
  BY <1>1, ReputationAssumption DEF ReputationInit, ReputationTypeOK, ReputationAssumption
<1>3. Covering(NoReputation)
  BY DEF Covering, NoReputation, Full
<1>4. ScoreCoversRecord
  BY <1>3 DEF ReputationInit, ScoreCoversRecord, Covering
<1> QED
  BY <1>2, <1>4 DEF ReputationInv

\* Every step gives at most one guardian a new reputation, which covers its
\* record unless the guardian staked a negative amount, and no step forgets that
\* it did.
LEMMA ReputationInvFromOne ==
  ASSUME ReputationInv, NEW g \in Guardians, NEW r \in Reputation,
         StakedNothingBelow(g) /\ Covering(reputations[g]) => Covering(r),
         \/ reputations' = reputations
         \/ reputations' = [reputations EXCEPT ![g] = r],
         abuseReports' \in [Guardians -> 0..MaxReports],
         stakes' \in [StakeIds -> Stake],
         \A h \in Guardians : StakedNothingBelow(h)' => StakedNothingBelow(h),
         repCrashes' \in 0..MaxRepCrashes
  PROVE  ReputationInv'
<1>1. /\ reputations \in [Guardians -> Reputation]
      /\ \A h \in Guardians : StakedNothingBelow(h) => Covering(reputations[h])
  BY DEF ReputationInv, ReputationTypeOK, ScoreCoversRecord, Covering
<1>2. ReputationTypeOK'
  BY <1>1 DEF ReputationTypeOK
<1>3. \A h \in Guardians : StakedNothingBelow(h)' => Covering(reputations'[h])
  BY <1>1
<1>4. ScoreCoversRecord'
  BY <1>3 DEF ScoreCoversRecord, Covering
<1> QED
  BY <1>2, <1>4 DEF ReputationInv

LEMMA ReportedReputation ==
  ASSUME NEW r \in Reputation, NEW event \in Events
  PROVE  LET s == Recomputed(Counted(r, event))
         IN  s \in Reputation /\ Covering(s)
<1> DEFINE c == Counted(r, event)
           n == ComputeGuardianScore(c.agentCount, c.violationCount, c.agentInitiatedTransfers)
           s == Recomputed(c)
<1>1. /\ c = [exists |-> c.exists, agentCount |-> c.agentCount, violationCount |-> c.violationCount,
              agentInitiatedTransfers |-> c.agentInitiatedTransfers, score |-> c.score]
      /\ c.agentCount \in Nat /\ c.violationCount \in Nat /\ c.agentInitiatedTransfers \in Nat
      /\ c.exists \in BOOLEAN
  <2>1. c \in Reputation
    BY DEF Counted, Reputation
  <2> HIDE DEF c
  <2>2. QED
    BY <2>1 DEF Reputation
<1> HIDE DEF c
<1>2. n \in 0..Full
  BY <1>1, ComputedInRange
<1>3. s = [exists |-> c.exists, agentCount |-> c.agentCount, violationCount |-> c.violationCount,
           agentInitiatedTransfers |-> c.agentInitiatedTransfers, score |-> n]
  <2>1. s = [c EXCEPT !.score = n]
    BY DEF Recomputed
  <2> HIDE DEF n
  <2>2. QED
    BY <1>1, <2>1
<1> HIDE DEF n, s
<1>4. s \in Reputation
  BY <1>1, <1>2, <1>3 DEF Reputation
<1>5. Covering(s)
  BY <1>2, <1>3 DEF Covering, n, Full
<1>6. QED
  BY <1>4, <1>5 DEF s, c

LEMMA AbusedReputation ==
  ASSUME NEW r \in Reputation
  PROVE  Abused(r) \in Reputation /\ (Covering(r) => Covering(Abused(r)))
<1>1. /\ r.agentCount \in Nat /\ r.violationCount \in Nat
      /\ r.agentInitiatedTransfers \in Nat /\ r.score \in Nat
  BY DEF Reputation
<1>2. Deducted(r.score, 10) \in Nat /\ Deducted(r.score, 10) <= r.score
  BY <1>1, Deduct DEF Deducted
<1>3. /\ Abused(r).agentCount = r.agentCount /\ Abused(r).violationCount = r.violationCount
      /\ Abused(r).agentInitiatedTransfers = r.agentInitiatedTransfers + 1
      /\ Abused(r).score = Deducted(r.score, 10)
  BY DEF Abused, Reputation
<1>4. Abused(r) \in Reputation
  <2> DEFINE d == Deducted(r.score, 10)
             s == [r EXCEPT !.score = d]
  <2> HIDE DEF d
  <2>1. s \in Reputation /\ s.agentInitiatedTransfers \in Nat
    BY <1>2 DEF d, Reputation
  <2>2. Abused(r) = [s EXCEPT !.agentInitiatedTransfers = s.agentInitiatedTransfers + 1]
    BY DEF Abused, d, Reputation
  <2> HIDE DEF s
  <2>3. QED
    BY <2>1, <2>2 DEF Reputation
<1>5. Covering(r) => Covering(Abused(r))
  BY <1>1, <1>2, <1>3, OneTransferMore DEF Covering, Full
<1>6. QED
  BY <1>4, <1>5

LEMMA SlashedReputation ==
  ASSUME NEW r \in Reputation, NEW n \in Int
  PROVE  LET s == [r EXCEPT !.score = Deducted(r.score, n)]
         IN  s \in Reputation /\ (n >= 0 /\ Covering(r) => Covering(s))
<1> DEFINE s == [r EXCEPT !.score = Deducted(r.score, n)]
<1>1. Deducted(r.score, n) \in Nat /\ (n >= 0 => Deducted(r.score, n) <= r.score)
  BY Deduct DEF Reputation
<1>2. s \in Reputation
  BY <1>1 DEF Reputation
<1>3. /\ s.agentCount = r.agentCount /\ s.violationCount = r.violationCount
      /\ s.agentInitiatedTransfers = r.agentInitiatedTransfers
      /\ s.score = Deducted(r.score, n)
  BY DEF Reputation
<1>4. r.score \in Int /\ s.score \in Int /\
        ComputeGuardianScore(r.agentCount, r.violationCount, r.agentInitiatedTransfers) \in Int
  BY <1>1, <1>3, ComputedInRange DEF Reputation, Full
<1>5. n >= 0 /\ Covering(r) => Covering(s)
  BY <1>1, <1>3, <1>4 DEF Covering, Full
<1>6. QED
  BY <1>2, <1>5

\* No handler takes a stake away or changes its staker or amount.
LEMMA StakesStay ==
  ASSUME NEW s \in StakeIds, ReputationInv,
         \/ stakes' = stakes
         \/ stakes' = [stakes EXCEPT ![s].resolved = TRUE]
         \/ stakes[s] = NoStake /\ \E g \in Guardians, n \in StakeAmounts :
              stakes' = [stakes EXCEPT ![s] = [stakerDid |-> g, amount |-> n, resolved |-> FALSE]]
  PROVE  /\ stakes' \in [StakeIds -> Stake]
         /\ \A h \in Guardians : StakedNothingBelow(h)' => StakedNothingBelow(h)
<1>1. stakes \in [StakeIds -> Stake]
  BY DEF ReputationInv, ReputationTypeOK
<1>2. CASE stakes' = stakes
  BY <1>1, <1>2 DEF StakedNothingBelow
<1>3. CASE stakes' = [stakes EXCEPT ![s].resolved = TRUE]
  <2>1. \A t \in StakeIds : /\ stakes'[t] \in Stake
                            /\ stakes'[t].stakerDid = stakes[t].stakerDid
                            /\ stakes'[t].amount = stakes[t].amount
    BY <1>1, <1>3 DEF Stake
  <2> QED BY <1>1, <1>3, <2>1 DEF StakedNothingBelow
<1>4. ASSUME stakes[s] = NoStake, NEW g \in Guardians, NEW n \in StakeAmounts,
             stakes' = [stakes EXCEPT ![s] = [stakerDid |-> g, amount |-> n, resolved |-> FALSE]]
      PROVE  /\ stakes' \in [StakeIds -> Stake]
             /\ \A h \in Guardians : StakedNothingBelow(h)' => StakedNothingBelow(h)
  <2>1. stakes' \in [StakeIds -> Stake]
    BY <1>1, <1>4 DEF Stake
  <2>2. ASSUME NEW h \in Guardians, StakedNothingBelow(h)', NEW t \in StakeIds, stakes[t].stakerDid = h
        PROVE  stakes[t].amount >= 0
    <3>1. t # s
      BY <1>4, <2>2, ReputationAssumption DEF NoStake, ReputationAssumption
    <3>2. stakes'[t] = stakes[t]
      BY <1>1, <1>4, <3>1
    <3> QED BY <2>2, <3>2 DEF StakedNothingBelow
  <2> QED BY <2>1, <2>2 DEF StakedNothingBelow
<1> QED
  BY <1>2, <1>3, <1>4

LEMMA ReputationInvStep == ReputationInv /\ [ReputationNext]_reputationVars => ReputationInv'
<1> SUFFICES ASSUME ReputationInv, [ReputationNext]_reputationVars PROVE ReputationInv'
  OBVIOUS
<1> USE ReputationAssumption DEF ReputationAssumption
<1>1. /\ \A g \in Guardians : reputations[g] \in Reputation
      /\ abuseReports \in [Guardians -> 0..MaxReports]
      /\ stakes \in [StakeIds -> Stake]
      /\ repCrashes \in 0..MaxRepCrashes
  BY DEF ReputationInv, ReputationTypeOK
<1>s. stakes' = stakes => \A h \in Guardians : StakedNothingBelow(h)' => StakedNothingBelow(h)
  BY DEF StakedNothingBelow
<1>2. ASSUME NEW g \in Guardians, NEW event \in Events, ReportEvent(g, event)
      PROVE  ReputationInv'
  <2> DEFINE r == Recomputed(Counted(reputations[g], event))
  <2>1. r \in Reputation /\ Covering(r)
    BY <1>1, ReportedReputation
  <2>2. /\ reputations' = [reputations EXCEPT ![g] = r]
        /\ UNCHANGED <<abuseReports, stakes, repCrashes>>
    BY <1>2 DEF ReportEvent
  <2> HIDE DEF r
  <2>3. QED
    BY <1>1, <1>s, <2>1, <2>2, ReputationInvFromOne
<1>3. ASSUME NEW g \in Guardians, AbuseReport(g) \/ AbuseReportCrash(g) PROVE ReputationInv'
  <2> DEFINE r == Abused(reputations[g])
  <2>1. r \in Reputation /\ (Covering(reputations[g]) => Covering(r))
    BY <1>1, AbusedReputation
  <2>2. /\ reputations' = [reputations EXCEPT ![g] = r] \/ reputations' = reputations
        /\ repCrashes' \in 0..MaxRepCrashes
        /\ stakes' = stakes
    BY <1>1, <1>3 DEF AbuseReport, AbuseReportCrash, FileReport
  <2>3. abuseReports' \in [Guardians -> 0..MaxReports]
    BY <1>1, <1>3 DEF AbuseReport, AbuseReportCrash, FileReport
  <2> HIDE DEF r
  <2>4. QED
    BY <1>1, <1>s, <2>1, <2>2, <2>3, ReputationInvFromOne
<1>4. ASSUME NEW s \in StakeIds, NEW g \in Guardians, NEW n \in StakeAmounts, CreateStake(s, g, n)
      PROVE  ReputationInv'
  <2>1. /\ stakes' \in [StakeIds -> Stake]
        /\ \A h \in Guardians : StakedNothingBelow(h)' => StakedNothingBelow(h)
    BY <1>4, StakesStay DEF CreateStake
  <2>2. UNCHANGED <<reputations, abuseReports, repCrashes>>
    BY <1>4 DEF CreateStake
  <2>3. QED
    BY <1>1, <2>1, <2>2, ReputationInvFromOne
<1>5. ASSUME NEW s \in StakeIds, NEW slashed \in BOOLEAN, Resolve(s, slashed) \/ ResolveCrash(s)
      PROVE  ReputationInv'
  <2> DEFINE g == stakes[s].stakerDid
             n == stakes[s].amount
             r == [reputations[g] EXCEPT !.score = Deducted(reputations[g].score, n)]
  <2>1. g \in Guardians /\ n \in Int
    <3>1. g \in Guardians
      BY <1>5 DEF Resolve, ResolveCrash
    <3>2. stakes[s] \in Stake /\ StakeAmounts \subseteq Int
      BY <1>1
    <3>3. n \in StakeAmounts \cup {0}
      BY <3>2 DEF Stake
    <3>4. \A k \in StakeAmounts \cup {0} : k \in Int
      BY <3>2
    <3> HIDE DEF g, n
    <3> QED BY <3>1, <3>3, <3>4
  <2>2. r \in Reputation /\ (n >= 0 /\ Covering(reputations[g]) => Covering(r))
    BY <1>1, <2>1, SlashedReputation
  <2>8. StakedNothingBelow(g) => n >= 0
    BY DEF StakedNothingBelow
  <2>3. /\ stakes' \in [StakeIds -> Stake]
        /\ \A h \in Guardians : StakedNothingBelow(h)' => StakedNothingBelow(h)
    BY <1>5, StakesStay DEF Resolve, ResolveCrash
  <2>7. abuseReports' = abuseReports /\ repCrashes' \in 0..MaxRepCrashes
    BY <1>1, <1>5 DEF Resolve, ResolveCrash
  <2>4. reputations' = reputations \/ Slash(g, n)
    BY <1>5 DEF Resolve, ResolveCrash
  <2>5. reputations' = reputations \/ reputations' = [reputations EXCEPT ![g] = r]
    BY <2>4 DEF Slash
  <2> HIDE DEF g, n, r
  <2>6. QED
    BY <1>1, <2>1, <2>2, <2>8, <2>3, <2>5, <2>7, ReputationInvFromOne
<1>6. CASE UNCHANGED reputationVars
  BY <1>6 DEF reputationVars, ReputationInv, ReputationTypeOK, ScoreCoversRecord, StakedNothingBelow
<1>7. QED
  BY <1>2, <1>3, <1>4, <1>5, <1>6, Zenon DEF ReputationNext

(***************************************************************************)
(* The two components side by side.                                        *)
(***************************************************************************)
LEMMA EconomyInvariant == EconomySpec => [](CreditInv /\ CreditsConserved /\ ReputationInv)
<1>1. CreditInv /\ CreditsConserved /\ [EconomyNext]_economyVars => CreditInv' /\ CreditsConserved'
  <2>1. [EconomyNext]_economyVars => [CreditNext]_creditVars
    BY Zenon DEF EconomyNext, economyVars
  <2> QED BY <2>1, CreditInvStep, ConservedStep, Zenon
<1>2. ReputationInv /\ [EconomyNext]_economyVars => ReputationInv'
  BY ReputationInvStep DEF EconomyNext, economyVars
<1>3. QED
  BY CreditInvInit, ConservedInit, ReputationInvInit, <1>1, <1>2, PTL DEF EconomySpec, EconomyInit

\* Balances and ledger keep their shape, and a DID that no request for a negative
\* amount named is never in debt (transferKnowledgeCredits checks the balance it
\* debits), whatever amounts others are asked for.
THEOREM NoDebt == EconomySpec => [](CreditTypeOK /\ DebtExplained)
BY EconomyInvariant, PTL DEF CreditInv

\* Balance = earned - spent for every DID, through transfers to oneself and
\* crashes between the writes of a transfer.
THEOREM BalancesAreSound == EconomySpec => []BalanceSound
BY EconomyInvariant, PTL DEF CreditInv

\* The log says what the balances say until a crash, and afterwards never more of
\* a DID that no negative amount named (the handlers write the balances first).
THEOREM LedgerIsCovered == EconomySpec => []LedgerCovered
BY EconomyInvariant, PTL DEF CreditInv

\* Transfers make no credits, for any number of DIDs that pay each other or
\* themselves any amounts: until a crash all balances together are at most what
\* was awarded, and exactly that, or less after a crash between the two balances,
\* when no amount is negative (transferKnowledgeCredits).
THEOREM NoCreditsFromNowhere == EconomySpec => []CreditsConserved
BY EconomyInvariant, PTL

\* No score is negative, whatever three handlers deduct and whatever is staked,
\* and every record keeps its shape.
THEOREM ReputationsTyped == EconomySpec => []ReputationTypeOK
BY EconomyInvariant, PTL DEF ReputationInv

\* Events, abuse reports and slashes of any number and order leave a guardian that
\* staked no negative amount a score of at most 1.0, and none better than its
\* record allows once it has agents (governance.ts, guardian-abuse-core.ts,
\* economy-core.ts).
THEOREM ScoresCoverRecords == EconomySpec => []ScoreCoversRecord
BY EconomyInvariant, PTL DEF ReputationInv

=============================================================================
