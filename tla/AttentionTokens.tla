--------------------------- MODULE AttentionTokens ---------------------------
(***************************************************************************)
(* Attention tokens: issued, spent in parts, expiring                      *)
(* (maip-node/src/handlers/economy-core.ts).                               *)
(*                                                                         *)
(* A holder's tokens are spent in the order of their expiry, each with a   *)
(* store write of its own.  Expired tokens stay in the store.  The tokens  *)
(* are kept in the order of their issue; one that is worth nothing may as  *)
(* well be gone from the store, and counts as gone.                        *)
(*                                                                         *)
(* No handler checks the sign of an amount (economy.ts passes the body of  *)
(* the request on), so an amount is any integer.  Variable issuedBelow,    *)
(* which no action reads, remembers who was issued a negative one.         *)
(***************************************************************************)
EXTENDS Integers, Sequences, FiniteSets, Functions

CONSTANTS Holders,
          TokenAmounts,      \* amounts issued and spent
          Lifetimes,         \* expiresInMs
          MaxIssues,         \* bound: tokens issued
          MaxSpends,         \* bound: times tokens are spent
          MaxTokenCrashes,   \* bound: crashes
          MaxTokenTime       \* bound: the clock

ASSUME TokensAssumption ==
  /\ TokenAmounts \subseteq Int /\ Lifetimes \subseteq Nat
  /\ MaxIssues \in Nat /\ MaxSpends \in Nat /\ MaxTokenCrashes \in Nat /\ MaxTokenTime \in Nat

VARIABLES tokens,        \* store attention-tokens.json
          issued,        \* what each holder was ever given ...
          spentTokens,   \* ... and was told to have spent
          issuedBelow,   \* history: the holders ever issued a negative amount
          issues, spends, tokenCrashes, tokenNow

tokenVars == <<tokens, issued, spentTokens, issuedBelow, issues, spends, tokenCrashes, tokenNow>>

Token == [holder: Holders, amount: Int, expiresAt: Nat]

TokensInit ==
  /\ tokens = <<>>
  /\ issued = [h \in Holders |-> 0] /\ spentTokens = [h \in Holders |-> 0]
  /\ issuedBelow = {}
  /\ issues = 0 /\ spends = 0 /\ tokenCrashes = 0 /\ tokenNow = 0

\* issueAttentionTokens.
Issue(h, n, lifetime) ==
  /\ issues < MaxIssues
  /\ issues' = issues + 1
  /\ tokens' = Append(tokens, [holder |-> h, amount |-> n, expiresAt |-> tokenNow + lifetime])
  /\ issued' = [issued EXCEPT ![h] = @ + n]
  /\ issuedBelow' = IF n < 0 THEN issuedBelow \cup {h} ELSE issuedBelow
  /\ UNCHANGED <<spentTokens, spends, tokenCrashes, tokenNow>>

-----------------------------------------------------------------------------
(* spendAttentionTokens. *)

\* The tokens that can be spent, and those spent before token i.
Spendable(h) ==
  {i \in DOMAIN tokens : tokens[i].holder = h /\ tokens[i].amount # 0 /\ tokens[i].expiresAt > tokenNow}
Earlier(h, i) ==
  {j \in Spendable(h) : \/ tokens[j].expiresAt < tokens[i].expiresAt
                        \/ tokens[j].expiresAt = tokens[i].expiresAt /\ j < i}

Worth(indices) == SumFunctionOnSet([i \in DOMAIN tokens |-> tokens[i].amount], indices)

\* What the tokens up to i are worth, i included.
Through(h, i) == Worth(Earlier(h, i) \cup {i})

\* The loop comes to token i when something remains to be paid after each token
\* before it.
Reached(h, i, n) == n > 0 /\ \A j \in Earlier(h, i) : Through(h, j) < n

\* Mutation: every token pays the whole amount.
PaysAll(h, i, n) == IF tokens[i].amount <= n THEN tokens[i].amount ELSE n

\* What token i pays of n: all it has, or what remains; a negative token is
\* removed and adds to what remains.
Pays(h, i, n) ==
  LET remaining == n - Worth(Earlier(h, i))
  IN  IF ~Reached(h, i, n) THEN 0
      ELSE IF tokens[i].amount <= remaining THEN tokens[i].amount ELSE remaining

\* The store after the first k tokens paid; a token that paid all is removed.
Paid(h, n, k) ==
  [i \in DOMAIN tokens |->
     IF i \in Spendable(h) /\ Cardinality(Earlier(h, i)) < k
     THEN [tokens[i] EXCEPT !.amount = @ - Pays(h, i, n)] ELSE tokens[i]]

\* n, if the tokens up to one of them are enough; otherwise all there is.
Spent(h, n) ==
  IF n <= 0 THEN 0
  ELSE IF \E i \in Spendable(h) : Through(h, i) >= n THEN n ELSE Worth(Spendable(h))

\* Less than n may be spent.  When what is spent is nothing the holder is told it
\* has too few (INSUFFICIENT_TOKENS), even if tokens that cancel out are gone.
SpendTokens(h, n) ==
  /\ spends < MaxSpends
  /\ Spendable(h) # {}
  /\ spends' = spends + 1
  /\ tokens' = Paid(h, n, Cardinality(Spendable(h)))
  /\ spentTokens' = [spentTokens EXCEPT ![h] = @ + Spent(h, n)]
  /\ UNCHANGED <<issued, issuedBelow, issues, tokenCrashes, tokenNow>>

\* The node stops when k tokens have paid: the holder is told nothing.
SpendTokensCrash(h, n, k) ==
  /\ spends < MaxSpends /\ tokenCrashes < MaxTokenCrashes
  /\ k \in 1..Cardinality(Spendable(h))
  /\ spends' = spends + 1 /\ tokenCrashes' = tokenCrashes + 1
  /\ tokens' = Paid(h, n, k)
  /\ UNCHANGED <<issued, spentTokens, issuedBelow, issues, tokenNow>>

TokenTick ==
  /\ tokenNow < MaxTokenTime
  /\ tokenNow' = tokenNow + 1
  /\ UNCHANGED <<tokens, issued, spentTokens, issuedBelow, issues, spends, tokenCrashes>>

TokensNext ==
  \/ \E h \in Holders, n \in TokenAmounts, lifetime \in Lifetimes : Issue(h, n, lifetime)
  \/ \E h \in Holders, n \in TokenAmounts : SpendTokens(h, n)
  \/ \E h \in Holders, n \in TokenAmounts, k \in 1..MaxIssues : SpendTokensCrash(h, n, k)
  \/ TokenTick

-----------------------------------------------------------------------------
(* Properties. *)

TokensTypeOK ==
  /\ tokens \in Seq(Token)
  /\ issued \in [Holders -> Int] /\ spentTokens \in [Holders -> Int]
  /\ issuedBelow \subseteq Holders
  /\ issues \in 0..MaxIssues /\ spends \in 0..MaxSpends
  /\ tokenCrashes \in 0..MaxTokenCrashes /\ tokenNow \in 0..MaxTokenTime

Own(h) == {i \in DOMAIN tokens : tokens[i].holder = h}

\* What a holder still has, expired tokens included, and what it was told it
\* spent are what it was issued, however spending is split over its tokens and
\* whatever the amounts; a crash may lose tokens and never creates any, but for a
\* holder of a negative token it may also lose that (spendAttentionTokens).
TokensAccounted ==
  \A h \in Holders :
    LET left == Worth(Own(h))
    IN  /\ tokenCrashes = 0 => left + spentTokens[h] = issued[h]
        /\ h \notin issuedBelow => left + spentTokens[h] <= issued[h]

=============================================================================
