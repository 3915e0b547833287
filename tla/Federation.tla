------------------------------ MODULE Federation -----------------------------
(***************************************************************************)
(* Registries that resolve DIDs for each other                             *)
(* (maip-node/src/handlers/federation-core.ts).                            *)
(*                                                                         *)
(* To resolve a DID it does not know, a node asks the registries it        *)
(* considers reachable one after the other, each with a timeout, and each  *)
(* of them does the same: a request made for another request is a          *)
(* resolution of its own, which goes on when nobody waits for it any more. *)
(* Nothing says which nodes a DID was already asked of.                    *)
(*                                                                         *)
(* One DID is resolved throughout; trust is counted in the smallest steps  *)
(* the code makes (20 to 1.0).  At the limit itself the floating point     *)
(* sums fall on either side.                                               *)
(***************************************************************************)
EXTENDS Naturals, Sequences, FiniteSets, Functions

CONSTANTS Registrars,       \* the nodes
          Known,            \* the nodes that know the DID, from their stores
          Links,            \* bound: who may register whom
          AskedHops,        \* maxHops by default, 3
          ClientHops,       \* what clients give for maxHops
          FullTrust,        \* 1.0, that is 20
          FirstTrust,       \* 0.5, that is 10
          Gain, Loss,       \* 0.05 and 0.1, that is 1 and 2
          LeastTrust,       \* 0.1, that is 2
          MaxResolutions,   \* bound: resolutions, nested ones included
          MaxTrustUpdates   \* bound: trust updates from outside

ASSUME FederationAssumption ==
  /\ Known \subseteq Registrars /\ "nobody" \notin Registrars
  /\ Links \subseteq Registrars \X Registrars /\ \A l \in Links : l[1] # l[2]
  /\ AskedHops \in Nat /\ ClientHops \subseteq Nat /\ FullTrust \in Nat /\ FirstTrust \in 0..FullTrust
  /\ Gain \in Nat /\ Loss \in Nat /\ LeastTrust \in 0..FullTrust
  /\ MaxResolutions \in Nat /\ MaxTrustUpdates \in Nat

VARIABLES registries,     \* federationState: what each node knows of the others
          resolutions,    \* the resolutions, in the order they were started
          trustUpdates

federationVars == <<registries, resolutions, trustUpdates>>

RegistryEntry == [did: Registrars, trust: 0..FullTrust, reachable: BOOLEAN]
Resolution == [at: Registrars,                     \* the node that resolves
               for: 0..MaxResolutions,             \* the resolution that waits for it
               step: Nat,                          \* the registry of "asks" it is at
               asks: Seq(Registrars),              \* the registries it will ask
               state: {"asking", "found", "not_found"},
               resolvedBy: Registrars \cup {"nobody"},
               failed: BOOLEAN]                    \* a request of it has failed

FederationInit ==
  /\ registries = [n \in Registrars |-> <<>>]
  /\ resolutions = <<>>
  /\ trustUpdates = 0

-----------------------------------------------------------------------------
(* The registries a node knows. *)

IndexOf(n, m) == {i \in DOMAIN registries[n] : registries[n][i].did = m}

\* registerFederatedRegistry: a registry that comes back is reachable, with the
\* trust it had.
Registered(n, m) ==
  IF IndexOf(n, m) = {}
  THEN Append(registries[n], [did |-> m, trust |-> FirstTrust, reachable |-> TRUE])
  ELSE [i \in DOMAIN registries[n] |->
          IF i \in IndexOf(n, m) THEN [registries[n][i] EXCEPT !.reachable = TRUE]
          ELSE registries[n][i]]

Register(n, m) ==
  /\ registries' = [registries EXCEPT ![n] = Registered(n, m)]
  /\ UNCHANGED <<resolutions, trustUpdates>>

TrustAfter(t, positive) ==
  IF positive
  THEN IF t + Gain > FullTrust THEN FullTrust ELSE t + Gain
  ELSE IF t > Loss THEN t - Loss ELSE 0

\* What a node may know after updateRegistryTrust.
TrustUpdated(n, m, positive) ==
  {[i \in DOMAIN registries[n] |->
      LET e == registries[n][i]
          t == TrustAfter(e.trust, positive)
      IN  IF e.did # m THEN e
          ELSE [did |-> m, trust |-> t,
                reachable |-> e.reachable /\ IF t = LeastTrust THEN ~below ELSE t > LeastTrust]]
     : below \in BOOLEAN}

UpdateTrust(n, m, positive) ==
  /\ trustUpdates < MaxTrustUpdates
  /\ trustUpdates' = trustUpdates + 1
  /\ IndexOf(n, m) # {}
  /\ \E known \in TrustUpdated(n, m, positive) : registries' = [registries EXCEPT ![n] = known]
  /\ UNCHANGED resolutions

-----------------------------------------------------------------------------
(* Resolution. *)

KthOf(at, k) == CHOOSE i \in at : Cardinality({j \in at : j <= i}) = k

\* The registries a node considers reachable, in the order it came to know them.
ReachableAt(n) == {i \in DOMAIN registries[n] : registries[n][i].reachable}
Reachable(n) ==
  [k \in 1..Cardinality(ReachableAt(n)) |-> registries[n][KthOf(ReachableAt(n), k)].did]

\* Up to maxHops of the registries reachable when the resolution starts.
Asks(n, maxHops) == LET r == Reachable(n) IN SubSeq(r, 1, IF maxHops < Len(r) THEN maxHops ELSE Len(r))

\* resolveDID up to its first await.
Started(n, parent, maxHops) ==
  [at |-> n, for |-> parent, step |-> 1, asks |-> Asks(n, maxHops),
   state |-> IF n \in Known THEN "found" ELSE IF Asks(n, maxHops) = <<>> THEN "not_found" ELSE "asking",
   resolvedBy |-> IF n \in Known THEN n ELSE "nobody", failed |-> FALSE]

Start(n, parent, maxHops) ==
  /\ Len(resolutions) < MaxResolutions
  /\ resolutions' = Append(resolutions, Started(n, parent, maxHops))
  /\ UNCHANGED <<registries, trustUpdates>>

\* A client asks a node.
Resolve(n, maxHops) == Start(n, 0, maxHops)

Asked(i) == resolutions[i].asks[resolutions[i].step]

\* The resolution started by the request of i to its k-th registry.
Served(i, k) == {j \in DOMAIN resolutions : resolutions[j].for = i /\ resolutions[j].at = resolutions[i].asks[k]}

\* A request arrives, perhaps after i has given it up; its maxHops is not sent on.
Arrive(i, k) ==
  /\ i \in DOMAIN resolutions
  /\ k \in DOMAIN resolutions[i].asks /\ k <= resolutions[i].step
  /\ resolutions[i].at \notin Known
  /\ Served(i, k) = {}
  /\ Start(resolutions[i].asks[k], i, AskedHops)

\* i after the answer of j, and after a failed request.
Answered(i, j) ==
  IF resolutions[j].state = "found"
  THEN [resolutions[i] EXCEPT !.state = "found", !.resolvedBy = resolutions[j].resolvedBy]
  ELSE [resolutions[i] EXCEPT !.step = @ + 1,
          !.state = IF resolutions[i].step = Len(resolutions[i].asks) THEN "not_found" ELSE "asking"]
Failed(i) ==
  [resolutions[i] EXCEPT !.step = @ + 1, !.failed = TRUE,
     !.state = IF resolutions[i].step = Len(resolutions[i].asks) THEN "not_found" ELSE "asking"]

Answer(i) ==
  /\ i \in DOMAIN resolutions
  /\ resolutions[i].state = "asking"
  /\ \E j \in Served(i, resolutions[i].step) :
       /\ resolutions[j].state # "asking"
       /\ resolutions' = [resolutions EXCEPT ![i] = Answered(i, j)]
       /\ IF resolutions[j].state = "found"
          THEN \E known \in TrustUpdated(resolutions[i].at, Asked(i), TRUE) :
                 registries' = [registries EXCEPT ![resolutions[i].at] = known]
          ELSE UNCHANGED registries
  /\ UNCHANGED trustUpdates

\* Mutation: a request that arrived does not time out.
FailUnserved(i) ==
  /\ i \in DOMAIN resolutions
  /\ resolutions[i].state = "asking"
  /\ Served(i, resolutions[i].step) = {}
  /\ resolutions' = [resolutions EXCEPT ![i] = Failed(i)]
  /\ \E known \in TrustUpdated(resolutions[i].at, Asked(i), FALSE) :
       registries' = [registries EXCEPT ![resolutions[i].at] = known]
  /\ UNCHANGED trustUpdates

\* The timeout of the request, or a failed connection.
Fail(i) ==
  /\ i \in DOMAIN resolutions
  /\ resolutions[i].state = "asking"
  /\ resolutions' = [resolutions EXCEPT ![i] = Failed(i)]
  /\ \E known \in TrustUpdated(resolutions[i].at, Asked(i), FALSE) :
       registries' = [registries EXCEPT ![resolutions[i].at] = known]
  /\ UNCHANGED trustUpdates

FederationNext ==
  \/ \E l \in Links : Register(l[1], l[2])
  \/ \E l \in Links, positive \in BOOLEAN : UpdateTrust(l[1], l[2], positive)
  \/ \E n \in Registrars, h \in ClientHops : Resolve(n, h)
  \/ \E i \in 1..MaxResolutions : Answer(i) \/ Fail(i)
  \/ \E i, k \in 1..MaxResolutions : Arrive(i, k)

-----------------------------------------------------------------------------
\* Trust stays in its range, and an answered resolution says who knew.
FederationTypeOK ==
  /\ registries \in [Registrars -> Seq(RegistryEntry)]
  /\ \A n \in Registrars : IsInjective([i \in DOMAIN registries[n] |-> registries[n][i].did])
  /\ resolutions \in Seq(Resolution)
  /\ \A i \in DOMAIN resolutions : (resolutions[i].state = "found") <=> (resolutions[i].resolvedBy # "nobody")
  /\ trustUpdates \in 0..MaxTrustUpdates

Asking(i) == i \in DOMAIN resolutions /\ resolutions[i].state = "asking"

\* No resolution waits for ever, though two nodes may each wait for the other:
\* the timeouts of the requests end it (AbortSignal.timeout).
EveryResolutionEnds ==
  \A i \in 1..MaxResolutions : Asking(i) ~> ~Asking(i)

=============================================================================
