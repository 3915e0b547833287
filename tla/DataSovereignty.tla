--------------------------- MODULE DataSovereignty ----------------------------
(***************************************************************************)
(* Moving a node's data (maip-node/src/data-sovereignty.ts): a node writes *)
(* its stores to a file, the file may be damaged on the way, and a node    *)
(* imports it, record by record; and the norms two entities agree on       *)
(* (handlers/cultural-norms-core.ts), which are part of a relationship's   *)
(* record and so part of what moves.                                       *)
(*                                                                         *)
(* A record is a copy that carries the number of the save it comes from.   *)
(* An import saves one record after the other without a handler in         *)
(* between, so it is one action, and one more for an import that a crash   *)
(* cut short.  A store's file that a crash cut short is read back as an    *)
(* empty store.  Encryption adds only a reason to refuse a damaged file.   *)
(***************************************************************************)
EXTENDS Integers, FiniteSets

CONSTANTS Homes,          \* nodes
          Records,        \* ids of records, each of one kind
          KindOf,         \* the store a record is in
          Topics, Tones,  \* what norms are about
          Absent,         \* no copy
          Unset,          \* no tone
          MaxSaves        \* bound: saves of one record

Copy == [save: Nat, tone: Tones \cup {Unset}, avoidTopics: SUBSET Topics]

ASSUME SovereigntyAssumption == MaxSaves \in Nat /\ Absent \notin Copy

VARIABLES store,      \* the stores of every node
          saves,      \* saves of a record so far, by handlers of any node
          file,       \* the export file
          restored,   \* nodes that have imported all of that file, and whose
                      \* stores a crash has not torn since
          agreed      \* topics agreed at a node, not imported over or torn since

sovereigntyVars == <<store, saves, file, restored, agreed>>

NoFile == [copies |-> [r \in Records |-> Absent], state |-> "none"]

SovereigntyInit ==
  /\ store = [n \in Homes |-> [r \in Records |-> Absent]]
  /\ saves = [r \in Records |-> 0]
  /\ file = NoFile
  /\ restored = {}
  /\ agreed = [n \in Homes |-> [r \in Records |-> {}]]

-----------------------------------------------------------------------------
(* The node at work. *)

\* A handler saves a new record, or changes one that is there (JsonStore.add).
SaveRecord(n, r) ==
  /\ saves[r] < MaxSaves
  /\ saves' = [saves EXCEPT ![r] = @ + 1]
  /\ store' = [store EXCEPT ![n][r] =
       IF @ = Absent THEN [save |-> saves'[r], tone |-> Unset, avoidTopics |-> {}]
       ELSE [@ EXCEPT !.save = saves'[r]]]
  /\ UNCHANGED <<file, restored, agreed>>

\* Mutation: a proposal's topics take the place of the agreed ones.
NormsReplaced(copy, tone, topics) ==
  [copy EXCEPT !.tone = IF tone = Unset THEN @ ELSE tone, !.avoidTopics = topics]

\* A proposal overwrites the single values it names and adds to the lists.
Merged(copy, tone, topics) ==
  [copy EXCEPT !.tone = IF tone = Unset THEN @ ELSE tone,
               !.avoidTopics = @ \cup topics]

\* proposeCulturalNorms: a participant proposes, and that is the agreement.
ProposeNorms(n, r, tone, topics) ==
  /\ KindOf[r] = "relationships"
  /\ store[n][r] # Absent
  /\ store' = [store EXCEPT ![n][r] = Merged(@, tone, topics)]
  /\ agreed' = [agreed EXCEPT ![n][r] = @ \cup topics]
  /\ UNCHANGED <<saves, file, restored>>

Held(n, kind) == {r \in Records : KindOf[r] = kind /\ store[n][r] # Absent}

\* The node dies while it writes a store's file, for a handler or in the midst
\* of an import: the file, cut short, is read back as an empty store.
StoreTorn(n, kind) ==
  /\ Held(n, kind) # {}
  /\ store' = [store EXCEPT ![n] = [r \in Records |-> IF r \in Held(n, kind) THEN Absent ELSE @[r]]]
  /\ agreed' = [agreed EXCEPT ![n] = [r \in Records |-> IF r \in Held(n, kind) THEN {} ELSE @[r]]]
  /\ restored' = restored \ {n}
  /\ UNCHANGED <<saves, file>>

-----------------------------------------------------------------------------
(* Export and import. *)

\* exportNodeData and saveExport: all the stores, with a checksum.
Export(n) ==
  /\ file' = [copies |-> store[n], state |-> "whole"]
  /\ restored' = {}
  /\ UNCHANGED <<store, saves, agreed>>

\* The node dies while it writes the file, or the file suffers on its way.
DamageFile ==
  /\ file.state = "whole"
  /\ file' = [file EXCEPT !.state = "damaged"]
  /\ UNCHANGED <<store, saves, restored, agreed>>

\* What importNodeData reads of an export, in this order.
Imported == <<"messages", "relationships", "registrations", "guardianReputations", "spaces">>
Portable == {r \in Records : file.copies[r] # Absent /\ \E i \in DOMAIN Imported : Imported[i] = KindOf[r]}
Earlier(q, r) ==
  \E i, j \in DOMAIN Imported : i < j /\ Imported[i] = KindOf[q] /\ Imported[j] = KindOf[r]

\* What an import may have saved when it ends or is cut short.
Prefixes == {done \in SUBSET Portable : \A r \in done, q \in Portable : Earlier(q, r) => q \in done}

\* Mutation: the import ends at the first record that is there already.
WithUntilClash(copies, done) ==
  [r \in Records |->
     IF r \in done /\ copies[r] = Absent /\ ~ \E q \in done : Earlier(q, r) /\ copies[q] # Absent
     THEN file.copies[r] ELSE copies[r]]

\* Every record saved takes the place of the one with its id (JsonStore.add).
With(copies, done) == [r \in Records |-> IF r \in done THEN file.copies[r] ELSE copies[r]]

\* loadExport throws unless the file is whole, and importNodeData saves.
Load(n, done) ==
  /\ file.state = "whole"
  /\ store' = [store EXCEPT ![n] = With(@, done)]
  /\ agreed' = [agreed EXCEPT ![n] = [r \in Records |-> IF r \in done THEN {} ELSE @[r]]]
  /\ UNCHANGED <<saves, file>>

Import(n) ==
  /\ Load(n, Portable)
  /\ restored' = restored \cup {n}

ImportCrash(n, done) ==
  /\ done # Portable
  /\ Load(n, done)
  /\ UNCHANGED restored

SovereigntyNext ==
  \/ \E n \in Homes, r \in Records :
       \/ SaveRecord(n, r)
       \/ \E tone \in Tones \cup {Unset}, topics \in SUBSET Topics : ProposeNorms(n, r, tone, topics)
  \/ \E n \in Homes, r \in Records : StoreTorn(n, KindOf[r])
  \/ \E n \in Homes : Export(n) \/ Import(n) \/ \E done \in Prefixes : ImportCrash(n, done)
  \/ DamageFile

-----------------------------------------------------------------------------
(* Properties. *)

SovereigntyTypeOK ==
  /\ store \in [Homes -> [Records -> Copy \cup {Absent}]]
  /\ saves \in [Records -> Nat]
  /\ file \in [copies: [Records -> Copy \cup {Absent}], state: {"none", "whole", "damaged"}]
  /\ restored \subseteq Homes
  /\ agreed \in [Homes -> [Records -> SUBSET Topics]]

\* A node that was restored from an export holds every record the import reads,
\* none older than the export's and none without a topic the export avoids: also
\* when crashes had cut earlier imports short or torn a store, and whatever the
\* handlers of this node and of others saved before and since (importNodeData,
\* and JsonStore.add, which lets a record take the place of the one with its id).
RestoredHolds ==
  \A n \in restored : \A r \in Portable :
    /\ store[n][r] # Absent
    /\ store[n][r].save >= file.copies[r].save
    /\ file.copies[r].avoidTopics \subseteq store[n][r].avoidTopics

\* What was agreed to be avoided is avoided, whoever proposes what afterwards and
\* whatever else is saved of the relationship, until an import brings an older
\* copy of it or a crash tears the store (proposeCulturalNorms, "for arrays,
\* merge unique values").
AgreedUntilImport ==
  \A n \in Homes, r \in Records :
    agreed[n][r] # {} => store[n][r] # Absent /\ agreed[n][r] \subseteq store[n][r].avoidTopics

-----------------------------------------------------------------------------
(* What the code says and does not do. *)

\* data-sovereignty.ts:52, "Returns a complete snapshot that can be imported into
\* another node": after the import whatever the export holds is there.
ImportRestoresExport ==
  \A n \in restored : \A r \in Records : file.copies[r] # Absent => store[n][r] # Absent

=============================================================================
