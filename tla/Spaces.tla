------------------------------- MODULE Spaces --------------------------------
(***************************************************************************)
(* The shared spaces of one node (maip-node/src/handlers/spaces-core.ts):  *)
(* creation, joining, posting, and readers who page through the messages.  *)
(*                                                                         *)
(* Spaces, memberships and messages are three stores.  Creation writes two *)
(* of them, one after the other, and a crash may come in between; every    *)
(* other handler writes one and is one action.  Nothing in the code ever   *)
(* invites, approves, removes or lets anybody leave.                       *)
(***************************************************************************)
EXTENDS Integers, Sequences, FiniteSets

CONSTANTS SpaceIds,      \* UUIDs, each drawn once
          Entities,      \* DIDs of creators, members and authors
          Caps,          \* maxMembers, 0 for no limit
          NoSpace,       \* an id nobody has drawn yet
          PageSize,      \* limit of a reading
          MaxPosts,      \* bound: messages in a space
          MaxSpaceTime   \* bound: the clock

Policies == {"open", "invite_only", "approval_required"}
Space == [creatorDid: Entities, membershipPolicy: Policies, maxMembers: Caps]
Post == [from: Entities, timestamp: 1..MaxSpaceTime]

ASSUME SpacesAssumption ==
  /\ Caps \subseteq Nat /\ PageSize \in Nat \ {0} /\ IsFiniteSet(Entities)
  /\ NoSpace \notin Space
  /\ MaxPosts \in Nat /\ MaxSpaceTime \in Nat \ {0}

VARIABLES spaces,      \* store spaces.json
          members,     \* store space-members.json: who belongs to which space
          posts,       \* store space-messages.json, by space, in stored order
          lastSeen,    \* the timestamp a reader of a space passes as "after"
          given,       \* the messages that reader was given
          spaceNow     \* Date.now(), which never goes back here

spaceVars == <<spaces, members, posts, lastSeen, given, spaceNow>>

SpacesInit ==
  /\ spaces = [s \in SpaceIds |-> NoSpace]
  /\ members = [s \in SpaceIds |-> {}]
  /\ posts = [s \in SpaceIds |-> <<>>]
  /\ lastSeen = [s \in SpaceIds |-> 0] /\ given = [s \in SpaceIds |-> {}]
  /\ spaceNow = 1

-----------------------------------------------------------------------------
(* Handlers. *)

\* processCreateSpace, up to its first write.
SaveSpace(s, space) ==
  /\ spaces[s] = NoSpace
  /\ spaces' = [spaces EXCEPT ![s] = space]
  /\ UNCHANGED <<posts, lastSeen, given, spaceNow>>

\* processCreateSpace: the creator is the first member, whatever maxMembers is.
CreateSpace(s, space) ==
  /\ SaveSpace(s, space)
  /\ members' = [members EXCEPT ![s] = @ \cup {space.creatorDid}]

\* The node dies between the two writes: the space is there, its creator is not
\* in it.
CreateSpaceCrash(s, space) ==
  /\ SaveSpace(s, space)
  /\ UNCHANGED members

\* Mutation: the limit is compared before the new member is counted.
HasRoomForOneMore(s) == spaces[s].maxMembers > 0 => Cardinality(members[s]) <= spaces[s].maxMembers

HasRoom(s) == spaces[s].maxMembers > 0 => Cardinality(members[s]) < spaces[s].maxMembers

\* processJoinSpace.  "approval_required" is not looked at: it is an open space.
JoinSpace(s, d) ==
  /\ spaces[s] # NoSpace
  /\ d \notin members[s]
  /\ spaces[s].membershipPolicy # "invite_only"
  /\ HasRoom(s)
  /\ members' = [members EXCEPT ![s] = @ \cup {d}]
  /\ UNCHANGED <<spaces, posts, lastSeen, given, spaceNow>>

\* processPostToSpace.
PostToSpace(s, d) ==
  /\ Len(posts[s]) < MaxPosts
  /\ spaces[s] # NoSpace
  /\ d \in members[s]
  /\ posts' = [posts EXCEPT ![s] = Append(@, [from |-> d, timestamp |-> spaceNow])]
  /\ UNCHANGED <<spaces, members, lastSeen, given, spaceNow>>

-----------------------------------------------------------------------------
(* Readers. *)

\* The messages of a space later than a timestamp.
After(s, time) == {i \in DOMAIN posts[s] : posts[s][i].timestamp > time}

\* The order of a reading: by timestamp, and messages of one as they are stored.
Precedes(s, i, j) ==
  \/ posts[s][i].timestamp < posts[s][j].timestamp
  \/ posts[s][i].timestamp = posts[s][j].timestamp /\ i <= j

\* Mutation: the page is cut from the end.
LastOnes(s, page, from) ==
  /\ Cardinality(page) = IF Cardinality(from) < PageSize THEN Cardinality(from) ELSE PageSize
  /\ \A i \in page, j \in from \ page : Precedes(s, j, i)

\* The first PageSize of the messages in from.
FirstOnes(s, page, from) ==
  /\ Cardinality(page) = IF Cardinality(from) < PageSize THEN Cardinality(from) ELSE PageSize
  /\ \A i \in page, j \in from \ page : Precedes(s, i, j)

\* processGetSpaceMessages, asked by getSpaceMessages for what came after the
\* last message the reader was given.
ReadSpace(s) ==
  /\ spaces[s] # NoSpace
  /\ \E page \in SUBSET After(s, lastSeen[s]), last \in DOMAIN posts[s] :
       /\ FirstOnes(s, page, After(s, lastSeen[s]))
       /\ last \in page /\ \A i \in page : Precedes(s, i, last)
       /\ given' = [given EXCEPT ![s] = @ \cup page]
       /\ lastSeen' = [lastSeen EXCEPT ![s] = posts[s][last].timestamp]
  /\ UNCHANGED <<spaces, members, posts, spaceNow>>

SpaceTick ==
  /\ spaceNow < MaxSpaceTime
  /\ spaceNow' = spaceNow + 1
  /\ UNCHANGED <<spaces, members, posts, lastSeen, given>>

SpacesNext ==
  \/ \E s \in SpaceIds, space \in Space : CreateSpace(s, space) \/ CreateSpaceCrash(s, space)
  \/ \E s \in SpaceIds, d \in Entities : JoinSpace(s, d) \/ PostToSpace(s, d)
  \/ \E s \in SpaceIds : ReadSpace(s)
  \/ SpaceTick

-----------------------------------------------------------------------------
(* Properties. *)

SpacesTypeOK ==
  /\ spaces \in [SpaceIds -> Space \cup {NoSpace}]
  /\ members \in [SpaceIds -> SUBSET Entities]
  /\ posts \in [SpaceIds -> Seq(Post)]
  /\ lastSeen \in [SpaceIds -> 0..MaxSpaceTime]
  /\ given \in [SpaceIds -> SUBSET Nat] /\ \A s \in SpaceIds : given[s] \subseteq DOMAIN posts[s]
  /\ spaceNow \in 1..MaxSpaceTime

\* Whoever wrote in a space belongs to it, a space that is limited never has
\* more members than its limit, an invite-only one has nobody but its creator,
\* and what has members exists: also after a creation that was cut short, and
\* whoever joined first (processJoinSpace, processPostToSpace).
MembershipSound ==
  \A s \in SpaceIds :
    /\ \A i \in DOMAIN posts[s] : posts[s][i].from \in members[s]
    /\ spaces[s] = NoSpace => members[s] = {}
    /\ spaces[s] # NoSpace =>
         /\ spaces[s].maxMembers > 0 => Cardinality(members[s]) <= spaces[s].maxMembers
         /\ spaces[s].membershipPolicy = "invite_only" => members[s] \subseteq {spaces[s].creatorDid}

\* A reader who pages by the last timestamp skips nothing but messages that bear
\* the same timestamp as one it was given (processGetSpaceMessages: "after" is
\* exclusive, and a page may end between two messages of one millisecond).
ReadersMissOnlyTies ==
  \A s \in SpaceIds : \A i \in DOMAIN posts[s] :
    posts[s][i].timestamp <= lastSeen[s] =>
      i \in given[s] \/ \E j \in given[s] : posts[s][j].timestamp = posts[s][i].timestamp

=============================================================================
